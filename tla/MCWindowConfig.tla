--------------------------- MODULE MCWindowConfig ---------------------------
(* Small instances of WindowConfig for TLC: a day of eight units (three     *)
(* hours each), and a window over midnight to type into the dialog.        *)
EXTENDS WindowConfig

CONSTANTS A, B

Overnight == [start |-> 7, end |-> 2, budget |-> 2]

Weekend   == [start |-> 0, end |-> 3, budget |-> 3]

MCDrafts == {Overnight}

\* Both sides of the windows of Thursday night and Friday, and Saturday.
MCTimes == {30, 32, 33, 34, 35, 39, 40, 41}

\* No statement, or one no longer than Offset, since Thursday night.
MCHistories == {{}} \cup {{[start |-> t, end |-> t + 1]} : t \in {30, 31, 33}}

=============================================================================
