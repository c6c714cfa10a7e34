------------------------------ MODULE ItemLife ------------------------------
(***************************************************************************)
(* What the maintenance queue promises of the items of a campaign, whoever *)
(* works on it: somebody decides an item once; only a granted item is      *)
(* worked on, one at a time; an interruption gives it back or parks it;    *)
(* what is over stays over until its document is deleted.                  *)
(*                                                                         *)
(* A call that raises half-way breaks three of these promises, and nothing *)
(* else does: torn says that one did.  Then an item may be left behind as  *)
(* worked on, one that is over may be taken up again, and that one may be  *)
(* deleted while it is open (its terminal_at stays).                       *)
(*                                                                         *)
(* Spec is about the items of one discovery, and Maintenance.tla           *)
(* implements it.  GrowingSpec is about a campaign that is discovered      *)
(* again and again: items come into being, and those nobody has begun on   *)
(* make room for them.  Discovery.tla implements it.                       *)
(***************************************************************************)
CONSTANTS Items

VARIABLES life,     (* life[i]: the stage of each item                      *)
          granted,  (* the items somebody approved                          *)
          torn      (* a write-back was left half done                      *)

Stages == {"unborn", "open", "worked_on", "parked", "over", "gone"}

lifeVars == <<life, granted, torn>>

Init ==
  /\ life = [i \in Items |-> "open"]
  /\ granted = {}
  /\ torn = FALSE

At(S) == {i \in Items : life[i] \in S}

Undecided == At({"open"}) \ granted

\* What was decided: S is of Undecided.
Grant(S) ==
  /\ S # {}
  /\ granted' = granted \cup S
  /\ UNCHANGED <<life, torn>>

Refuse(S) ==
  /\ S # {}
  /\ life' = [i \in Items |-> IF i \in S THEN "over" ELSE life[i]]
  /\ UNCHANGED <<granted, torn>>

\* One item at a time, unless a broken write-back left another behind.
Begin(i) ==
  /\ i \in granted /\ life[i] \in {"open", "parked"}
  /\ At({"worked_on"}) = {} \/ torn
  /\ life' = [life EXCEPT ![i] = "worked_on"]
  /\ UNCHANGED <<granted, torn>>

\* Given back for another attempt or after a death, parked for a RESUME, or over.
Leave(i) ==
  /\ life[i] = "worked_on"
  /\ \E stage \in {"open", "parked", "over"} : life' = [life EXCEPT ![i] = stage]
  /\ UNCHANGED <<granted, torn>>

Forget(i) ==
  /\ life[i] = "over" \/ (torn /\ i \in granted)
  /\ life' = [life EXCEPT ![i] = "gone"]
  /\ UNCHANGED <<granted, torn>>

Tear ==
  /\ torn' = TRUE
  /\ UNCHANGED <<life, granted>>

Reopen(i) ==
  /\ torn /\ i \in granted /\ life[i] = "over"
  /\ life' = [life EXCEPT ![i] = "open"]
  /\ UNCHANGED <<granted, torn>>

Next ==
  \/ \E S \in SUBSET Undecided : Grant(S) \/ Refuse(S)
  \/ \E i \in Items : Begin(i) \/ Leave(i) \/ Forget(i) \/ Reopen(i)
  \/ Tear

Spec == Init /\ [][Next]_lifeVars

-----------------------------------------------------------------------------
(* A queue that is filled again.                                           *)

GrowingInit ==
  /\ life = [i \in Items |-> "unborn"]
  /\ granted = {}
  /\ torn = FALSE

\* An item enters once: what is over or gone never comes back as a new one.
Enter(i) ==
  /\ life[i] = "unborn"
  /\ life' = [life EXCEPT ![i] = "open"]
  /\ UNCHANGED <<granted, torn>>

\* What nobody works on may be withdrawn, granted or not; what is worked on
\* or parked may not.
Withdraw(i) ==
  /\ life[i] = "open"
  /\ life' = [life EXCEPT ![i] = "over"]
  /\ UNCHANGED <<granted, torn>>

GrowingNext ==
  \/ Next
  \/ \E i \in Items : Enter(i) \/ Withdraw(i)

GrowingSpec == GrowingInit /\ [][GrowingNext]_lifeVars
=============================================================================
