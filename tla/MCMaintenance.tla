--------------------------- MODULE MCMaintenance ----------------------------
(* Small instances of Maintenance for TLC: a comes first in the claim      *)
(* order, b is a statement that cannot be resumed.  In the first pair a is *)
(* the rebuild of an index, longer than b, which the window may be too     *)
(* short for; in the second it is the rebuild of one partition.            *)
EXTENDS Maintenance, TLC

CONSTANTS a, b

KindRebuild   == a :> "rebuild" @@ b :> "other"
KindPartition == a :> "partition" @@ b :> "other"
EstTwo        == a :> 2 @@ b :> 1
EstEqual      == a :> 1 @@ b :> 1
RankTwo       == a :> 0 @@ b :> 1
=============================================================================
