---------------------------- MODULE MCDiscovery -----------------------------
(* Small instances of Discovery for TLC: a and b are two generations of    *)
(* items for one object.  They never wait side by side, so their rank does *)
(* not matter, and either may come first: TLC may take one for the other.  *)
EXTENDS Discovery, TLC

CONSTANTS a, b

KindPartition == [i \in Items |-> "partition"]
EstOne    == [i \in Items |-> 1]
RankEqual == [i \in Items |-> 0]

OneObject == [i \in Items |-> "db.t"]
OneKey    == [i \in Items |-> "t"]

EitherFirst == Permutations(Items)
=============================================================================
