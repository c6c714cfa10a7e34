-------------------------- MODULE MCMaintenanceWeb --------------------------
(* Small instances of MaintenanceWeb for TLC: one item, a rebuild.         *)
EXTENDS MaintenanceWeb, TLC

CONSTANTS a

KindOne == a :> "rebuild"
EstOne  == a :> 1
RankOne == a :> 0
=============================================================================
