---------------------------- MODULE MCHierReduce ----------------------------
(***************************************************************************)
(* Four threads on one node, whose three non-leaders race for two entries, *)
(* and one on the other node, which leads it at once.                      *)
(***************************************************************************)
EXTENDS HierReduce, TLC

CONSTANTS n0, n1, t0, t1, t2, t3, t4

Placement == (t0 :> n0 @@ t1 :> n0 @@ t2 :> n0 @@ t3 :> n0 @@ t4 :> n1)
PlacementOf == [t \in Threads |-> Placement[t]]
=============================================================================
