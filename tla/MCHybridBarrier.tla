--------------------------- MODULE MCHybridBarrier ---------------------------
(***************************************************************************)
(* Two nodes, three threads on the origin and two on the remote node: the  *)
(* non-leaders of a node race with one another and with the other node.    *)
(***************************************************************************)
EXTENDS HybridBarrier, TLC

CONSTANTS n0, n1, t0, t1, t2, t3, t4

Placement == t0 :> n0 @@ t1 :> n0 @@ t2 :> n0 @@ t3 :> n1 @@ t4 :> n1
=============================================================================
