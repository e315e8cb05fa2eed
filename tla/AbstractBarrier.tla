--------------------------- MODULE AbstractBarrier ---------------------------
(***************************************************************************)
(* What a barrier over a fixed team of threads promises (OpenMP's `omp     *)
(* barrier`, hierarchy.h: "Execute a barrier"): a thread that arrived for  *)
(* the k-th time departs for the k-th time only when every thread of the   *)
(* team has arrived for the k-th time.  Nothing is said of how the threads *)
(* learn about one another; HybridBarrier and TeamRegion implement it.     *)
(***************************************************************************)
EXTENDS Naturals

CONSTANT Threads            \* the threads of the team

VARIABLES arrived,          \* arrived[t]:  barriers t has entered
          departed          \* departed[t]: barriers t has left

vars == <<arrived, departed>>

Init ==
  /\ arrived  = [t \in Threads |-> 0]
  /\ departed = [t \in Threads |-> 0]

Arrive(t) ==
  /\ arrived[t] = departed[t]
  /\ arrived' = [arrived EXCEPT ![t] = @ + 1]
  /\ UNCHANGED departed

Depart(t) ==
  /\ departed[t] < arrived[t]
  /\ \A u \in Threads : arrived[t] <= arrived[u]
  /\ departed' = [departed EXCEPT ![t] = @ + 1]
  /\ UNCHANGED arrived

Next == \E t \in Threads : Arrive(t) \/ Depart(t)

Spec == Init /\ [][Next]_vars
=============================================================================
