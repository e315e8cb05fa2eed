---------------------------- MODULE HybridBarrier ----------------------------
(***************************************************************************)
(* The hierarchical barrier of lib/libopenpop (hierarchy.c,                *)
(* hierarchy_hybrid_barrier) executed over and over by the threads of one  *)
(* parallel region, down to the individual atomic operations of            *)
(* config/linux/bar.[ch].                                                  *)
(*                                                                         *)
(* Threads are spread over nodes.  On each node the last thread to enter   *)
(* leader selection becomes the node's leader, spins until every other     *)
(* thread of the node is inside the node's barrier, synchronizes with the  *)
(* other leaders on the global barrier, re-arms the leader selection and   *)
(* only then enters the node's barrier itself, which releases the node.    *)
(*                                                                         *)
(* One gomp_barrier_t exists per node and one for the leaders; they are    *)
(* the elements of Barriers.  A generation is counted in units of BAR_INCR *)
(* and its flag bits (tasks, cancellation) are left out: no task and no    *)
(* cancellation exists in this module.  The 32 bit wrap-around of the      *)
(* counter cannot be observed as long as AtMostOneBehind holds, since      *)
(* waiters only compare generations for equality.                          *)
(***************************************************************************)
EXTENDS Naturals, FiniteSets

CONSTANTS
  Nodes,       \* the nodes that take part in the region
  Threads,     \* the threads of the team
  NodeOf,      \* NodeOf[t]: the node (popcorn_nid) on which t executes
  Global,      \* identifies popcorn_global.bar
  MaxRounds    \* bound: barriers a thread executes in the region

ThreadsOf(n) == {t \in Threads : NodeOf[t] = n}

ASSUME PlacementAssumption ==
  /\ IsFiniteSet(Threads)
  /\ IsFiniteSet(Nodes)
  /\ NodeOf \in [Threads -> Nodes]
  /\ \A n \in Nodes : ThreadsOf(n) # {}
  /\ Global \notin Nodes
  /\ MaxRounds \in Nat

Barriers == Nodes \cup {Global}

\* gomp_barrier_t.total: hierarchy_init_node() and hierarchy_init_global().
Total(b) == Cardinality(IF b = Global THEN Nodes ELSE ThreadsOf(b))

VARIABLES
  remaining,   \* popcorn_node[n].sync.remaining
  awaited,     \* gomp_barrier_t.awaited
  generation,  \* gomp_barrier_t.generation, in units of BAR_INCR
  pc,          \* what the thread executes next
  at,          \* the barrier the thread is in or about to enter
  leader,      \* local `leader` of hierarchy_hybrid_barrier
  state,       \* local `state` of gomp_team_barrier_wait
  left         \* history: number of hybrid barriers the thread has left

vars == <<remaining, awaited, generation, pc, at, leader, state, left>>

PCs == {"out", "spin", "load", "dec", "reset", "store", "wait", "cleanup"}

Init ==
  /\ remaining  = [n \in Nodes |-> Cardinality(ThreadsOf(n))]
  /\ awaited    = [b \in Barriers |-> Total(b)]
  /\ generation = [b \in Barriers |-> 0]
  /\ pc         = [t \in Threads |-> "out"]
  /\ at         = [t \in Threads |-> NodeOf[t]]
  /\ leader     = [t \in Threads |-> FALSE]
  /\ state      = [t \in Threads |-> 0]
  /\ left       = [t \in Threads |-> 0]

Goto(t, label) == pc' = [pc EXCEPT ![t] = label]

-----------------------------------------------------------------------------
(* Leader selection                                                        *)

\* __atomic_add_fetch(&l->remaining, -1): whoever brings it to zero leads.
SelectLeaderSynchronous(t) ==
  LET n   == NodeOf[t]
      rem == remaining[n] - 1
  IN  /\ pc[t] = "out"
      /\ left[t] < MaxRounds
      /\ remaining' = [remaining EXCEPT ![n] = rem]
      /\ leader' = [leader EXCEPT ![t] = (rem = 0)]
      /\ Goto(t, IF rem = 0 THEN "spin" ELSE "load")
      /\ UNCHANGED <<awaited, generation, at, state, left>>

\* Mutant of LeaderSpin: the leader does not wait for the others of its node.
LeaderSpinUnguarded(t) ==
  /\ pc[t] = "spin"
  /\ at' = [at EXCEPT ![t] = Global]
  /\ Goto(t, "load")
  /\ UNCHANGED <<remaining, awaited, generation, leader, state, left>>

\* Mutant of LeaderSpin: the node synchronizes with itself only.
LeaderSpinLocal(t) ==
  /\ pc[t] = "spin"
  /\ awaited[NodeOf[t]] = 1
  /\ Goto(t, "cleanup")
  /\ UNCHANGED <<remaining, awaited, generation, at, leader, state, left>>

\* do awaited = bar->awaited; while(awaited != 1): then on to the global bar.
LeaderSpin(t) ==
  /\ pc[t] = "spin"
  /\ awaited[NodeOf[t]] = 1
  /\ at' = [at EXCEPT ![t] = Global]
  /\ Goto(t, "load")
  /\ UNCHANGED <<remaining, awaited, generation, leader, state, left>>

\* hierarchy_leader_cleanup.
LeaderCleanup(t) ==
  /\ pc[t] = "cleanup"
  /\ remaining' = [remaining EXCEPT ![NodeOf[t]] = Total(NodeOf[t])]
  /\ Goto(t, "load")
  /\ UNCHANGED <<awaited, generation, at, leader, state, left>>

-----------------------------------------------------------------------------
(* gomp_team_barrier_wait and gomp_team_barrier_wait_nospin                *)

\* gomp_barrier_wait_start: the generation is loaded before, and separately
\* from, the decrement of awaited.
WaitStartLoad(t) ==
  /\ pc[t] = "load"
  /\ state' = [state EXCEPT ![t] = generation[at[t]]]
  /\ Goto(t, "dec")
  /\ UNCHANGED <<remaining, awaited, generation, at, leader, left>>

WaitStartDecrement(t) ==
  LET b == at[t]
  IN  /\ pc[t] = "dec"
      /\ awaited' = [awaited EXCEPT ![b] = @ - 1]
      /\ Goto(t, IF awaited[b] - 1 = 0 THEN "reset" ELSE "wait")
      /\ UNCHANGED <<remaining, generation, at, leader, state, left>>

\* Mutant of LastReset: the last arriver counts itself as arrived already.
LastResetShort(t) ==
  /\ pc[t] = "reset"
  /\ awaited' = [awaited EXCEPT ![at[t]] = Total(at[t]) - 1]
  /\ Goto(t, "store")
  /\ UNCHANGED <<remaining, generation, at, leader, state, left>>

\* BAR_WAS_LAST: bar->awaited = bar->total, a store of its own.
LastReset(t) ==
  /\ pc[t] = "reset"
  /\ awaited' = [awaited EXCEPT ![at[t]] = Total(at[t])]
  /\ Goto(t, "store")
  /\ UNCHANGED <<remaining, generation, at, leader, state, left>>

\* Return from gomp_team_barrier_wait: from the global barrier back into
\* hierarchy_hybrid_barrier, from the node barrier to the program.
Return(t) ==
  IF at[t] = Global
  THEN /\ at' = [at EXCEPT ![t] = NodeOf[t]]
       /\ Goto(t, "cleanup")
       /\ UNCHANGED <<leader, left>>
  ELSE /\ left' = [left EXCEPT ![t] = @ + 1]
       /\ leader' = [leader EXCEPT ![t] = FALSE]
       /\ Goto(t, "out")
       /\ UNCHANGED at

\* The generation stored is computed from the value loaded on entry.
LastStoreGeneration(t) ==
  /\ pc[t] = "store"
  /\ generation' = [generation EXCEPT ![at[t]] = state[t] + 1]
  /\ Return(t)
  /\ UNCHANGED <<remaining, awaited, state>>

\* while (gen != state + BAR_INCR): exact equality, not "has changed".
WaitEnd(t) ==
  /\ pc[t] = "wait"
  /\ generation[at[t]] = state[t] + 1
  /\ Return(t)
  /\ UNCHANGED <<remaining, awaited, generation, state>>

-----------------------------------------------------------------------------
ThreadStep(t) ==
  \/ SelectLeaderSynchronous(t)
  \/ LeaderSpin(t)
  \/ LeaderCleanup(t)
  \/ WaitStartLoad(t)
  \/ WaitStartDecrement(t)
  \/ LastReset(t)
  \/ LastStoreGeneration(t)
  \/ WaitEnd(t)

\* The region is over once every thread went through its barriers.
RegionDone ==
  /\ \A t \in Threads : pc[t] = "out" /\ left[t] = MaxRounds
  /\ UNCHANGED vars

Next == RegionDone \/ \E t \in Threads : ThreadStep(t)

Spec == Init /\ [][Next]_vars

\* Every thread of the team is scheduled, and every thread reaches every
\* barrier of the region (an OpenMP program may not do otherwise).
FairSpec == Spec /\ \A t \in Threads : WF_vars(ThreadStep(t))

-----------------------------------------------------------------------------
(* Properties                                                              *)

\* The values the words of the synchronization structures may hold: in
\* particular neither counter ever wraps below zero or exceeds its total.
TypeOK ==
  /\ remaining  \in [Nodes -> Nat]
  /\ awaited    \in [Barriers -> Nat]
  /\ generation \in [Barriers -> Nat]
  /\ pc         \in [Threads -> PCs]
  /\ at         \in [Threads -> Barriers]
  /\ leader     \in [Threads -> BOOLEAN]
  /\ state      \in [Threads -> Nat]
  /\ left       \in [Threads -> Nat]
  /\ \A t \in Threads : at[t] \in {NodeOf[t], Global}
  /\ \A n \in Nodes : remaining[n] <= Cardinality(ThreadsOf(n))
  /\ \A b \in Barriers : awaited[b] <= Total(b)

\* Barriers thread t has entered.
Entered(t) == IF pc[t] = "out" THEN left[t] ELSE left[t] + 1

\* t is inside barrier b and b has not been released since t arrived.
Parked(t, b) == at[t] = b /\ pc[t] = "wait" /\ generation[b] = state[t]

\* No thread of any node leaves its k-th barrier before every thread of every
\* node has entered its k-th barrier.
BarrierSeparation ==
  \A t, u \in Threads : left[t] <= Entered(u)

\* hierarchy.c:271 states the purpose of the spin in leader selection: a
\* leader touches the global barrier only while every other thread of its
\* node is parked in the node's barrier, so that nobody of the node runs
\* between the local and the global synchronization.
ParkedBeforeGlobal ==
  \A t, u \in Threads :
    at[t] = Global /\ NodeOf[u] = NodeOf[t] /\ u # t => Parked(u, NodeOf[u])

\* Waiters test for exactly state + BAR_INCR: a barrier that could be released
\* twice before a slow waiter looks again would strand that waiter for ever.
AtMostOneBehind ==
  \A t \in Threads :
    pc[t] = "wait" => generation[at[t]] \in {state[t], state[t] + 1}

\* Every thread that enters a barrier eventually leaves it.
EveryoneLeaves ==
  \A t \in Threads : pc[t] # "out" ~> pc[t] = "out"

\* Refinement: arrivals and departures are those of a flat barrier over the
\* whole team, whatever the placement of the threads on nodes.
Abstract == INSTANCE AbstractBarrier
              WITH arrived <- [t \in Threads |-> Entered(t)], departed <- left

ImplementsBarrier == Abstract!Spec
-----------------------------------------------------------------------------
(* The inductive invariant behind the safety properties                    *)

\* t counts as arrived in its node's barrier: it has decremented awaited and
\* the barrier has not been released since.
HasArrived(t) ==
  /\ at[t] = NodeOf[t]
  /\ pc[t] = "reset" \/ (pc[t] = "wait" /\ state[t] = generation[NodeOf[t]])

\* t has not entered the barrier its node is gathering for: it is outside, or
\* it was released and has not noticed yet.
IsOutside(t) ==
  \/ pc[t] = "out"
  \/ at[t] = NodeOf[t] /\ pc[t] = "wait" /\ state[t] # generation[NodeOf[t]]

\* n's leader counts as arrived in the global barrier.
NodeArrived(n) ==
  \E t \in ThreadsOf(n) :
    /\ at[t] = Global
    /\ pc[t] = "reset" \/ (pc[t] = "wait" /\ state[t] = generation[Global])

\* n's leader has re-armed leader selection and is entering the node barrier.
Rearmed(n) ==
  \E t \in ThreadsOf(n) :
    leader[t] /\ at[t] = n /\ pc[t] \in {"load", "dec", "reset", "store"}

\* n's leader was released from the global barrier, n itself was not yet.
Passed(n) ==
  \E t \in ThreadsOf(n) :
    /\ leader[t]
    /\ \/ at[t] = n /\ pc[t] # "spin"
       \/ at[t] = Global /\ pc[t] = "wait" /\ state[t] # generation[Global]

\* Somebody is between re-arming awaited and publishing the generation of b.
Releasing(b) == \E t \in Threads : at[t] = b /\ pc[t] = "store"

Away(n)   == {t \in ThreadsOf(n) : ~HasArrived(t)}
Outside(n) == {t \in ThreadsOf(n) : IsOutside(t)}
AwayNodes == {n \in Nodes : ~NodeArrived(n)}

LeaderInv ==
  \A t \in Threads :
    /\ at[t] = Global => leader[t] /\ pc[t] \notin {"out", "spin", "cleanup"}
    /\ pc[t] \in {"spin", "cleanup"} => leader[t]
    /\ pc[t] \in {"reset", "store"} => leader[t]
    /\ leader[t] => pc[t] # "out" /\ ~(at[t] = NodeOf[t] /\ pc[t] = "wait")
    /\ leader[t] =>
         \A u \in Threads : NodeOf[u] = NodeOf[t] /\ u # t =>
           /\ ~leader[u]
           /\ ~IsOutside(u)
           /\ pc[t] # "spin" => HasArrived(u)

\* Once everybody has entered, somebody was last to do so.
SomeoneLeads ==
  \A n \in Nodes : Outside(n) = {} => \E t \in ThreadsOf(n) : leader[t]

GenerationInv ==
  \A t \in Threads :
    /\ pc[t] \in {"dec", "reset", "store"} => state[t] = generation[at[t]]
    /\ pc[t] = "wait" => generation[at[t]] \in {state[t], state[t] + 1}

CountInv ==
  /\ \A n \in Nodes :
       /\ remaining[n] = IF Rearmed(n) THEN Total(n)
                                       ELSE Cardinality(Outside(n))
       /\ awaited[n] = IF Releasing(n) THEN Total(n) ELSE Cardinality(Away(n))
  /\ awaited[Global] = IF Releasing(Global) THEN Total(Global)
                                            ELSE Cardinality(AwayNodes)

GlobalInv ==
  \A t \in Threads : at[t] = Global /\ pc[t] \in {"reset", "store"} =>
    /\ \A n \in Nodes : n # NodeOf[t] => NodeArrived(n)
    /\ \A u \in Threads :
         at[u] = Global /\ pc[u] \in {"reset", "store"} => u = t

RoundInv ==
  /\ \A t \in Threads :
       generation[NodeOf[t]] =
         IF IsOutside(t) /\ pc[t] # "out" THEN left[t] + 1 ELSE left[t]
  /\ \A n \in Nodes :
       generation[Global] =
         IF Passed(n) THEN generation[n] + 1 ELSE generation[n]

IInv ==
  /\ TypeOK
  /\ LeaderInv
  /\ SomeoneLeads
  /\ GenerationInv
  /\ CountInv
  /\ GlobalInv
  /\ RoundInv
=============================================================================
