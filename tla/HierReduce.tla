----------------------------- MODULE HierReduce -----------------------------
(***************************************************************************)
(* The tree reduction of lib/libopenpop (hierarchy.c, hierarchy_reduce)    *)
(* executed by a team over and over: the first thread of a node to arrive  *)
(* leads its node and combines what the others post in the node's          *)
(* reduction entries; the first node leader to get there combines what the *)
(* other leaders post in the global entries and is the one to finish the   *)
(* reduction.  __kmpc_reduce ends with a barrier, __kmpc_reduce_nowait     *)
(* does not, and its threads go straight on to the next reduction.         *)
(*                                                                         *)
(* A payload is the bag of the contributions combined into it, each named  *)
(* by its thread and reduction; an entry holds a pointer to a payload, that *)
(* is the thread and reduction it belongs to, or NULL.                     *)
(***************************************************************************)
EXTENDS Naturals, FiniteSets, Bags

CONSTANTS
  Nodes,      \* the nodes that take part in the region
  Threads,    \* the threads of the team
  NodeOf,     \* NodeOf[t]: the node on which t executes
  Entries,    \* REDUCTION_ENTRIES
  Count,      \* bound: reductions the region executes
  Nowait,     \* the reductions are __kmpc_reduce_nowait
  Null        \* NULL

ThreadsOf(n) == {t \in Threads : NodeOf[t] = n}
Reductions == 1 .. Count

ASSUME ReduceAssumption ==
  /\ IsFiniteSet(Threads) /\ IsFiniteSet(Nodes)
  /\ NodeOf \in [Threads -> Nodes]
  /\ \A n \in Nodes : ThreadsOf(n) # {}
  /\ Entries \in Nat \ {0} /\ Count \in Nat \ {0} /\ Nowait \in BOOLEAN
  /\ Null \notin Threads \X Reductions
  \* get_reduce_method: smaller teams use atomics or a critical section.
  /\ Cardinality(Threads) > 4

VARIABLES
  remaining,   \* popcorn_node[n].opt.remaining
  gremaining,  \* popcorn_global.opt.remaining
  entry,       \* popcorn_node[n].reductions[i].p
  gentry,      \* popcorn_global.reductions[n].p
  pc,          \* what the thread does next
  red,         \* the reduction the thread is in
  ticket,      \* its ticket: the entry a non-leader posts in
  seen,        \* what a leader has left to scan in this pass
  reduced,     \* local `reduced` of a leader
  payload,     \* payload[t][r]: the contributions combined in t's data
  result       \* the contributions combined in the shared variable of r

vars == <<remaining, gremaining, entry, gentry, pc, red, ticket, seen, reduced,
          payload, result>>

Size(n) == Cardinality(ThreadsOf(n))
MaxEntry(n) == IF Size(n) < Entries THEN Size(n) ELSE Entries
Slots == 0 .. Entries - 1

Init ==
  /\ remaining = [n \in Nodes |-> Size(n)]
  /\ gremaining = Cardinality(Nodes)
  /\ entry = [n \in Nodes |-> [i \in Slots |-> Null]]
  /\ gentry = [n \in Nodes |-> Null]
  /\ pc = [t \in Threads |-> "enter"]
  /\ red = [t \in Threads |-> 1]
  /\ ticket = [t \in Threads |-> 0]
  /\ seen = [t \in Threads |-> {}]
  /\ reduced = [t \in Threads |-> 0]
  /\ payload = [t \in Threads |-> [r \in Reductions |-> SetToBag({<<t, r>>})]]
  /\ result = [r \in Reductions |-> EmptyBag]

Goto(t, label) == pc' = [pc EXCEPT ![t] = label]

\* t's reduce_func combines the payload that pointer p leads to into its own.
Reduce(t, p) ==
  payload' = [payload EXCEPT ![t][red[t]] = @ (+) payload[p[1]][p[2]]]

-----------------------------------------------------------------------------
(* The node                                                                *)

\* select_leader_optimistic: the first thread leads; the others get a ticket.
SelectLeaderOptimistic(t) ==
  LET n == NodeOf[t]
  IN  /\ pc[t] = "enter"
      /\ remaining' = [remaining EXCEPT ![n] = @ - 1]
      /\ IF remaining[n] = Size(n)
         THEN /\ Goto(t, "gather")
              /\ reduced' = [reduced EXCEPT ![t] = 1]
              /\ seen' = [seen EXCEPT ![t] = {}]
              /\ UNCHANGED ticket
         ELSE /\ Goto(t, "post")
              /\ ticket' = [ticket EXCEPT ![t] = (remaining[n] - 1) % Entries]
              /\ UNCHANGED <<reduced, seen>>
      /\ UNCHANGED <<gremaining, entry, gentry, red, payload, result>>

\* hierarchy_reduce_local: spin until the entry is free, then post.
ReduceLocal(t) ==
  LET n == NodeOf[t]
  IN  /\ pc[t] = "post"
      /\ entry[n][ticket[t]] = Null
      /\ entry' = [entry EXCEPT ![n][ticket[t]] = <<t, red[t]>>]
      /\ Goto(t, "return")
      /\ UNCHANGED <<remaining, gremaining, gentry, red, ticket, seen, reduced, payload, result>>

\* The condition of the while loop is tested between two passes over the
\* entries, not after each of them.
GatherPass(t) ==
  LET n == NodeOf[t]
  IN  /\ pc[t] = "gather" /\ seen[t] = {}
      /\ IF reduced[t] < Size(n)
         THEN /\ seen' = [seen EXCEPT ![t] = 0 .. MaxEntry(n) - 1]
              /\ UNCHANGED pc
         ELSE /\ Goto(t, "select")
              /\ UNCHANGED seen
      /\ UNCHANGED <<remaining, gremaining, entry, gentry, red, ticket, reduced, payload, result>>

\* Mutant of GatherEntry: the entry is not freed.
GatherEntryKept(t) ==
  LET n == NodeOf[t]
      i == CHOOSE j \in seen[t] : \A k \in seen[t] : j <= k
      p == entry[n][i]
  IN  /\ pc[t] = "gather" /\ seen[t] # {}
      /\ seen' = [seen EXCEPT ![t] = @ \ {i}]
      /\ IF p = Null THEN UNCHANGED <<reduced, payload>>
         ELSE Reduce(t, p) /\ reduced' = [reduced EXCEPT ![t] = @ + 1]
      /\ UNCHANGED <<remaining, gremaining, entry, gentry, pc, red, ticket, result>>

\* The next entry of the pass: combine and free it if it holds a pointer.
GatherEntry(t) ==
  LET n == NodeOf[t]
      i == CHOOSE j \in seen[t] : \A k \in seen[t] : j <= k
      p == entry[n][i]
  IN  /\ pc[t] = "gather" /\ seen[t] # {}
      /\ seen' = [seen EXCEPT ![t] = @ \ {i}]
      /\ IF p = Null THEN UNCHANGED <<entry, reduced, payload>>
         ELSE /\ Reduce(t, p)
              /\ entry' = [entry EXCEPT ![n][i] = Null]
              /\ reduced' = [reduced EXCEPT ![t] = @ + 1]
      /\ UNCHANGED <<remaining, gremaining, gentry, pc, red, ticket, result>>

-----------------------------------------------------------------------------
(* The node leaders                                                        *)

SelectGlobalLeader(t) ==
  /\ pc[t] = "select"
  /\ gremaining' = gremaining - 1
  /\ IF gremaining = Cardinality(Nodes)
     THEN /\ Goto(t, "ggather")
          /\ reduced' = [reduced EXCEPT ![t] = 1]
     ELSE /\ Goto(t, "gpost")
          /\ UNCHANGED reduced
  /\ UNCHANGED <<remaining, entry, gentry, red, ticket, seen, payload, result>>

\* Each node has an entry of its own: a plain store, whatever it holds.
PostGlobal(t) ==
  /\ pc[t] = "gpost"
  /\ gentry' = [gentry EXCEPT ![NodeOf[t]] = <<t, red[t]>>]
  /\ Goto(t, "cleanup")
  /\ UNCHANGED <<remaining, gremaining, entry, red, ticket, seen, reduced, payload, result>>

\* Nodes stand for their entries; the order within a pass is any order.
GlobalPass(t) ==
  /\ pc[t] = "ggather" /\ seen[t] = {}
  /\ IF reduced[t] < Cardinality(Nodes)
     THEN /\ seen' = [seen EXCEPT ![t] = Nodes]
          /\ UNCHANGED pc
     ELSE /\ Goto(t, "gcleanup")
          /\ UNCHANGED seen
  /\ UNCHANGED <<remaining, gremaining, entry, gentry, red, ticket, reduced, payload, result>>

GlobalEntry(t) ==
  /\ pc[t] = "ggather"
  /\ \E n \in seen[t] :
       /\ seen' = [seen EXCEPT ![t] = @ \ {n}]
       /\ IF gentry[n] = Null THEN UNCHANGED <<gentry, reduced, payload>>
          ELSE /\ Reduce(t, gentry[n])
               /\ gentry' = [gentry EXCEPT ![n] = Null]
               /\ reduced' = [reduced EXCEPT ![t] = @ + 1]
  /\ UNCHANGED <<remaining, gremaining, entry, pc, red, ticket, result>>

GlobalCleanup(t) ==
  /\ pc[t] = "gcleanup"
  /\ gremaining' = Cardinality(Nodes)
  /\ Goto(t, "cleanupFinal")
  /\ UNCHANGED <<remaining, entry, gentry, red, ticket, seen, reduced, payload, result>>

\* Mutant of NodeCleanup: leader selection is not re-armed.
NodeCleanupForgotten(t) ==
  /\ pc[t] \in {"cleanup", "cleanupFinal"}
  /\ Goto(t, IF pc[t] = "cleanup" THEN "return" ELSE "finish")
  /\ UNCHANGED <<remaining, gremaining, entry, gentry, red, ticket, seen, reduced, payload, result>>

\* hierarchy_leader_cleanup of the node, by every node leader.
NodeCleanup(t) ==
  /\ pc[t] \in {"cleanup", "cleanupFinal"}
  /\ remaining' = [remaining EXCEPT ![NodeOf[t]] = Size(NodeOf[t])]
  /\ Goto(t, IF pc[t] = "cleanup" THEN "return" ELSE "finish")
  /\ UNCHANGED <<gremaining, entry, gentry, red, ticket, seen, reduced, payload, result>>

-----------------------------------------------------------------------------
(* The caller                                                              *)

\* hierarchy_reduce returned true: the compiled code combines the payload in
\* the shared variable, without a lock, and calls __kmpc_end_reduce.
Finish(t) ==
  /\ pc[t] = "finish"
  /\ result' = [result EXCEPT ![red[t]] = @ (+) payload[t][red[t]]]
  /\ Goto(t, "return")
  /\ UNCHANGED <<remaining, gremaining, entry, gentry, red, ticket, seen, reduced, payload>>

\* Mutant of Arrived: the barrier does not wait for threads still reducing.
ArrivedOrReducing(t, r) == red[t] >= r

\* The barrier of a blocking reduction lets t pass; HybridBarrier shows that
\* it does so only when every thread has arrived.
Arrived(t, r) == red[t] > r \/ (red[t] = r /\ pc[t] = "return")

NextReduction(t) ==
  /\ pc[t] = "return"
  /\ Nowait \/ \A u \in Threads : Arrived(u, red[t])
  /\ red[t] < Count
  /\ red' = [red EXCEPT ![t] = @ + 1]
  /\ Goto(t, "enter")
  /\ UNCHANGED <<remaining, gremaining, entry, gentry, ticket, seen, reduced, payload, result>>

-----------------------------------------------------------------------------
ThreadStep(t) ==
  \/ SelectLeaderOptimistic(t) \/ ReduceLocal(t) \/ GatherPass(t) \/ GatherEntry(t)
  \/ SelectGlobalLeader(t) \/ PostGlobal(t) \/ GlobalPass(t) \/ GlobalEntry(t)
  \/ GlobalCleanup(t) \/ NodeCleanup(t) \/ Finish(t) \/ NextReduction(t)

Done ==
  /\ \A t \in Threads : pc[t] = "return" /\ red[t] = Count
  /\ UNCHANGED vars

Next == Done \/ \E t \in Threads : ThreadStep(t)

Spec == Init /\ [][Next]_vars

\* Every thread of the team is scheduled.
FairSpec == Spec /\ \A t \in Threads : WF_vars(ThreadStep(t))

-----------------------------------------------------------------------------
(* Properties                                                              *)

Pointers == Threads \X Reductions

TypeOK ==
  /\ remaining \in [Nodes -> Nat] /\ gremaining \in Nat
  /\ entry \in [Nodes -> [Slots -> Pointers \cup {Null}]]
  /\ gentry \in [Nodes -> Pointers \cup {Null}]
  /\ red \in [Threads -> Reductions] /\ ticket \in [Threads -> Slots]
  /\ \A n \in Nodes : remaining[n] <= Size(n)
  /\ gremaining <= Cardinality(Nodes)
  /\ \A t \in Threads : reduced[t] <= Cardinality(Threads)

\* hierarchy.c:307: a leader keeps looping "until all local threads have been
\* combined": leaving its node's entries, it has combined the payloads of
\* exactly the node's threads, of this reduction and once each.
LocalThreadsCombined ==
  \A t \in Threads : pc[t] = "select" =>
    payload[t][red[t]] = SetToBag(ThreadsOf(NodeOf[t]) \X {red[t]})

\* The shared variable of a reduction receives every thread's contribution
\* exactly once, and has received it before any thread goes past the barrier
\* of the reduction.
ResultComplete ==
  \A r \in Reductions :
    /\ result[r] \in {EmptyBag, SetToBag(Threads \X {r})}
    /\ (\E t \in Threads : red[t] > r) => result[r] # EmptyBag

\* A pointer in an entry leads to the private data of a thread that is still
\* inside the reduction that uses it: the data lives on the thread's stack.
PointersAlive ==
  \A n \in Nodes :
    /\ gentry[n] # Null => red[gentry[n][1]] = gentry[n][2]
    /\ \A i \in Slots : entry[n][i] # Null => red[entry[n][i][1]] = entry[n][i][2]

\* Every thread gets through every reduction: no leader waits for a payload
\* that was combined elsewhere, no thread for an entry that is never freed.
EveryoneFinishes == <>(\A t \in Threads : pc[t] = "return" /\ red[t] = Count)
=============================================================================
