---------------------- MODULE HierWorkshareDataProofs ----------------------
(***************************************************************************)
(* The third layer of the proofs about HierWorkshare: which iterations     *)
(* were given to a thread, which are left in the work shares and who was   *)
(* told to have the last one.  Regions without probing loops, and loops so *)
(* short that the global counter does not wrap around (NoOverflow).        *)
(***************************************************************************)
EXTENDS HierWorkshareProofs

\* The end of a dynamic loop leaves room for what the additions to the global
\* counter add beyond it: once for every thread of the team, and once more for
\* the node that took the last batch.
NoOverflow ==
  \A l \in LoopIds, n \in Nodes :
    Sched(l) = "dynamic" =>
      Loops[l].end + Loops[l].chunk * (Cardinality(Threads) + ThreadsPerNode(n)) <= LONG_MAX

\* The hypotheses hold in all states of a behaviour or in none.
LEMMA SameHypotheses ==
  ASSUME [Next]_vars
  PROVE  NoProbes /\ NoOverflow <=> NoProbes' /\ NoOverflow'
BY SameProbes, SameRegion DEF NoOverflow, LoopIds, Sched

-----------------------------------------------------------------------------
(* The invariant                                                           *)

\* t has taken all it gets of loop l.
EndedWork(t) == pc[t] = "end" \/ ~Outside(t)
Through(t, l) == l < Cur(t) \/ (l = Cur(t) /\ EndedWork(t))

Tables ==
  /\ given \in [LoopIds -> SUBSET Int] /\ twice \in [LoopIds -> SUBSET Int]
  /\ flagged \in [LoopIds -> Nat]

\* A static loop: the parts of the threads that have taken theirs.
StaticGiven(l) ==
  Sched(l) = "static" =>
    given[l] = UNION {Part(Loops[l], t) : t \in {u \in Threads : Through(u, l)}} /\ twice[l] = {}

Complete(l) == given[l] = Iterations(l) /\ twice[l] = {} /\ flagged[l] = 1
Untouched(l) == given[l] = {} /\ twice[l] = {} /\ flagged[l] = 0

\* The threads of n are in loop l; what their work share holds of it; the
\* threads of the nodes that found the global work share empty.
NodeOn(n, l) == ~Unstarted(n) /\ \A t \in ThreadsOf(n) : Cur(t) = l
Held(n, l) == IF NodeOn(n, l) THEN ws[n].next .. ws[n].end - 1 ELSE {}
Drained(l) == {t \in Threads : NodeOn(NodeOf[t], l) /\ ws[NodeOf[t]].completed}

\* Where the counters may stand.
GlobalRange(g) ==
  /\ gws.next \in Nat
  /\ gws.mode =>
       \/ gws.next < Loops[g].end
       \/ \E n \in Nodes : gws.next < Loops[g].end + Loops[g].chunk * ThreadsPerNode(n)
                                      + Loops[g].chunk * Cardinality(Drained(g))
  /\ ~gws.mode => gws.next <= Loops[g].end
NodeRange(n, g) ==
  NodeOn(n, g) =>
    /\ ws[n].next \in Nat /\ ws[n].next <= ws[n].end
    /\ ws[n].end <= Loops[g].end /\ ws[n].end <= gws.next
    /\ ws[n].completed => ws[n].next = ws[n].end /\ gws.next >= Loops[g].end
Refilling(t) ==
  /\ pc[t] = "add" => gws.mode
  /\ pc[t] = "cas" => ~gws.mode /\ start[t] \in 0 .. gws.next
  /\ pc[t] \in {"add", "cas"} =>
       ws[NodeOf[t]].next = ws[NodeOf[t]].end /\ ~ws[NodeOf[t]].completed

\* An iteration below the global counter was given out or is in the work share
\* of one node.
Partition(g) ==
  /\ twice[g] = {}
  /\ \A i \in given[g] :
       i \in Iterations(g) /\ i < gws.next /\ \A n \in Nodes : i \notin Held(n, g)
  /\ \A m, n \in Nodes : m # n => Held(m, g) \cap Held(n, g) = {}
  /\ \A i \in Iterations(g) : i < gws.next => i \in given[g] \/ \E n \in Nodes : i \in Held(n, g)

\* t is about to be told that it has the last iteration.
AtLast(t, g) == pc[t] = "last" /\ batch[t] = Loops[g].end
Flags(g) ==
  /\ \A t \in Threads : pc[t] = "last" => batch[t] \in 1 .. Loops[g].end
  /\ flagged[g] \in {0, 1}
  /\ \A t, u \in Threads : AtLast(t, g) /\ AtLast(u, g) => t = u
  /\ \A t \in Threads : AtLast(t, g) => flagged[g] = 0
  /\ Loops[g].end - 1 \in given[g] <=> flagged[g] = 1 \/ \E t \in Threads : AtLast(t, g)

Sharing(g) ==
  /\ GlobalRange(g) /\ (\A n \in Nodes : NodeRange(n, g)) /\ (\A t \in Threads : Refilling(t))
  /\ Partition(g) /\ Flags(g)

\* A dynamic loop is untouched, then shared out, then complete.
Armed == gwsLock # "null"
Account(l) ==
  Dynamic(l) =>
    /\ (\E t \in Threads : Ended(t, l)) => Complete(l)
    /\ GlobalClosed /\ (\E t \in Threads : Cur(t) = l) => Complete(l)
    /\ Is(l) /\ Armed => Sharing(l)
    /\ (\A t \in Threads : ~Ended(t, l)) /\ (Is(l) => ~Armed /\ ~GlobalClosed) => Untouched(l)

\* A thread leaves a dynamic loop when the work shares are empty, and enters it
\* with an empty one.
Leaves(t) ==
  EndedWork(t) /\ Dynamic(Cur(t)) =>
    ws[NodeOf[t]].completed /\ ws[NodeOf[t]].next = ws[NodeOf[t]].end
Enters(t) ==
  pc[t] = "initglobal" =>
    ws[NodeOf[t]].next = 0 /\ ws[NodeOf[t]].end = 0 /\ ~ws[NodeOf[t]].completed

DataInv ==
  /\ Tables /\ (\A l \in LoopIds : StaticGiven(l) /\ Account(l))
  /\ \A t \in Threads : Leaves(t) /\ Enters(t)
CountInv == SyncInv /\ LockInv /\ DataInv

-----------------------------------------------------------------------------
(* Steps that leave the iterations alone                                   *)

\* The loop that is shared out is one.
LEMMA OneIs ==
  ASSUME NoProbes, Types, NEW g \in LoopIds, NEW l \in LoopIds, Is(g), Is(l),
         NEW t \in Threads
  PROVE  g = l
<1>1. g \in Int /\ l \in Int /\ Dynamic(g) /\ Dynamic(l)
  BY LoopTypes DEF Is
<1>2. ~(g < l) /\ ~(l < g)
  BY DEF Is
<1> QED
  BY <1>1, <1>2

\* A loop that is shared out stays so.
LEMMA SharingKept ==
  ASSUME NEW g \in LoopIds, Sharing(g), UNCHANGED <<Loops, gws, given, twice, flagged, batch>>,
         \A n \in Nodes : Held(n, g)' = Held(n, g) /\ NodeRange(n, g)',
         Drained(g)' = Drained(g),
         \A t \in Threads : Refilling(t)',
         \A t \in Threads : pc'[t] = "last" <=> pc[t] = "last"
  PROVE  Sharing(g)'
<1>1. GlobalRange(g)'
  BY DEF Sharing, GlobalRange
<1>2. Partition(g)'
  BY DEF Sharing, Partition, Iterations
<1>3. \A t \in Threads : AtLast(t, g)' <=> AtLast(t, g)
  BY DEF AtLast
<1>4. Flags(g)'
  BY <1>3 DEF Sharing, Flags
<1> QED
  BY <1>1, <1>2, <1>4 DEF Sharing

\* What is known of a loop after a step at which no dynamic loop ends.
LEMMA AccountKept ==
  ASSUME Loops' = Loops,
         \A u \in Threads, k \in LoopIds : Dynamic(k) => (Ended(u, k)' <=> Ended(u, k)),
         GlobalClosed' <=> GlobalClosed, GlobalClosed => \A u \in Threads : Cur(u)' = Cur(u),
         UNCHANGED <<given, twice, flagged>>, Armed' <=> Armed,
         NEW l \in LoopIds, Account(l),
         Dynamic(l) /\ Is(l) /\ Armed /\ Sharing(l) => Sharing(l)'
  PROVE  Account(l)'
<1>1. LoopIds' = LoopIds /\ \A k \in LoopIds : Dynamic(k)' <=> Dynamic(k)
  BY DEF LoopIds, Dynamic, Sched
<1>3. Is(l)' <=> Is(l)
  BY <1>1 DEF Is
<1>4. (Complete(l)' <=> Complete(l)) /\ (Untouched(l)' <=> Untouched(l))
  BY DEF Complete, Untouched, Iterations
<1> QED
  BY <1>1, <1>3, <1>4 DEF Account

\* What a step that gives nothing out and leaves the work shares of the nodes
\* alone keeps for the other loops and the threads.
LEMMA RestKept ==
  ASSUME DataInv, Loops' = Loops, UNCHANGED <<given, twice, flagged, ws>>,
         \A u \in Threads : Cur(u)' = Cur(u) /\ (EndedWork(u)' <=> EndedWork(u))
                            /\ (pc'[u] = "initglobal" => pc[u] = "initglobal")
  PROVE  /\ Tables' /\ \A l \in LoopIds : StaticGiven(l)'
         /\ \A t \in Threads : Leaves(t)' /\ Enters(t)'
<1>1. LoopIds' = LoopIds
  BY DEF LoopIds
<1>2. Tables'
  BY <1>1 DEF DataInv, Tables
<1>3. ASSUME NEW l \in LoopIds PROVE StaticGiven(l)'
  <2>1. StaticGiven(l)
    BY DEF DataInv
  <2>2. \A u \in Threads : Through(u, l)' <=> Through(u, l)
    BY <1>1 DEF Through
  <2>3. {u \in Threads : Through(u, l)}' = {u \in Threads : Through(u, l)}
    BY <2>2
  <2> QED
    BY <2>1, <2>3, <1>1 DEF StaticGiven, Sched
<1>4. ASSUME NEW t \in Threads PROVE Leaves(t)' /\ Enters(t)'
  <2>1. Leaves(t) /\ Enters(t)
    BY DEF DataInv
  <2> QED
    BY <2>1, <1>1 DEF Leaves, Enters, Dynamic, Sched
<1> QED
  BY <1>2, <1>3, <1>4

\* A step that moves no iteration and ends no loop keeps the account.
LEMMA DataKept ==
  ASSUME NoProbes, SyncInv, DataInv, LoopsKept,
         UNCHANGED <<given, twice, flagged, ws, gws, batch, start>>, Armed' <=> Armed,
         \A u \in Threads : /\ EndedWork(u)' <=> EndedWork(u)
                            /\ pc'[u] = "last" <=> pc[u] = "last"
                            /\ pc'[u] = "add" <=> pc[u] = "add"
                            /\ pc'[u] = "cas" <=> pc[u] = "cas"
                            /\ pc'[u] = "initglobal" => pc[u] = "initglobal"
  PROVE  DataInv'
<1>1. /\ Loops' = Loops /\ LoopIds' = LoopIds
      /\ \A u \in Threads : Cur(u)' = Cur(u)
      /\ \A n \in Nodes : Unstarted(n)' <=> Unstarted(n)
      /\ \A u \in Threads, k \in LoopIds : Dynamic(k) => (Ended(u, k)' <=> Ended(u, k))
      /\ GlobalClosed' <=> GlobalClosed
  BY DEF LoopsKept, EndsKept, LoopIds
<1>2. ASSUME NEW l \in LoopIds PROVE Account(l)'
  <2>1. ASSUME Sharing(l) PROVE Sharing(l)'
    <3>1. \A n \in Nodes : NodeOn(n, l)' <=> NodeOn(n, l)
      BY <1>1 DEF NodeOn, ThreadsOf
    <3>2. \A n \in Nodes : Held(n, l)' = Held(n, l) /\ NodeRange(n, l)'
      BY <2>1, <3>1, <1>1 DEF Held, NodeRange, Sharing
    <3>3. Drained(l)' = Drained(l)
      BY <3>1, ThreadTypes DEF Drained, SyncInv
    <3>4. \A t \in Threads : Refilling(t)'
      BY <2>1 DEF Refilling, Sharing
    <3> QED
      BY <2>1, <3>2, <3>3, <3>4, <1>1, SharingKept
  <2>2. Account(l)
    BY DEF DataInv
  <2> QED
    BY <2>1, <2>2, <1>1, AccountKept
<1> QED
  BY <1>1, <1>2, RestKept DEF DataInv


\* Work in a loop ends no loop and begins none.
LEMMA WorkKept ==
  ASSUME NoProbes, SyncInv, NEW t \in Threads, Works(t)
  PROVE  /\ UNCHANGED <<Loops, loop, gen, bar, gbar>> /\ (GlobalClosed' <=> GlobalClosed)
         /\ \A u \in Threads : Cur(u)' = Cur(u)
         /\ \A u \in Threads : \A k \in LoopIds : Ended(u, k)' <=> Ended(u, k)
         /\ \A u \in Threads \ {t} : pc'[u] = pc[u] /\ (EndedWork(u)' <=> EndedWork(u))
         /\ EndedWork(t)' <=> pc'[t] = "end"
         /\ ~EndedWork(t)
         /\ (~Between(t) \/ ~Unstarted(NodeOf[t])) => LoopsKept
<1>1. /\ UNCHANGED <<Loops, loop, gen, bar, gbar>>
      /\ \A u \in Threads \ {t} : pc'[u] = pc[u]
      /\ \A u \in Threads : Cur(u)' = Cur(u)
      /\ \A u \in Threads \ {t} : (Between(u)' <=> Between(u))
      /\ \A n \in Nodes : Past(n)' <=> Past(n)
      /\ ~GlobalClosed /\ ~GlobalClosed' /\ ~Between(t)'
  BY WorkFrame
<1>2. \A u \in Threads : \A k \in LoopIds : Ended(u, k)' <=> Ended(u, k)
  BY <1>1, EndedKept DEF SyncInv
<1>3. \A u \in Threads \ {t} : EndedWork(u)' <=> EndedWork(u)
  BY <1>1 DEF EndedWork, Outside, Freed
<1>4. pc[t] \in AtWork \ {"end"} /\ pc'[t] \in AtWork
  BY WorkControl DEF SyncInv, Types
<1>5. (EndedWork(t)' <=> pc'[t] = "end") /\ ~EndedWork(t)
  BY <1>4 DEF EndedWork, Outside, AtWork
<1>6. ASSUME ~Between(t) \/ ~Unstarted(NodeOf[t]) PROVE LoopsKept
  <2>1. NodeOf[t] \in Nodes /\ t \in ThreadsOf(NodeOf[t])
    BY ThreadTypes DEF SyncInv
  <2>2. ~Unstarted(NodeOf[t]) /\ ~Unstarted(NodeOf[t])'
    BY <2>1, <1>1, <1>6 DEF Unstarted
  <2>3. \A n \in Nodes : Unstarted(n)' <=> Unstarted(n)
    BY <2>2, WorkFrame
  <2> QED
    BY <2>3, <1>1, <1>2 DEF LoopsKept, EndsKept
<1> QED
  BY <1>1, <1>2, <1>3, <1>5, <1>6

\* The owner of a work share, and the threads that find one ready.
LEMMA OwnerData ==
  ASSUME NoProbes, CountInv, NEW t \in Threads,
         FoundGlobal(t) \/ SetGlobal(t) \/ SetNode(t) \/ FoundNode(t)
  PROVE  DataInv'
<1>0. Types /\ Works(t) /\ NodeOf[t] \in Nodes /\ ws[NodeOf[t]].sched \in {"static", "dynamic"}
      /\ SyncInv /\ LockInv /\ DataInv
  BY ThreadTypes DEF CountInv, SyncInv, Works
<1>1. /\ pc[t] \in {"init", "initglobal", "setglobal", "setnode"}
      /\ pc'[t] \in {"setnode", "static", "next"}
      /\ UNCHANGED <<given, twice, flagged, ws, gws, batch, start>>
      /\ Armed' <=> Armed
  <2>1. CASE FoundGlobal(t)
    BY <2>1, <1>0 DEF FoundGlobal, Goto, Types, shares, progress, Armed
  <2>2. CASE SetGlobal(t)
    <3>1. gwsLock = "owned"
      BY <2>2 DEF SetGlobal, CountInv, LockInv, Locks, GlobalLock
    <3> QED
      BY <2>2, <3>1, <1>0 DEF SetGlobal, Goto, Types, progress, Armed
  <2>3. CASE SetNode(t)
    BY <2>3, <1>0, SetNodeIs DEF Types, progress, Armed
  <2>4. CASE FoundNode(t)
    <3>1. pc' = [pc EXCEPT ![t] = IF ws[NodeOf[t]].sched = "static" THEN "static" ELSE "next"]
      BY <2>4, <1>0, BeginIs DEF FoundNode
    <3> QED
      BY <2>4, <3>1, <1>0 DEF FoundNode, Types, shares, progress, Armed
  <2> QED
    BY <2>1, <2>2, <2>3, <2>4
<1>2. ~Between(t) \/ ~Unstarted(NodeOf[t])
  <2>1. CASE FoundNode(t)
    <3>1. wsLock[NodeOf[t]] = "set" /\ NodeLock(NodeOf[t])
      BY <2>1, <1>0 DEF FoundNode, LockInv, Locks
    <3> QED
      BY <3>1 DEF NodeLock
  <2>2. CASE FoundGlobal(t) \/ SetGlobal(t) \/ SetNode(t)
    BY <2>2 DEF FoundGlobal, SetGlobal, SetNode, Between, Freed
  <2> QED
    BY <2>1, <2>2
<1>3. /\ \A u \in Threads \ {t} : pc'[u] = pc[u] /\ (EndedWork(u)' <=> EndedWork(u))
      /\ (EndedWork(t)' <=> pc'[t] = "end") /\ ~EndedWork(t)
      /\ LoopsKept
  BY <1>0, <1>2, WorkKept
<1>4. \A u \in Threads : /\ EndedWork(u)' <=> EndedWork(u)
                         /\ pc'[u] = "last" <=> pc[u] = "last"
                         /\ pc'[u] = "add" <=> pc[u] = "add"
                         /\ pc'[u] = "cas" <=> pc[u] = "cas"
                         /\ pc'[u] = "initglobal" => pc[u] = "initglobal"
  BY <1>1, <1>3
<1> QED
  BY <1>0, <1>1, <1>3, <1>4, DataKept


\* The steps of the synchronisation at which no loop ends.
LEMMA SyncData ==
  ASSUME NoProbes, CountInv, NEW t \in Threads,
         \/ SelectLeader(t) \/ FinishNode(t) \/ SelectGlobalLeader(t) \/ GlobalReleased(t)
         \/ Cleanup(t) \/ NodeReleased(t)
         \/ GlobalBarrier(t) /\ gbar.awaited # 1
         \/ NodeBarrier(t) /\ bar[NodeOf[t]].awaited # 1
  PROVE  DataInv'
<1> DEFINE n == NodeOf[t]
<1>0. SyncInv /\ LockInv /\ DataInv /\ Locks /\ Types /\ n \in Nodes
  BY ThreadTypes DEF CountInv, SyncInv, LockInv
<1>1. LoopsKept
  BY <1>0, SelectLeaderLocks, FinishNodeLocks, SelectGlobalLeaderLocks, GlobalReleasedLocks,
     CleanupLocks, NodeReleasedLocks, GlobalBarrierLocks, NodeBarrierLocks
<1>2. /\ UNCHANGED <<given, twice, flagged, ws, gws, batch, start>> /\ Armed' = Armed
      /\ \A u \in Threads \ {t} : pc'[u] = pc[u] /\ (Freed(u)' <=> Freed(u))
      /\ pc[t] \notin {"last", "add", "cas"} /\ pc'[t] \notin {"last", "add", "cas", "initglobal"}
      /\ EndedWork(t)' <=> EndedWork(t)
  <2> USE DEF progress, shares, sync, Armed
  <2>1. CASE SelectLeader(t)
    <3>1. /\ pc[t] = "end" /\ UNCHANGED <<shares, bar, gen, start, progress>>
          /\ pc'[t] \in {"leading", "bar"} /\ \A u \in Threads \ {t} : pc'[u] = pc[u]
      BY <2>1, <1>0 DEF SelectLeader, Goto, Types
    <3> QED
      BY <3>1 DEF Freed, EndedWork, Outside, WorkPCs
  <2>2. CASE FinishNode(t)
    <3>1. /\ pc[t] = "leading" /\ UNCHANGED <<gwsLock, ws, gws, bar, gen, start, progress>>
          /\ pc'[t] \in {"gend", "cleanup"} /\ \A u \in Threads \ {t} : pc'[u] = pc[u]
      BY <2>2, <1>0, FinishNodeIs DEF Types
    <3> QED
      BY <3>1 DEF Freed, EndedWork, Outside, WorkPCs
  <2>3. CASE SelectGlobalLeader(t)
    <3>1. /\ pc[t] = "gend" /\ UNCHANGED <<shares, bar, gen, start, progress>>
          /\ pc'[t] \in {"gleading", "gbar"} /\ \A u \in Threads \ {t} : pc'[u] = pc[u]
      BY <2>3, <1>0 DEF SelectGlobalLeader, Goto, Types
    <3> QED
      BY <3>1 DEF Freed, EndedWork, Outside, WorkPCs
  <2>4. CASE GlobalReleased(t)
    <3>1. /\ pc[t] = "gwait" /\ UNCHANGED <<shares, bar, gen, start, progress>>
          /\ pc'[t] = "cleanup" /\ \A u \in Threads \ {t} : pc'[u] = pc[u]
      BY <2>4, <1>0 DEF GlobalReleased, Goto, Types
    <3> QED
      BY <3>1 DEF Freed, EndedWork, Outside, WorkPCs
  <2>5. CASE Cleanup(t)
    <3>1. /\ pc[t] = "cleanup" /\ UNCHANGED <<shares, bar, gen, start, progress>>
          /\ pc'[t] = "bar" /\ \A u \in Threads \ {t} : pc'[u] = pc[u]
      BY <2>5, <1>0 DEF Cleanup, Goto, Types
    <3> QED
      BY <3>1 DEF Freed, EndedWork, Outside, WorkPCs
  <2>6. CASE NodeReleased(t)
    <3>1. /\ Freed(t) /\ UNCHANGED <<shares, bar, gen, start, progress>>
          /\ pc'[t] \in {"init", "done"} /\ \A u \in Threads \ {t} : pc'[u] = pc[u]
      BY <2>6, <1>0, NodeReleasedIs, NodeReleasedControl
    <3> QED
      BY <3>1 DEF Freed, EndedWork, Outside, WorkPCs
  <2>7. CASE GlobalBarrier(t)
    <3>1. /\ pc[t] = "gbar" /\ UNCHANGED <<shares, bar, start, progress>>
          /\ pc'[t] = "gwait" /\ \A u \in Threads \ {t} : pc'[u] = pc[u] /\ gen'[u] = gen[u]
      BY <2>7, <1>0 DEF GlobalBarrier, Goto, Types
    <3> QED
      BY <3>1 DEF Freed, EndedWork, Outside, WorkPCs
  <2>8. CASE NodeBarrier(t) /\ bar[n].awaited # 1
    <3>1. /\ pc[t] = "bar" /\ UNCHANGED <<shares, start, progress>>
          /\ pc'[t] = "wait" /\ \A u \in Threads \ {t} : pc'[u] = pc[u] /\ gen'[u] = gen[u]
          /\ gen'[t] = bar[n].generation
      BY <2>8, <1>0 DEF NodeBarrier, Goto, Types
    <3>2. \A m \in Nodes : bar'[m].generation = bar[m].generation
      BY <2>8, <1>0 DEF NodeBarrier, Arrived, Types
    <3>3. \A u \in Threads \ {t} : Freed(u)' <=> Freed(u)
      BY <3>1, <3>2, <1>0, ThreadTypes DEF Freed
    <3>4. ~Freed(t)'
      BY <3>1, <3>2, <1>0 DEF Freed
    <3> QED
      BY <3>1, <3>3, <3>4 DEF Freed, EndedWork, Outside, WorkPCs
  <2> QED
    BY <2>1, <2>2, <2>3, <2>4, <2>5, <2>6, <2>7, <2>8
<1>3. \A u \in Threads : /\ EndedWork(u)' <=> EndedWork(u)
                         /\ pc'[u] = "last" <=> pc[u] = "last"
                         /\ pc'[u] = "add" <=> pc[u] = "add"
                         /\ pc'[u] = "cas" <=> pc[u] = "cas"
                         /\ pc'[u] = "initglobal" => pc[u] = "initglobal"
  BY <1>2 DEF EndedWork, Outside
<1> QED
  BY <1>0, <1>1, <1>2, <1>3, DataKept



-----------------------------------------------------------------------------
(* The end of a dynamic loop                                               *)

\* The leader of all finds the loop complete: every thread has left it, so the
\* work shares are empty and nobody is about to be told of the last iteration.
LEMMA FinishGlobalComplete ==
  ASSUME NoProbes, CountInv, NEW t \in Threads, pc[t] = "gleading"
  PROVE  /\ \A u \in Threads : Cur(u) = loop[t] /\ ~Ended(u, loop[t])
         /\ loop[t] \in LoopIds /\ Is(loop[t]) /\ Complete(loop[t])
         /\ ~GlobalClosed
<1> DEFINE n == NodeOf[t]
           g == loop[t]
<1>0. /\ SyncInv /\ LockInv /\ Locks /\ DataInv /\ Types /\ n \in Nodes /\ t \in ThreadsOf(n)
      /\ Leading(t) /\ g \in LoopIds
  BY ThreadTypes DEF CountInv, SyncInv, LockInv, Leading, LeaderPCs
<1>1. /\ ~Past(n) /\ Finished(n) /\ Cur(t) = g
      /\ \A u \in ThreadsOf(n) \ {t} : pc[u] \in {"bar", "wait"}
  BY <1>0, LeaderFacts DEF GFreed
<1>2. \A m \in Nodes : \E v \in ThreadsOf(m) : pc[v] \in {"gleading", "gbar"} \/ GParked(v)
  BY <1>0 DEF SyncInv, GlobalSync, OneNodeLeads, NodeArrives
<1>3. ASSUME NEW m \in Nodes
      PROVE  /\ ~Past(m) /\ ~Unstarted(m)
             /\ \E v \in ThreadsOf(m) : pc[v] \in {"gleading", "gbar", "gwait"} /\ Leading(v)
  <2>1. PICK v \in ThreadsOf(m) : pc[v] \in {"gleading", "gbar"} \/ GParked(v)
    BY <1>2
  <2>2. /\ v \in Threads /\ NodeOf[v] = m /\ Leading(v) /\ ~GFreed(v)
        /\ pc[v] \in {"gleading", "gbar", "gwait"}
    BY <2>1 DEF ThreadsOf, Leading, LeaderPCs, GFreed, GParked
  <2> QED
    BY <2>2, <1>0, LeaderFacts DEF ThreadsOf
<1>4. (\A u, v \in Threads : Cur(u) = Cur(v)) /\ \A u \in Threads : Dynamic(Cur(u))
  BY <1>0, <1>3, SameLoop
<1>5. \A u \in Threads : Cur(u) = g /\ NodeOf[u] \in Nodes
  BY <1>0, <1>1, <1>4, ThreadTypes
<1>6. g \in Int /\ Dynamic(g) /\ \A k \in LoopIds : k \in Int
  BY <1>0, <1>1, <1>4, LoopTypes
<1>7. \A u \in Threads : ~Ended(u, g) /\ \A k \in LoopIds : k < g => Ended(u, k)
  BY <1>3, <1>5, <1>6 DEF Ended
<1>8. Is(g)
  BY <1>6, <1>7 DEF Is
<1>9. ~GlobalClosed
  <2>1. ~NodeArrives(n)
    BY <1>0, <1>1 DEF NodeArrives, GParked
  <2> QED
    BY <2>1, <1>0 DEF GlobalClosed
<1>10. Sharing(g)
  <2>1. gwsLock = "set"
    BY <1>0, <1>1, <1>6, <1>9 DEF Locks, GlobalSet, Started
  <2> QED
    BY <2>1, <1>0, <1>6, <1>8 DEF DataInv, Account, Armed
<1>11. \A u \in Threads : ~Outside(u)
  <2>1. \A m \in Nodes : \E v \in ThreadsOf(m) : Leading(v)
    BY <1>3
  <2> QED
    BY <2>1, <1>0, NobodyWorks
<1>12. ASSUME NEW m \in Nodes PROVE Held(m, g) = {} /\ gws.next >= Loops[g].end
  <2>1. PICK v \in ThreadsOf(m) : Leading(v)
    BY <1>3
  <2>2. v \in Threads /\ NodeOf[v] = m /\ ThreadsOf(m) \subseteq Threads
    BY <2>1 DEF ThreadsOf
  <2>3. NodeOn(m, g)
    BY <2>2, <1>3, <1>5 DEF NodeOn
  <2>4. ws[m].completed /\ ws[m].next = ws[m].end
    BY <2>2, <1>0, <1>5, <1>6, <1>11 DEF DataInv, Leaves, EndedWork
  <2>5. NodeRange(m, g)
    BY <1>10 DEF Sharing
  <2> QED
    BY <2>3, <2>4, <2>5 DEF NodeRange, Held
<1>13. Loops[g].end \in 1 .. LONG_MAX /\ LONG_MAX \in Int
  BY <1>0, LoopTypes, WorkshareAssumption DEF LONG_MAX
<1>14. given[g] = Iterations(g) /\ twice[g] = {}
  <2>1. Partition(g)
    BY <1>10 DEF Sharing
  <2>2. gws.next \in Nat
    BY <1>10 DEF Sharing, GlobalRange
  <2>3. \A i \in Iterations(g) : i < gws.next
    BY <2>2, <1>0, <1>12, <1>13 DEF Iterations
  <2> QED
    BY <2>1, <2>3, <1>12 DEF Partition
<1>15. flagged[g] = 1
  <2>1. Flags(g) /\ Loops[g].end - 1 \in Iterations(g)
    BY <1>10, <1>13 DEF Sharing, Iterations
  <2>2. \A u \in Threads : ~AtLast(u, g)
    BY <1>11 DEF AtLast, Outside, WorkPCs
  <2> QED
    BY <2>1, <2>2, <1>14 DEF Flags
<1> QED
  BY <1>0, <1>5, <1>7, <1>8, <1>9, <1>14, <1>15 DEF Complete

\* The global leader finalises the global work share: the loop is complete.
LEMMA FinishGlobalData ==
  ASSUME NoProbes, CountInv, NEW t \in Threads, FinishGlobal(t)
  PROVE  DataInv'
<1> DEFINE g == loop[t]
<1>0. /\ SyncInv /\ LockInv /\ Locks /\ DataInv /\ Types
      /\ pc[t] = "gleading" /\ pc'[t] = "gbar" /\ \A u \in Threads \ {t} : pc'[u] = pc[u]
      /\ UNCHANGED <<Loops, ws, gws, bar, gen, given, twice, flagged>> /\ ~Armed'
  BY DEF CountInv, SyncInv, LockInv, FinishGlobal, Goto, Types, progress, Armed
<1>1. /\ \A u \in Threads : Cur(u) = g /\ ~Ended(u, g)
      /\ g \in LoopIds /\ Is(g) /\ Complete(g)
  BY <1>0, FinishGlobalComplete
<1>2. /\ GlobalClosed' /\ \A u \in Threads : Cur(u)' = Cur(u)
      /\ \A u \in Threads, k \in LoopIds : Dynamic(k) => (Ended(u, k)' <=> Ended(u, k))
  BY <1>0, FinishGlobalLocks DEF EndsKept
<1>3. LoopIds' = LoopIds /\ \A k \in LoopIds : Dynamic(k)' <=> Dynamic(k)
  BY <1>0 DEF LoopIds, Dynamic, Sched
<1>4. ASSUME NEW l \in LoopIds PROVE Account(l)'
  <2>1. Account(l) /\ (Is(l)' <=> Is(l))
    BY <1>0, <1>2, <1>3 DEF DataInv, Is
  <2>2. (Complete(l)' <=> Complete(l)) /\ (Untouched(l)' <=> Untouched(l))
    BY <1>0 DEF Complete, Untouched, Iterations
  <2>3. \A u \in Threads : Cur(u)' = l => Complete(l)
    BY <1>1, <1>2
  <2> QED
    BY <2>1, <2>2, <2>3, <1>0, <1>2, <1>3 DEF Account
<1>5. \A u \in Threads : /\ EndedWork(u)' <=> EndedWork(u)
                         /\ pc'[u] = "initglobal" => pc[u] = "initglobal"
  BY <1>0 DEF EndedWork, Outside, Freed, WorkPCs
<1> QED
  BY <1>0, <1>2, <1>3, <1>4, <1>5, RestKept DEF DataInv

\* When the last leader arrives at the barrier the loop ends for all threads.
LEMMA GlobalBarrierData ==
  ASSUME NoProbes, CountInv, NEW t \in Threads, GlobalBarrier(t), gbar.awaited = 1
  PROVE  DataInv'
<1> DEFINE g == Cur(t)
<1>0. /\ SyncInv /\ LockInv /\ Locks /\ DataInv /\ Types
      /\ pc[t] = "gbar" /\ pc'[t] = "gwait" /\ \A u \in Threads \ {t} : pc'[u] = pc[u]
      /\ \A u \in Threads \ {t} : gen'[u] = gen[u]
      /\ UNCHANGED <<Loops, gwsLock, ws, gws, bar, given, twice, flagged>>
  BY DEF CountInv, SyncInv, LockInv, GlobalBarrier, Goto, Types, progress, shares
<1>1. GlobalClosed /\ ~Armed /\ ~Armed'
  BY <1>0, GlobalBarrierLast DEF Armed
<1>2. \A m \in Nodes : ~Past(m) /\ Past(m)'
  BY <1>0, GlobalBarrierLast
<1>3. \A u \in Threads : Cur(u) = g /\ Cur(u)' = g /\ NodeOf[u] \in Nodes
  <2>1. (\A u, v \in Threads : Cur(u) = Cur(v)) /\ \A u \in Threads : Cur(u)' = Cur(u)
    BY <1>0, GlobalBarrierLast
  <2> QED
    BY <2>1, <1>0, ThreadTypes
<1>4. Dynamic(g)
  BY <1>0, GlobalBarrierLast
<1>5. LoopIds' = LoopIds /\ \A k \in LoopIds : Dynamic(k)' <=> Dynamic(k)
  BY <1>0 DEF LoopIds, Dynamic, Sched
<1>6. \A u \in Threads, k \in LoopIds : /\ Ended(u, k) <=> k < g
                                        /\ Ended(u, k)' <=> k < g \/ k = g
  BY <1>2, <1>3 DEF Ended
<1>7. g \in LoopIds /\ g \in Int /\ \A k \in LoopIds : k \in Int
  BY <1>0, <1>4, LoopTypes DEF Dynamic
<1>8. ASSUME NEW l \in LoopIds PROVE Account(l)'
  <2>1. Account(l)
    BY <1>0 DEF DataInv
  <2>2. (Complete(l)' <=> Complete(l)) /\ (Untouched(l)' <=> Untouched(l))
    BY <1>0 DEF Complete, Untouched, Iterations
  <2>3. Dynamic(l) /\ l = g => Complete(l)
    BY <2>1, <1>1 DEF Account
  <2>4. Dynamic(l) /\ l < g => Complete(l)
    BY <2>1, <1>6 DEF Account
  <2>5. Dynamic(l) /\ l > g => Untouched(l)
    <3> SUFFICES ASSUME Dynamic(l), l > g PROVE Untouched(l)
      OBVIOUS
    <3>1. ~Is(l)
      BY <1>4, <1>6, <1>7 DEF Is
    <3>2. \A u \in Threads : ~Ended(u, l)
      BY <1>6, <1>7
    <3> QED
      BY <3>1, <3>2, <2>1 DEF Account
  <2>6. \A u \in Threads : (Ended(u, l)' => l < g \/ l = g) /\ (Cur(u)' = l => l = g)
    BY <1>3, <1>6
  <2>7. (\A u \in Threads : ~Ended(u, l)') => l > g
    BY <1>6, <1>7
  <2> QED
    BY <2>2, <2>3, <2>4, <2>5, <2>6, <2>7, <1>1, <1>5 DEF Account
<1>9. \A u \in Threads : /\ EndedWork(u)' <=> EndedWork(u)
                         /\ pc'[u] = "initglobal" => pc[u] = "initglobal"
  <2>1. \A u \in Threads : Freed(u)' <=> Freed(u)
    BY <1>0 DEF Freed
  <2> QED
    BY <2>1, <1>0 DEF EndedWork, Outside, WorkPCs
<1>10. \A u \in Threads : Cur(u)' = Cur(u)
  BY <1>3
<1> QED
  BY <1>0, <1>5, <1>8, <1>9, <1>10, RestKept DEF DataInv


\* When the last thread of a node arrives its threads move on to the next loop.
LEMMA NodeBarrierData ==
  ASSUME NoProbes, CountInv, NEW t \in Threads, NodeBarrier(t), bar[NodeOf[t]].awaited = 1
  PROVE  DataInv'
<1> DEFINE n == NodeOf[t]
<1>0. /\ SyncInv /\ LockInv /\ Locks /\ DataInv /\ Types /\ n \in Nodes /\ t \in ThreadsOf(n)
      /\ pc[t] = "bar" /\ pc'[t] = "wait" /\ \A u \in Threads \ {t} : pc'[u] = pc[u]
      /\ \A u \in Threads \ {t} : gen'[u] = gen[u] /\ loop'[u] = loop[u]
      /\ \A m \in Nodes \ {n} : bar'[m] = bar[m]
      /\ UNCHANGED <<Loops, gwsLock, ws, gws, start, batch, given, twice, flagged, gbar>>
      /\ (Armed' <=> Armed)
  BY ThreadTypes DEF CountInv, SyncInv, LockInv, NodeBarrier, Goto, Types, progress, shares, Armed
<1>1. /\ Past(n) /\ Unstarted(n)' /\ ~GlobalClosed /\ ~GlobalClosed'
      /\ \A u \in Threads : \A k \in LoopIds : Ended(u, k)' <=> Ended(u, k)
  BY <1>0, NodeBarrierLast
<1>2. \A u \in ThreadsOf(n) : /\ Freed(u)' /\ pc'[u] = "wait" /\ pc[u] \in {"bar", "wait"}
                              /\ ~Outside(u) /\ Cur(u) = loop[u] /\ Cur(u)' = loop[u] + 1
  BY <1>0, NodeBarrierLast
<1>3. /\ \A m \in Nodes \ {n} : Unstarted(m)' <=> Unstarted(m)
      /\ \A u \in Threads : NodeOf[u] # n => Cur(u)' = Cur(u)
  BY <1>0, OtherNodes
<1>4. \A u \in Threads : NodeOf[u] # n => (EndedWork(u)' <=> EndedWork(u)) /\ pc'[u] = pc[u]
  <2> SUFFICES ASSUME NEW u \in Threads, NodeOf[u] # n
               PROVE  (EndedWork(u)' <=> EndedWork(u)) /\ pc'[u] = pc[u]
    OBVIOUS
  <2>1. u # t /\ NodeOf[u] \in Nodes
    BY <1>0, ThreadTypes
  <2> QED
    BY <2>1, <1>0 DEF EndedWork, Outside, Freed
<1>5. \A u \in ThreadsOf(n) : EndedWork(u) /\ ~EndedWork(u)'
  BY <1>2 DEF EndedWork, Outside
<1>6. \A u \in Threads : u \in ThreadsOf(n) \/ NodeOf[u] # n
  BY DEF ThreadsOf
<1>7. \A u \in Threads : pc'[u] = pc[u] \/ (pc[u] \in {"bar", "wait"} /\ pc'[u] = "wait")
  BY <1>2, <1>4, <1>6
<1>8. LoopIds' = LoopIds /\ Tables'
  BY <1>0 DEF LoopIds, DataInv, Tables
<1>9. ASSUME NEW l \in LoopIds PROVE StaticGiven(l)'
  <2>1. StaticGiven(l)
    BY <1>0 DEF DataInv
  <2>2. ASSUME NEW u \in Threads PROVE Through(u, l)' <=> Through(u, l)
    <3>1. CASE u \in ThreadsOf(n)
      <4>1. l \in Int /\ loop[u] \in Int
        <5>1. u \in Threads /\ loop[u] \in LoopIds
          BY <1>0, ThreadTypes
        <5>2. \A k \in LoopIds : k \in Int
          BY <1>0, LoopTypes
        <5> QED
          BY <5>1, <5>2
      <4>2. Cur(u) = loop[u] /\ Cur(u)' = loop[u] + 1 /\ EndedWork(u) /\ ~EndedWork(u)'
        BY <3>1, <1>2, <1>5
      <4>3. (Through(u, l)' <=> l < loop[u] + 1) /\ (Through(u, l) <=> l < loop[u] \/ l = loop[u])
        BY <4>2 DEF Through
      <4> QED
        BY <4>1, <4>3
    <3>2. CASE NodeOf[u] # n
      BY <3>2, <1>3, <1>4 DEF Through
    <3> QED
      BY <3>1, <3>2, <1>6
  <2>3. {u \in Threads : Through(u, l)}' = {u \in Threads : Through(u, l)}
    BY <2>2
  <2> QED
    BY <2>1, <2>3, <1>0 DEF StaticGiven, Sched
<1>10. ASSUME NEW l \in LoopIds PROVE Account(l)'
  <2>1. ASSUME Is(l), Sharing(l) PROVE Sharing(l)'
    <3>1. ASSUME NEW m \in Nodes PROVE NodeOn(m, l)' <=> NodeOn(m, l)
      <4>1. CASE m = n
        <5>1. ~NodeOn(n, l)
          BY <1>0, <1>1, <2>1 DEF Is, Ended, NodeOn, ThreadsOf
        <5> QED
          BY <5>1, <4>1, <1>1 DEF NodeOn
      <4>2. CASE m # n
        BY <4>2, <1>3 DEF NodeOn, ThreadsOf
      <4> QED
        BY <4>1, <4>2
    <3>2. \A m \in Nodes : Held(m, l)' = Held(m, l) /\ NodeRange(m, l)'
      BY <2>1, <3>1, <1>0 DEF Held, NodeRange, Sharing
    <3>3. Drained(l)' = Drained(l)
      BY <3>1, <1>0, ThreadTypes DEF Drained
    <3>4. \A u \in Threads : Refilling(u)'
      BY <2>1, <1>0, <1>7 DEF Refilling, Sharing
    <3> QED
      BY <2>1, <3>2, <3>3, <3>4, <1>0, <1>7, SharingKept
  <2>2. Account(l)
    BY <1>0 DEF DataInv
  <2> QED
    BY <2>1, <2>2, <1>0, <1>1, AccountKept
<1>11. ASSUME NEW u \in Threads PROVE Leaves(u)' /\ Enters(u)'
  <2>1. Leaves(u) /\ Enters(u)
    BY <1>0 DEF DataInv
  <2>2. CASE u \in ThreadsOf(n)
    BY <2>2, <1>2, <1>5 DEF Leaves, Enters
  <2>3. CASE NodeOf[u] # n
    BY <2>1, <2>3, <1>0, <1>3, <1>4 DEF Leaves, Enters, Dynamic, LoopIds, Sched
  <2> QED
    BY <2>2, <2>3, <1>6
<1> QED
  BY <1>8, <1>9, <1>10, <1>11 DEF DataInv



-----------------------------------------------------------------------------
(* The start of a loop                                                     *)

\* The first thread of a node begins the loop with an empty work share.
LEMMA InitNodeData ==
  ASSUME NoProbes, CountInv, NEW t \in Threads, InitNode(t)
  PROVE  DataInv'
<1> DEFINE n == NodeOf[t]
           c == loop[t]
<1>0. /\ SyncInv /\ LockInv /\ Locks /\ DataInv /\ Types /\ n \in Nodes /\ t \in ThreadsOf(n)
      /\ c \in LoopIds /\ Works(t)
  BY ThreadTypes DEF CountInv, SyncInv, LockInv, Works
<1>1. /\ UNCHANGED <<Loops, gws, start, batch, given, twice, flagged>> /\ (Armed' <=> Armed)
      /\ pc[t] = "init" /\ wsLock[n] = "null"
      /\ \A m \in Nodes \ {n} : ws'[m] = ws[m]
      /\ pc'[t] \in {"setnode", "initglobal"}
      /\ ws'[n].completed = FALSE /\ ws'[n].next = 0
      /\ ws'[n].end = IF Sched(c) = "static" THEN Loops[c].end ELSE 0
      /\ pc'[t] = "initglobal" => Sched(c) # "static"
  <2>1. NodeShare(n, c) = [sched |-> Sched(c), next |-> 0,
                           end |-> IF Sched(c) = "static" THEN Loops[c].end ELSE 0,
                           chunk |-> Loops[c].chunk, completed |-> FALSE]
    BY <1>0, NodeShareIs
  <2> QED
    BY <2>1, <1>0 DEF InitNode, Goto, Types, progress, Armed
<1>2. /\ \A u \in Threads : Cur(u)' = Cur(u)
      /\ \A u \in Threads : \A k \in LoopIds : Ended(u, k)' <=> Ended(u, k)
      /\ \A u \in Threads \ {t} : pc'[u] = pc[u] /\ (EndedWork(u)' <=> EndedWork(u))
      /\ (EndedWork(t)' <=> pc'[t] = "end") /\ ~EndedWork(t)
      /\ (GlobalClosed' <=> GlobalClosed)
  BY <1>0, WorkKept
<1>3. /\ ~Finished(n) /\ ~Between(t)' /\ Cur(t) = c
      /\ \A m \in Nodes \ {n} : Unstarted(m)' <=> Unstarted(m)
  BY <1>0, WorkFrame
<1>4. Unstarted(n) /\ ~Unstarted(n)'
  BY <1>0, <1>1, <1>3 DEF Locks, NodeLock, Unstarted
<1>5. \A u \in ThreadsOf(n) : /\ Between(u) /\ ~EndedWork(u)
                              /\ pc[u] \notin {"initglobal", "add", "cas", "last"}
  BY <1>4 DEF Unstarted, Between, EndedWork, Outside, WorkPCs, Freed
<1>6. \A u \in Threads : (EndedWork(u)' <=> EndedWork(u)) /\ (pc'[u] = "last" <=> pc[u] = "last")
  BY <1>1, <1>2
<1>7. \A u \in ThreadsOf(n) : Cur(u) = c
  BY <1>0, <1>3 DEF SyncInv, NodeSync, InStep, ThreadsOf
<1>8. LoopIds' = LoopIds /\ Tables'
  BY <1>0, <1>1 DEF LoopIds, DataInv, Tables
<1>9. ASSUME NEW l \in LoopIds PROVE StaticGiven(l)'
  <2>1. StaticGiven(l)
    BY <1>0 DEF DataInv
  <2>2. \A u \in Threads : Through(u, l)' <=> Through(u, l)
    BY <1>2, <1>6 DEF Through
  <2>3. {u \in Threads : Through(u, l)}' = {u \in Threads : Through(u, l)}
    BY <2>2
  <2> QED
    BY <2>1, <2>3, <1>1 DEF StaticGiven, Sched
<1>10. ASSUME NEW l \in LoopIds PROVE Account(l)'
  <2>1. ASSUME Dynamic(l), Sharing(l) PROVE Sharing(l)'
    <3>1. \A m \in Nodes \ {n} : NodeOn(m, l)' <=> NodeOn(m, l)
      BY <1>2, <1>3 DEF NodeOn, ThreadsOf
    <3>2. ~NodeOn(n, l)
      BY <1>4 DEF NodeOn
    <3>3. NodeOn(n, l)' => l = c
      BY <1>0, <1>2, <1>3 DEF NodeOn
    <3>4. l = c => ws'[n].end = 0
      BY <2>1, <1>1 DEF Dynamic
    <3>5. gws.next \in Nat /\ Loops[l].end \in Nat
      BY <2>1, <1>0, LoopTypes DEF Sharing, GlobalRange
    <3>6. ASSUME NEW m \in Nodes PROVE Held(m, l)' = Held(m, l) /\ NodeRange(m, l)'
      <4>1. CASE m = n
        <5>1. Held(n, l)' = {} /\ Held(n, l) = {}
          BY <3>2, <3>3, <3>4, <1>1 DEF Held
        <5>2. NodeRange(n, l)'
          BY <3>3, <3>4, <3>5, <1>1 DEF NodeRange
        <5> QED
          BY <4>1, <5>1, <5>2
      <4>2. CASE m # n
        BY <4>2, <2>1, <3>1, <1>1 DEF Held, NodeRange, Sharing
      <4> QED
        BY <4>1, <4>2
    <3>7. Drained(l)' = Drained(l)
      <4>1. ASSUME NEW u \in Threads
            PROVE  (NodeOn(NodeOf[u], l) /\ ws[NodeOf[u]].completed)'
                     <=> NodeOn(NodeOf[u], l) /\ ws[NodeOf[u]].completed
        BY <3>1, <3>2, <1>0, <1>1, ThreadTypes
      <4> QED
        BY <4>1 DEF Drained
    <3>8. \A u \in Threads : Refilling(u)'
      <4> SUFFICES ASSUME NEW u \in Threads PROVE Refilling(u)'
        OBVIOUS
      <4>1. Refilling(u)
        BY <2>1 DEF Sharing
      <4>2. CASE NodeOf[u] = n
        <5>1. pc'[u] \notin {"add", "cas"}
          BY <4>2, <1>1, <1>2, <1>5 DEF ThreadsOf
        <5> QED
          BY <5>1 DEF Refilling
      <4>3. CASE NodeOf[u] # n
        BY <4>1, <4>3, <1>0, <1>1, <1>2, ThreadTypes, ZenonT(60) DEF Refilling
      <4> QED
        BY <4>2, <4>3
    <3> QED
      BY <2>1, <3>6, <3>7, <3>8, <1>1, <1>6, SharingKept
  <2>2. Account(l)
    BY <1>0 DEF DataInv
  <2> QED
    BY <2>1, <2>2, <1>1, <1>2, AccountKept
<1>11. ASSUME NEW u \in Threads PROVE Leaves(u)' /\ Enters(u)'
  <2>1. Leaves(u) /\ Enters(u)
    BY <1>0 DEF DataInv
  <2>2. CASE u = t
    BY <2>2, <1>1, <1>2 DEF Leaves, Enters
  <2>3. CASE u # t /\ NodeOf[u] = n
    BY <2>3, <1>2, <1>5 DEF Leaves, Enters, ThreadsOf
  <2>4. CASE NodeOf[u] # n
    BY <2>1, <2>4, <1>0, <1>1, <1>2, ThreadTypes DEF Leaves, Enters, Dynamic, LoopIds, Sched
  <2> QED
    BY <2>2, <2>3, <2>4
<1> QED
  BY <1>8, <1>9, <1>10, <1>11 DEF DataInv

\* The first of those threads starts to share the loop out.
LEMMA InitGlobalData ==
  ASSUME NoProbes, CountInv, NEW t \in Threads, InitGlobal(t)
  PROVE  DataInv'
<1> DEFINE n == NodeOf[t]
<1>0. /\ SyncInv /\ LockInv /\ Locks /\ DataInv /\ Types /\ n \in Nodes /\ t \in ThreadsOf(n)
      /\ loop[t] \in LoopIds /\ Works(t)
  BY ThreadTypes DEF CountInv, SyncInv, LockInv, Works
<1>g. PICK g \in LoopIds : g = loop[t]
  BY <1>0
<1>1. /\ UNCHANGED <<Loops, ws, start, batch, given, twice, flagged>>
      /\ pc[t] = "initglobal" /\ pc'[t] = "setglobal" /\ gwsLock = "null" /\ Armed' /\ ~Armed
      /\ Sched(g) = "dynamic" /\ gws'.next = 0 /\ gws'.end = Loops[g].end
  BY <1>0, <1>g DEF InitGlobal, Goto, Types, progress, Armed
<1>2. /\ \A u \in Threads : Cur(u)' = Cur(u)
      /\ \A u \in Threads : \A k \in LoopIds : Ended(u, k)' <=> Ended(u, k)
      /\ \A u \in Threads \ {t} : pc'[u] = pc[u] /\ (EndedWork(u)' <=> EndedWork(u))
      /\ (EndedWork(t)' <=> pc'[t] = "end") /\ ~EndedWork(t)
      /\ (GlobalClosed' <=> GlobalClosed)
      /\ LoopsKept
  <2>1. ~Between(t)
    BY <1>1 DEF Between, Freed
  <2> QED
    BY <2>1, <1>0, WorkKept
<1>3. ~Past(n) /\ Cur(t) = g /\ ~GlobalClosed
  BY <1>0, <1>g, WorkFrame
<1>4. Dynamic(g) /\ g \in Int
  BY <1>0, <1>1, LoopTypes DEF Dynamic
<1>5. Is(g)
  <2>1. ~Ended(t, g) /\ \A k \in LoopIds : k < g => Ended(t, k)
    BY <1>3, <1>4 DEF Ended
  <2> QED
    BY <2>1, <1>0, <1>4 DEF Is, Locks, Together
<1>6. given[g] = {} /\ twice[g] = {} /\ flagged[g] = 0
  BY <1>0, <1>1, <1>3, <1>4, <1>5 DEF DataInv, Account, Is, Untouched
<1>7. LoopIds' = LoopIds /\ \A k \in LoopIds : (Dynamic(k)' <=> Dynamic(k))
  BY <1>1 DEF LoopIds, Dynamic, Sched
<1>8. ASSUME NEW u \in Threads PROVE pc'[u] \notin {"add", "cas", "last"}
  <2>1. CASE u = t
    BY <2>1, <1>1
  <2>2. CASE u # t
    <3> SUFFICES ASSUME pc[u] \in {"add", "cas", "last"} PROVE FALSE
      BY <2>2, <1>2
    <3>1. InUse(u) /\ Dynamic(loop[u])
      BY <1>0, ThreadTypes DEF InUse, LockInv, Kind, Dynamic
    <3> QED
      BY <3>1, <1>0, <1>1, InUseFacts
  <2> QED
    BY <2>1, <2>2
\* A node that is in the loop already waits for the global work share.
<1>9. ASSUME NEW m \in Nodes, NodeOn(m, g)
      PROVE  ws[m].next = 0 /\ ws[m].end = 0 /\ ~ws[m].completed
  <2>1. PICK u \in ThreadsOf(m) : u \in Threads /\ NodeOf[u] = m
    BY WorkshareAssumption DEF ThreadsOf
  <2>2. Cur(u) = g /\ ~Unstarted(m) /\ ~Past(m)
    BY <2>1, <1>5, <1>9 DEF NodeOn, Is, Ended
  <2>3. ~Started(u)
    BY <2>1, <2>2, <1>0, <1>1, <1>3, <1>4 DEF Locks, GlobalSet
  <2>4. wsLock[m] # "set" /\ ~Finished(m)
    BY <2>1, <2>3 DEF Started
  <2>5. wsLock[m] = "owned"
    BY <2>2, <2>4, <1>0 DEF Locks, NodeLock, Types, LockStates
  <2>6. PICK v \in ThreadsOf(m) : Owner(v)
    BY <2>5, <1>0 DEF Locks, NodeLock
  <2>7. v \in Threads /\ NodeOf[v] = m /\ Cur(v) = g
    BY <2>6, <1>9 DEF ThreadsOf, NodeOn
  <2>8. ~Started(v)
    BY <2>2, <2>7, <1>0, <1>1, <1>3, <1>4 DEF Locks, GlobalSet
  <2>9. pc[v] = "initglobal"
    BY <2>6, <2>7, <2>8, <1>0, <1>1 DEF Owner, Started, Locks, GlobalLock
  <2> QED
    BY <2>7, <2>9, <1>0 DEF DataInv, Enters
<1>10. Sharing(g)'
  <2>1. Loops[g].end \in Nat /\ Loops[g].end > 0
    BY <1>0, LoopTypes
  <2>2. \A m \in Nodes : NodeOn(m, g)' <=> NodeOn(m, g)
    BY <1>2 DEF NodeOn, ThreadsOf, LoopsKept, EndsKept
  <2>3. GlobalRange(g)'
    BY <2>1, <1>1 DEF GlobalRange
  <2>4. ASSUME NEW m \in Nodes PROVE NodeRange(m, g)' /\ Held(m, g)' = {}
    BY <2>1, <2>2, <1>1, <1>9 DEF NodeRange, Held
  <2>5. \A u \in Threads : Refilling(u)'
    BY <1>8 DEF Refilling
  <2>6. Partition(g)'
    BY <2>4, <1>1, <1>6 DEF Partition, Iterations
  <2>7. Flags(g)'
    BY <1>1, <1>6, <1>8 DEF Flags, AtLast
  <2> QED
    BY <2>3, <2>4, <2>5, <2>6, <2>7 DEF Sharing
<1>11. ASSUME NEW l \in LoopIds PROVE Account(l)'
  <2>1. Account(l) /\ (Is(l)' <=> Is(l))
    BY <1>0, <1>2, <1>7 DEF DataInv, Is
  <2>2. (Complete(l)' <=> Complete(l)) /\ (Untouched(l)' <=> Untouched(l))
    BY <1>1 DEF Complete, Untouched, Iterations
  <2>3. Is(l) => l = g
    BY <1>0, <1>5, OneIs
  <2> QED
    BY <2>1, <2>2, <2>3, <1>1, <1>2, <1>3, <1>5, <1>7, <1>10 DEF Account
<1>12. \A u \in Threads : /\ Cur(u)' = Cur(u) /\ (EndedWork(u)' <=> EndedWork(u))
                          /\ pc'[u] = "initglobal" => pc[u] = "initglobal"
  BY <1>1, <1>2
<1> QED
  BY <1>0, <1>1, <1>7, <1>11, <1>12, RestKept DEF DataInv



-----------------------------------------------------------------------------
(* Taking iterations                                                       *)

\* What a thread that takes iterations of a dynamic loop finds.
LEMMA TakeFacts ==
  ASSUME NoProbes, CountInv, NEW t \in Threads, Takes(t), NEW g \in LoopIds, g = loop[t],
         Dynamic(g)
  PROVE  /\ pc[t] \in {"next", "add", "cas", "last"} /\ NodeOn(NodeOf[t], g)
         /\ Is(g) /\ Armed /\ Armed' /\ Sharing(g) /\ gws.end = Loops[g].end
         /\ ws[NodeOf[t]].chunk = Loops[g].chunk
         /\ LoopsKept /\ ~GlobalClosed
         /\ \A u \in Threads \ {t} : pc'[u] = pc[u] /\ (EndedWork(u)' <=> EndedWork(u))
         /\ (EndedWork(t)' <=> pc'[t] = "end") /\ ~EndedWork(t)
         /\ \A u \in ThreadsOf(NodeOf[t]) :
              /\ pc[u] # "initglobal" /\ Cur(u) = g
              /\ EndedWork(u) => ws[NodeOf[t]].completed /\ ws[NodeOf[t]].next = ws[NodeOf[t]].end
         /\ UNCHANGED Loops /\ Types /\ DataInv
<1> DEFINE n == NodeOf[t]
<1>0. /\ SyncInv /\ LockInv /\ Locks /\ DataInv /\ Types /\ n \in Nodes /\ t \in ThreadsOf(n)
      /\ Mutex(t) /\ Kind(t)
  BY ThreadTypes DEF CountInv, SyncInv, LockInv
<1>1. Works(t)
  BY DEF Works, Takes
<1>2. pc[t] \in {"next", "add", "cas", "last"} /\ gwsLock' = gwsLock
  <2>1. pc[t] \in {"next", "add", "cas", "last", "static"} /\ UNCHANGED <<wsLock, gwsLock>>
    BY <1>0, TakesFrame
  <2>2. pc[t] # "static"
    BY <1>0 DEF Kind, Dynamic
  <2> QED
    BY <2>1, <2>2
<1>3. InUse(t) /\ ~Between(t) /\ ~Owner(t)
  BY <1>2 DEF InUse, Between, Freed, Owner
<1>4. /\ wsLock[n] # "null" /\ Cur(t) = g
      /\ gwsLock = "set" /\ gws.end = Loops[g].end /\ Is(g)
  BY <1>0, <1>3, InUseFacts
<1>5. /\ LoopsKept /\ ~EndedWork(t) /\ (EndedWork(t)' <=> pc'[t] = "end") /\ UNCHANGED Loops
      /\ \A u \in Threads \ {t} : pc'[u] = pc[u] /\ (EndedWork(u)' <=> EndedWork(u))
  BY <1>0, <1>1, <1>3, WorkKept
<1>6. ~GlobalClosed
  BY <1>0, <1>1, WorkFrame
<1>7. Armed /\ Armed' /\ Sharing(g)
  BY <1>0, <1>2, <1>4 DEF Armed, DataInv, Account
<1>8. ws[n].chunk = Loops[g].chunk
  BY <1>0, <1>4 DEF Locks, NodeShareOf
<1>9. ASSUME NEW u \in ThreadsOf(n) PROVE Cur(u) = g /\ pc[u] # "initglobal" /\ u \in Threads
  <2>1. u \in Threads /\ NodeOf[u] = n
    BY DEF ThreadsOf
  <2>2. ~Owner(u)
    BY <1>0, <1>3 DEF Locks, NodeLock
  <2> QED
    BY <2>1, <2>2, <1>0, <1>4 DEF Owner, SyncInv, NodeSync, InStep
<1>10. NodeOn(n, g)
  BY <1>0, <1>3, <1>9 DEF NodeOn, Unstarted
<1>11. ASSUME NEW u \in ThreadsOf(n), EndedWork(u)
       PROVE  ws[n].completed /\ ws[n].next = ws[n].end
  <2>1. Leaves(u) /\ NodeOf[u] = n
    BY <1>0 DEF DataInv, ThreadsOf
  <2> QED
    BY <2>1, <1>9, <1>11 DEF Leaves
<1> QED
  BY <1>0, <1>2, <1>4, <1>5, <1>6, <1>7, <1>8, <1>9, <1>10, <1>11

\* A step that takes iterations of loop g is sound when g is shared out soundly
\* after it.
LEMMA TakeData ==
  ASSUME NoProbes, CountInv, NEW t \in Threads, Takes(t), NEW g \in LoopIds, g = loop[t],
         Dynamic(g), Tables', Sharing(g)',
         \A l \in LoopIds \ {g} : /\ given'[l] = given[l] /\ twice'[l] = twice[l]
                                  /\ flagged'[l] = flagged[l],
         \A m \in Nodes \ {NodeOf[t]} : ws'[m] = ws[m],
         \A u \in ThreadsOf(NodeOf[t]) :
           EndedWork(u)' => ws'[NodeOf[t]].completed /\ ws'[NodeOf[t]].next = ws'[NodeOf[t]].end,
         pc'[t] # "initglobal"
  PROVE  DataInv'
<1> DEFINE n == NodeOf[t]
<1>1. /\ Is(g) /\ Armed /\ Armed' /\ ~GlobalClosed
      /\ LoopsKept /\ UNCHANGED Loops /\ Types /\ DataInv
  BY TakeFacts
<1>2. /\ \A u \in Threads \ {t} : pc'[u] = pc[u] /\ (EndedWork(u)' <=> EndedWork(u))
      /\ (EndedWork(t)' <=> pc'[t] = "end") /\ ~EndedWork(t)
  BY TakeFacts
<1>3. \A u \in ThreadsOf(n) : pc[u] # "initglobal" /\ Cur(u) = g
  BY TakeFacts
<1>4. /\ \A u \in Threads : Cur(u)' = Cur(u)
      /\ \A u \in Threads, k \in LoopIds : Dynamic(k) => (Ended(u, k)' <=> Ended(u, k))
      /\ GlobalClosed' <=> GlobalClosed
      /\ LoopIds' = LoopIds /\ \A k \in LoopIds : (Dynamic(k)' <=> Dynamic(k))
  BY <1>1 DEF LoopsKept, EndsKept, LoopIds, Dynamic, Sched
<1>5. t \in ThreadsOf(n)
  BY <1>1, ThreadTypes
<1>6. ASSUME NEW l \in LoopIds PROVE StaticGiven(l)'
  <2> SUFFICES ASSUME Sched(l) = "static" PROVE StaticGiven(l)'
    BY <1>1 DEF StaticGiven, Sched
  <2>1. l # g /\ StaticGiven(l)
    BY <1>1 DEF Dynamic, DataInv
  <2>2. \A u \in Threads : Through(u, l)' <=> Through(u, l)
    BY <2>1, <1>2, <1>3, <1>4, <1>5 DEF Through
  <2>3. {u \in Threads : Through(u, l)}' = {u \in Threads : Through(u, l)}
    BY <2>2
  <2> QED
    BY <2>1, <2>3, <1>1 DEF StaticGiven, Sched
<1>7. ASSUME NEW l \in LoopIds PROVE Account(l)'
  <2>1. Account(l) /\ (Is(l)' <=> Is(l))
    BY <1>1, <1>4 DEF DataInv, Is
  <2>2. Is(l) => l = g
    BY <1>1, OneIs
  <2>3. CASE l = g
    BY <2>1, <2>3, <1>1, <1>4 DEF Account, Is
  <2>4. CASE l # g
    <3>1. (Complete(l)' <=> Complete(l)) /\ (Untouched(l)' <=> Untouched(l))
      BY <2>4, <1>1 DEF Complete, Untouched, Iterations
    <3> QED
      BY <2>1, <2>2, <2>4, <3>1, <1>1, <1>4 DEF Account
  <2> QED
    BY <2>3, <2>4
<1>8. ASSUME NEW u \in Threads PROVE Leaves(u)' /\ Enters(u)'
  <2>1. CASE u \in ThreadsOf(n)
    <3>1. NodeOf[u] = n /\ pc'[u] # "initglobal"
      BY <2>1, <1>2, <1>3 DEF ThreadsOf
    <3> QED
      BY <2>1, <3>1 DEF Leaves, Enters
  <2>2. CASE u \notin ThreadsOf(n)
    <3>1. NodeOf[u] \in Nodes \ {n} /\ u # t
      BY <2>2, <1>1, <1>5, ThreadTypes DEF ThreadsOf
    <3>2. Leaves(u) /\ Enters(u)
      BY <1>1 DEF DataInv
    <3> QED
      BY <3>1, <3>2, <1>2, <1>4 DEF Leaves, Enters, Dynamic
  <2> QED
    BY <2>1, <2>2
<1> QED
  BY <1>4, <1>6, <1>7, <1>8 DEF DataInv


\* A chunk of a work share that is not empty: no addition wraps around.
LEMMA ChunkTaken ==
  ASSUME NEW next \in Nat, NEW end \in Nat, next < end, end <= LONG_MAX,
         NEW chunk \in Int, 1 <= chunk
  PROVE  Long(next + (IF chunk > Long(end - next) THEN Long(end - next) ELSE chunk))
           \in next + 1 .. end
<1> DEFINE take == IF chunk > end - next THEN end - next ELSE chunk
<1>1. LONG_MAX \in Int
  BY WorkshareAssumption DEF LONG_MAX
<1>2. Long(end - next) = end - next
  <2>1. end - next \in Int /\ -LONG_MAX <= end - next /\ end - next <= LONG_MAX
    BY <1>1
  <2> QED
    BY <2>1, LongExact
<1>3. take \in 1 .. end - next
  OBVIOUS
<1> HIDE DEF take
<1>4. next + take \in Int /\ -LONG_MAX <= next + take /\ next + take <= LONG_MAX
  BY <1>1, <1>3
<1>5. Long(next + take) = next + take
  BY <1>4, LongExact
<1>6. Long(next + take) \in next + 1 .. end
  BY <1>3, <1>5
<1> QED
  BY <1>2, <1>6 DEF take

\* What taking a chunk does to the work share of the node.
LEMMA TakeFromTakes ==
  ASSUME Types, NEW t \in Threads, NEW from \in Nat, NEW top \in Nat, from < top, top <= LONG_MAX,
         1 <= ws[NodeOf[t]].chunk,
         TakeFrom(t, [ws[NodeOf[t]] EXCEPT !.next = from, !.end = top])
  PROVE  \E to \in from + 1 .. top :
           /\ ws'[NodeOf[t]].next = to /\ ws'[NodeOf[t]].end = top
           /\ ws'[NodeOf[t]].completed = ws[NodeOf[t]].completed
           /\ \A m \in Nodes \ {NodeOf[t]} : ws'[m] = ws[m]
           /\ Give(loop[t], from, to) /\ batch' = [batch EXCEPT ![t] = to]
           /\ pc' = [pc EXCEPT ![t] = "last"]
<1> DEFINE n == NodeOf[t]
           w == [ws[n] EXCEPT !.next = from, !.end = top]
           Share == [sched : {"static", "dynamic"}, next : Int, end : Int, chunk : Int,
                     completed : BOOLEAN]
<1>1. w \in Share /\ ws[n] \in Share /\ n \in Nodes
  <2>1. from \in Int /\ top \in Int
    OBVIOUS
  <2>2. w \in Share
    BY <2>1, ShareType
  <2>3. ws[n] \in Share /\ n \in Nodes
    BY ThreadTypes
  <2> QED
    BY <2>2, <2>3
<1>2. w.next = from /\ w.end = top /\ w.chunk = ws[n].chunk /\ w.completed = ws[n].completed
  BY <1>1
<1>3. TakeFrom(t, w)
  OBVIOUS
<1> HIDE DEF w
<1>4. PICK to \in Int :
        /\ to = Long(w.next + (IF w.chunk > Long(w.end - w.next) THEN Long(w.end - w.next)
                                                                 ELSE w.chunk))
        /\ ws' = [ws EXCEPT ![n] = [w EXCEPT !.next = to]]
        /\ Give(loop[t], w.next, to)
        /\ batch' = [batch EXCEPT ![t] = to]
        /\ pc' = [pc EXCEPT ![t] = "last"]
  BY <1>1, <1>3, TakeFromIs
<1>5. to \in from + 1 .. top
  <2>1. ws[n].chunk \in Int
    BY <1>1
  <2>2. Long(from + (IF ws[n].chunk > Long(top - from) THEN Long(top - from) ELSE ws[n].chunk))
           \in from + 1 .. top
    BY <2>1, ChunkTaken
  <2> QED
    BY <2>2, <1>2, <1>4
<1>6. ws'[n] = [w EXCEPT !.next = to] /\ \A m \in Nodes \ {n} : ws'[m] = ws[m]
  BY <1>1, <1>4 DEF Types
<1>7. ws'[n].next = to /\ ws'[n].end = w.end /\ ws'[n].completed = w.completed
  BY <1>1, <1>6
<1> QED
  BY <1>2, <1>4, <1>5, <1>6, <1>7

\* What Sharing says of a batch: from .. top - 1 was in nobody's hands but the
\* node's, which keeps the part from `to' on.
LEMMA TakenShare ==
  ASSUME NEW t \in Threads, NEW g \in LoopIds, NodeOf[t] \in Nodes, Tables, Sharing(g),
         NEW from \in Nat, NEW top \in Nat, NEW to \in from + 1 .. top,
         Loops[g].end \in Nat, top <= Loops[g].end,
         gws.next \in Nat, gws'.next \in Nat, gws.next <= gws'.next, top <= gws'.next,
         UNCHANGED <<Loops, flagged>>,
         \A m \in Nodes : NodeOn(m, g)' <=> NodeOn(m, g),
         NodeOn(NodeOf[t], g),
         ws'[NodeOf[t]].next = to, ws'[NodeOf[t]].end = top,
         \A m \in Nodes \ {NodeOf[t]} : ws'[m] = ws[m],
         Give(g, from, to), batch \in [Threads -> Int], batch' = [batch EXCEPT ![t] = to],
         pc[t] # "last", pc'[t] = "last", \A u \in Threads \ {t} : pc'[u] = pc[u],
         \A i \in from .. top - 1 :
           i \notin given[g] /\ \A m \in Nodes \ {NodeOf[t]} : i \notin Held(m, g),
         Held(NodeOf[t], g) \subseteq from .. top - 1,
         \A i \in Iterations(g) : i < gws'.next => i < gws.next \/ i \in from .. top - 1
  PROVE  /\ Partition(g)' /\ Flags(g)' /\ Tables'
         /\ \A l \in LoopIds \ {g} : /\ given'[l] = given[l] /\ twice'[l] = twice[l]
                                     /\ flagged'[l] = flagged[l]
<1> DEFINE n == NodeOf[t]
           b == from .. to - 1
<1>1. /\ given'[g] = given[g] \cup b /\ twice'[g] = twice[g] \cup (given[g] \cap b)
      /\ LoopIds' = LoopIds /\ Iterations(g)' = Iterations(g)
      /\ \A l \in LoopIds \ {g} : given'[l] = given[l] /\ twice'[l] = twice[l]
  BY DEF Give, Tables, LoopIds, Iterations
<1>2. Tables'
  <2>1. b \subseteq Int
    OBVIOUS
  <2> QED
    BY <2>1, <1>1 DEF Give, Tables
<1>3. /\ Held(n, g)' = to .. top - 1
      /\ \A m \in Nodes \ {n} : Held(m, g)' = Held(m, g)
  BY DEF Held
<1>4. /\ b \subseteq from .. top - 1 /\ to .. top - 1 \subseteq from .. top - 1
      /\ b \cap (to .. top - 1) = {} /\ from .. top - 1 = b \cup (to .. top - 1)
  OBVIOUS
<1>5. b \cap given[g] = {}
  BY <1>4
<1>6. Partition(g)'
  <2>0. Partition(g)
    BY DEF Sharing
  <2>1. twice'[g] = {}
    BY <2>0, <1>1, <1>5 DEF Partition
  <2>2. ASSUME NEW i \in given[g] \cup b
        PROVE  i \in Iterations(g) /\ i < gws'.next /\ \A m \in Nodes : i \notin Held(m, g)'
    <3>1. CASE i \in given[g]
      <4>1. i \in Iterations(g) /\ i < gws.next /\ \A m \in Nodes : i \notin Held(m, g)
        BY <3>1, <2>0 DEF Partition
      <4>2. i \notin to .. top - 1
        BY <3>1, <1>4
      <4>3. i \in Int
        BY <4>1 DEF Iterations
      <4> QED
        BY <4>1, <4>2, <4>3, <1>3
    <3>2. CASE i \in b
      <4>1. i \in Iterations(g) /\ i < gws'.next
        BY <3>2 DEF Iterations
      <4>2. i \notin to .. top - 1 /\ \A m \in Nodes \ {n} : i \notin Held(m, g)
        BY <3>2, <1>4
      <4> QED
        BY <4>1, <4>2, <1>3
    <3> QED
      BY <3>1, <3>2
  <2>3. ASSUME NEW m \in Nodes, NEW k \in Nodes, m # k PROVE Held(m, g)' \cap Held(k, g)' = {}
    <3>1. Held(m, g) \cap Held(k, g) = {}
      BY <2>0, <2>3 DEF Partition
    <3>2. \A j \in Nodes \ {n} : (to .. top - 1) \cap Held(j, g) = {}
      BY <1>4
    <3> QED
      BY <2>3, <3>1, <3>2, <1>3
  <2>4. ASSUME NEW i \in Iterations(g), i < gws'.next
        PROVE  i \in given[g] \cup b \/ \E m \in Nodes : i \in Held(m, g)'
    <3>1. CASE i \in from .. top - 1
      BY <3>1, <1>3, <1>4
    <3>2. CASE i \notin from .. top - 1
      <4>1. i < gws.next
        BY <3>2, <2>4
      <4>2. i \in given[g] \/ \E m \in Nodes : i \in Held(m, g)
        BY <4>1, <2>0 DEF Partition
      <4>3. i \notin Held(n, g)
        BY <3>2
      <4> QED
        BY <4>2, <4>3, <1>3
    <3> QED
      BY <3>1, <3>2
  <2> QED
    BY <2>1, <2>2, <2>3, <2>4, <1>1 DEF Partition
<1>7. Flags(g)'
  <2> DEFINE E == Loops[g].end
  <2>0. Flags(g) /\ E \in Nat /\ Loops'[g].end = E
    BY DEF Sharing
  <2>1. /\ batch'[t] = to /\ \A u \in Threads \ {t} : batch'[u] = batch[u]
        /\ to \in 1 .. E
    OBVIOUS
  <2>2. /\ AtLast(t, g)' <=> to = E
        /\ ~AtLast(t, g)
        /\ \A u \in Threads \ {t} : AtLast(u, g)' <=> AtLast(u, g)
    BY <2>0, <2>1 DEF AtLast
  <2>3. E - 1 \in b <=> to = E
    BY <2>0
  <2>4. to = E => E - 1 \notin given[g]
    BY <2>3, <1>5
  <2>5. to = E => flagged[g] # 1 /\ \A u \in Threads : ~AtLast(u, g)
    BY <2>0, <2>4 DEF Flags
  <2>6. \A u \in Threads : pc'[u] = "last" => batch'[u] \in 1 .. E
    BY <2>0, <2>1 DEF Flags
  <2>7. flagged[g] \in {0, 1}
    BY <2>0 DEF Flags
  <2>8. \A u, v \in Threads : AtLast(u, g)' /\ AtLast(v, g)' => u = v
    <3>1. \A u, v \in Threads : AtLast(u, g) /\ AtLast(v, g) => u = v
      BY <2>0 DEF Flags
    <3> QED
      BY <3>1, <2>2, <2>5
  <2>9. \A u \in Threads : AtLast(u, g)' => flagged[g] = 0
    <3>1. \A u \in Threads : AtLast(u, g) => flagged[g] = 0
      BY <2>0 DEF Flags
    <3> QED
      BY <3>1, <2>2, <2>5, <2>7
  <2>10. E - 1 \in given[g] \cup b <=> flagged[g] = 1 \/ \E u \in Threads : AtLast(u, g)'
    <3>1. E - 1 \in given[g] <=> flagged[g] = 1 \/ \E u \in Threads : AtLast(u, g)
      BY <2>0 DEF Flags
    <3> QED
      BY <3>1, <2>2, <2>3
  <2> HIDE DEF E
  <2>11. /\ \A u \in Threads : pc'[u] = "last" => batch'[u] \in 1 .. Loops'[g].end
         /\ Loops'[g].end - 1 \in given'[g]
              <=> flagged[g] = 1 \/ \E u \in Threads : AtLast(u, g)'
    BY <2>0, <2>6, <2>10, <1>1
  <2>12. flagged'[g] = flagged[g]
    OBVIOUS
  <2> QED
    BY <2>7, <2>8, <2>9, <2>11, <2>12 DEF Flags
<1> QED
  BY <1>1, <1>2, <1>6, <1>7

\* The threads that turn to the global work share: one on each node.
LEMMA OthersRefill ==
  ASSUME NoProbes, SyncInv, LockInv, NEW t \in Threads, mutex[NodeOf[t]] \in {None, t},
         \A u \in Threads : Refilling(u),
         \A u \in Threads \ {t} : pc'[u] = pc[u] /\ start'[u] = start[u],
         \A m \in Nodes \ {NodeOf[t]} : ws'[m] = ws[m],
         gws'.mode = gws.mode, gws.next \in Nat, gws'.next \in Nat, gws.next <= gws'.next
  PROVE  \A u \in Threads \ {t} : Refilling(u)'
<1> SUFFICES ASSUME NEW u \in Threads \ {t}, pc[u] \in {"add", "cas"} PROVE Refilling(u)'
  BY DEF Refilling
<1>1. mutex[NodeOf[u]] = u /\ u # None /\ NodeOf[u] \in Nodes
  BY ThreadTypes, WorkshareAssumption DEF LockInv, Mutex, SyncInv
<1>2. NodeOf[u] # NodeOf[t]
  BY <1>1
<1>3. ws'[NodeOf[u]] = ws[NodeOf[u]] /\ Refilling(u)
  BY <1>1, <1>2
<1> QED
  BY <1>3 DEF Refilling


\* Only threads of dynamic loops take iterations from the work shares.
LEMMA TakesDynamic ==
  ASSUME NoProbes, CountInv, NEW t \in Threads, pc[t] \in {"next", "add", "cas", "last"}
  PROVE  \E g \in LoopIds : g = loop[t] /\ Dynamic(g)
BY ThreadTypes DEF CountInv, SyncInv, LockInv, Kind, Dynamic

\* Nodes stay in their loops.
LEMMA NodeOnKept ==
  ASSUME LoopsKept, NEW g \in LoopIds
  PROVE  \A m \in Nodes : NodeOn(m, g)' <=> NodeOn(m, g)
BY DEF LoopsKept, EndsKept, NodeOn, ThreadsOf

\* A thread takes its chunk from the node's work share.
LEMMA NextLocalData ==
  ASSUME NoProbes, CountInv, NEW t \in Threads, NextLocal(t)
  PROVE  DataInv'
<1> DEFINE n == NodeOf[t]
<1>0. /\ SyncInv /\ LockInv /\ Types /\ n \in Nodes /\ t \in ThreadsOf(n) /\ Takes(t)
      /\ pc[t] = "next" /\ mutex[n] = None /\ ws[n].next # ws[n].end /\ TakeFrom(t, ws[n])
      /\ UNCHANGED <<gws, start, flagged>> /\ batch \in [Threads -> Int]
  BY ThreadTypes DEF CountInv, SyncInv, NextLocal, Takes, Types
<1>1. PICK g \in LoopIds : g = loop[t] /\ Dynamic(g)
  BY <1>0, TakesDynamic
<1>2. /\ NodeOn(n, g) /\ Sharing(g) /\ ws[n].chunk = Loops[g].chunk /\ LoopsKept
      /\ UNCHANGED Loops /\ DataInv
  BY <1>0, <1>1, TakeFacts
<1>3. \A u \in Threads \ {t} : pc'[u] = pc[u] /\ (EndedWork(u)' <=> EndedWork(u))
  BY <1>0, <1>1, TakeFacts
<1>4. \A u \in ThreadsOf(n) : EndedWork(u) => ws[n].completed /\ ws[n].next = ws[n].end
  BY <1>0, <1>1, TakeFacts
<1>5. EndedWork(t)' <=> pc'[t] = "end"
  BY <1>0, <1>1, TakeFacts
<1>6. \A m \in Nodes : NodeOn(m, g)' <=> NodeOn(m, g)
  BY <1>2, NodeOnKept
<1>7. /\ ws[n].next \in Nat /\ ws[n].end \in Nat /\ ws[n].next < ws[n].end
      /\ ws[n].end <= Loops[g].end /\ ws[n].end <= gws.next /\ gws.next \in Nat
      /\ ~ws[n].completed
  <2>1. ws[n].next \in Int /\ ws[n].end \in Int
    BY <1>0, ThreadTypes
  <2>2. NodeRange(n, g) /\ gws.next \in Nat
    BY <1>0, <1>2 DEF Sharing, GlobalRange
  <2> QED
    BY <2>1, <2>2, <1>0, <1>2 DEF NodeRange
<1>8. /\ Loops[g].end \in Nat /\ Loops[g].end <= LONG_MAX /\ LONG_MAX \in Int
      /\ Loops[g].chunk \in Nat /\ 1 <= Loops[g].chunk
  BY <1>0, LoopTypes, WorkshareAssumption, SMTT(60) DEF LONG_MAX
<1>9. PICK to \in ws[n].next + 1 .. ws[n].end :
        /\ ws'[n].next = to /\ ws'[n].end = ws[n].end
        /\ ws'[n].completed = ws[n].completed
        /\ \A m \in Nodes \ {n} : ws'[m] = ws[m]
        /\ Give(loop[t], ws[n].next, to) /\ batch' = [batch EXCEPT ![t] = to]
        /\ pc' = [pc EXCEPT ![t] = "last"]
  <2> DEFINE from == ws[n].next
             top == ws[n].end
  <2>1. [ws[n] EXCEPT !.next = from, !.end = top] = ws[n]
    BY <1>0, ThreadTypes
  <2>2. from \in Nat /\ top \in Nat /\ from < top /\ top <= LONG_MAX /\ 1 <= ws[n].chunk
    BY <1>2, <1>7, <1>8
  <2>3. TakeFrom(t, [ws[n] EXCEPT !.next = from, !.end = top])
    BY <2>1, <1>0
  <2> HIDE DEF from, top
  <2>4. \E to \in from + 1 .. top :
           /\ ws'[n].next = to /\ ws'[n].end = top
           /\ ws'[n].completed = ws[n].completed
           /\ \A m \in Nodes \ {n} : ws'[m] = ws[m]
           /\ Give(loop[t], from, to) /\ batch' = [batch EXCEPT ![t] = to]
           /\ pc' = [pc EXCEPT ![t] = "last"]
    BY <2>2, <2>3, <1>0, TakeFromTakes
  <2> QED
    BY <2>4 DEF from, top
<1>10. pc'[t] = "last" /\ ws'[n].next \in Nat /\ ws'[n].next <= ws[n].end
  BY <1>0, <1>7, <1>9 DEF Types
<1>11. /\ Partition(g)' /\ Flags(g)' /\ Tables'
       /\ \A l \in LoopIds \ {g} : /\ given'[l] = given[l] /\ twice'[l] = twice[l]
                                   /\ flagged'[l] = flagged[l]
  <2>1. Held(n, g) = ws[n].next .. ws[n].end - 1
    BY <1>2 DEF Held
  <2>2. \A i \in ws[n].next .. ws[n].end - 1 :
           i \notin given[g] /\ \A m \in Nodes \ {n} : i \notin Held(m, g)
    BY <2>1, <1>0, <1>2 DEF Sharing, Partition
  <2>3. Tables /\ Give(g, ws[n].next, to) /\ UNCHANGED <<Loops, flagged>>
    BY <1>0, <1>1, <1>2, <1>9 DEF DataInv
  <2>4. /\ gws'.next = gws.next /\ pc[t] # "last" /\ pc'[t] = "last"
        /\ ws'[n].next = to /\ ws'[n].end = ws[n].end
        /\ \A m \in Nodes \ {n} : ws'[m] = ws[m]
    BY <1>0, <1>9, <1>10
  <2>5. PICK from \in Nat, top \in Nat : from = ws[n].next /\ top = ws[n].end
    BY <1>7
  <2>6. /\ to \in from + 1 .. top /\ top <= Loops[g].end /\ top <= gws'.next
        /\ gws.next <= gws'.next /\ gws'.next \in Nat
        /\ \A i \in Iterations(g) : i < gws'.next => i < gws.next \/ i \in from .. top - 1
    BY <2>4, <2>5, <1>7
  <2>7. /\ Held(n, g) \subseteq from .. top - 1
        /\ \A i \in from .. top - 1 :
             i \notin given[g] /\ \A m \in Nodes \ {n} : i \notin Held(m, g)
        /\ Give(g, from, to) /\ ws'[n].end = top
    BY <2>1, <2>2, <2>3, <2>4, <2>5
  <2> QED
    BY <2>3, <2>4, <2>6, <2>7, <1>0, <1>2, <1>3, <1>6, <1>7, <1>8, <1>9, TakenShare
<1>12. GlobalRange(g)' /\ \A m \in Nodes : NodeRange(m, g)'
  <2>1. Drained(g)' = Drained(g)
    <3>1. \A u \in Threads : ws'[NodeOf[u]].completed = ws[NodeOf[u]].completed
                             /\ NodeOf[u] \in Nodes
      BY <1>0, <1>9, ThreadTypes
    <3> QED
      BY <3>1, <1>6 DEF Drained
  <2>2. GlobalRange(g)'
    BY <2>1, <1>0, <1>2 DEF GlobalRange, Sharing
  <2>3. ASSUME NEW m \in Nodes PROVE NodeRange(m, g)'
    <3>1. CASE m = n
      BY <3>1, <1>0, <1>2, <1>7, <1>9, <1>10 DEF NodeRange
    <3>2. CASE m # n
      BY <3>2, <1>0, <1>2, <1>6, <1>9 DEF NodeRange, Sharing
    <3> QED
      BY <3>1, <3>2
  <2> QED
    BY <2>2, <2>3
<1>13. \A u \in Threads : Refilling(u)'
  <2>1. \A u \in Threads \ {t} : Refilling(u)'
    BY <1>0, <1>2, <1>3, <1>7, <1>9, OthersRefill DEF Sharing
  <2>2. Refilling(t)'
    BY <1>10 DEF Refilling
  <2> QED
    BY <2>1, <2>2
<1>14. Sharing(g)'
  BY <1>11, <1>12, <1>13 DEF Sharing
<1>15. \A u \in ThreadsOf(n) : ~EndedWork(u)'
  BY <1>3, <1>4, <1>5, <1>7, <1>10 DEF ThreadsOf
<1> QED
  BY <1>0, <1>1, <1>9, <1>10, <1>11, <1>14, <1>15, TakeData


\* A thread finds the work shares empty, or turns to the global one.
LEMMA NextEmptyData ==
  ASSUME NoProbes, CountInv, NEW t \in Threads, NextExhausted(t) \/ NextRefill(t)
  PROVE  DataInv'
<1> DEFINE n == NodeOf[t]
<1>0. /\ SyncInv /\ LockInv /\ Types /\ n \in Nodes /\ t \in ThreadsOf(n) /\ Takes(t)
      /\ pc[t] = "next" /\ mutex[n] = None /\ ws[n].next = ws[n].end
      /\ UNCHANGED <<ws, gws, given, twice, flagged, batch>>
      /\ \/ ws[n].completed /\ pc'[t] = "end" /\ start' = start
         \/ ~ws[n].completed /\ gws.mode /\ pc'[t] = "add" /\ start' = start
         \/ ~ws[n].completed /\ ~gws.mode /\ pc'[t] = "cas"
            /\ start' = [start EXCEPT ![t] = gws.next]
  BY ThreadTypes
     DEF CountInv, SyncInv, NextExhausted, NextRefill, Takes, Types, Goto, shares, progress
<1>1. PICK g \in LoopIds : g = loop[t] /\ Dynamic(g)
  BY <1>0, TakesDynamic
<1>2. NodeOn(n, g) /\ Sharing(g) /\ LoopsKept /\ UNCHANGED Loops /\ DataInv
  BY <1>0, <1>1, TakeFacts
<1>3. /\ \A u \in Threads \ {t} : pc'[u] = pc[u] /\ (EndedWork(u)' <=> EndedWork(u))
      /\ EndedWork(t)' <=> pc'[t] = "end"
  BY <1>0, <1>1, TakeFacts
<1>4. \A u \in ThreadsOf(n) : EndedWork(u) => ws[n].completed /\ ws[n].next = ws[n].end
  BY <1>0, <1>1, TakeFacts
<1>5. \A m \in Nodes : NodeOn(m, g)' <=> NodeOn(m, g)
  BY <1>2, NodeOnKept
<1>6. \A m \in Nodes : Held(m, g)' = Held(m, g) /\ NodeRange(m, g)'
  BY <1>0, <1>2, <1>5 DEF Held, NodeRange, Sharing
<1>7. Drained(g)' = Drained(g)
  BY <1>0, <1>5, ThreadTypes DEF Drained
<1>8. gws.next \in Nat
  BY <1>2 DEF Sharing, GlobalRange
<1>9. \A u \in Threads : Refilling(u)'
  <2>1. \A u \in Threads \ {t} : start'[u] = start[u]
    BY <1>0 DEF Types
  <2>2. \A u \in Threads \ {t} : Refilling(u)'
    BY <2>1, <1>0, <1>2, <1>3, <1>8, OthersRefill DEF Sharing
  <2>3. pc'[t] = "cas" => start'[t] = gws.next
    BY <1>0 DEF Types
  <2>4. Refilling(t)'
    BY <2>3, <1>0, <1>8 DEF Refilling
  <2> QED
    BY <2>2, <2>4
<1>10. Sharing(g)'
  BY <1>0, <1>2, <1>3, <1>6, <1>7, <1>9, SharingKept
<1>11. Tables'
  BY <1>0, <1>2 DEF DataInv, Tables, LoopIds
<1>12. \A u \in ThreadsOf(n) : EndedWork(u)' => ws'[n].completed /\ ws'[n].next = ws'[n].end
  BY <1>0, <1>3, <1>4 DEF ThreadsOf
<1> QED
  BY <1>0, <1>1, <1>10, <1>11, <1>12, TakeData

\* hierarchy_last: exactly one thread finds its batch to end where the loop does.
LEMMA LastData ==
  ASSUME NoProbes, CountInv, NEW t \in Threads, Last(t)
  PROVE  DataInv'
<1> DEFINE n == NodeOf[t]
<1>0. /\ SyncInv /\ LockInv /\ Types /\ n \in Nodes /\ t \in ThreadsOf(n) /\ Takes(t)
      /\ pc[t] = "last" /\ pc'[t] = "next"
      /\ UNCHANGED <<ws, gws, given, twice, batch, start>>
  BY ThreadTypes DEF CountInv, SyncInv, Last, Takes, Types, Goto, shares
<1>1. PICK g \in LoopIds : g = loop[t] /\ Dynamic(g)
  BY <1>0, TakesDynamic
<1>2. /\ NodeOn(n, g) /\ Sharing(g) /\ LoopsKept /\ UNCHANGED Loops /\ DataInv
      /\ gws.end = Loops[g].end
  BY <1>0, <1>1, TakeFacts
<1>3. /\ \A u \in Threads \ {t} : pc'[u] = pc[u] /\ (EndedWork(u)' <=> EndedWork(u))
      /\ EndedWork(t)' <=> pc'[t] = "end"
  BY <1>0, <1>1, TakeFacts
<1>4. \A u \in ThreadsOf(n) : EndedWork(u) => ws[n].completed /\ ws[n].next = ws[n].end
  BY <1>0, <1>1, TakeFacts
<1>5. \A m \in Nodes : NodeOn(m, g)' <=> NodeOn(m, g)
  BY <1>2, NodeOnKept
<1>6. \A m \in Nodes : Held(m, g)' = Held(m, g) /\ NodeRange(m, g)'
  BY <1>0, <1>2, <1>5 DEF Held, NodeRange, Sharing
<1>7. Drained(g)' = Drained(g)
  BY <1>0, <1>5, ThreadTypes DEF Drained
<1>8. \A u \in Threads : Refilling(u)'
  BY <1>0, <1>2, <1>3 DEF Refilling, Sharing
<1>9. Tables /\ Flags(g)
  BY <1>2 DEF DataInv, Sharing
<1>10. AtLast(t, g) <=> batch[t] >= gws.end
  <2>1. Loops[g].end \in Int /\ batch[t] \in 1 .. Loops[g].end
    BY <1>0, <1>9, LoopTypes DEF Flags
  <2> QED
    BY <2>1, <1>0, <1>2 DEF AtLast
<1>11. flagged' = [flagged EXCEPT ![g] = IF AtLast(t, g) THEN flagged[g] + 1 ELSE flagged[g]]
  BY <1>1, <1>10 DEF Last
<1>12. /\ Tables' /\ flagged'[g] = (IF AtLast(t, g) THEN flagged[g] + 1 ELSE flagged[g])
       /\ \A l \in LoopIds \ {g} : flagged'[l] = flagged[l]
  BY <1>0, <1>2, <1>9, <1>11 DEF Tables, LoopIds
<1>13. Flags(g)'
  <2>1. ~AtLast(t, g)' /\ \A u \in Threads \ {t} : AtLast(u, g)' <=> AtLast(u, g)
    BY <1>0, <1>2, <1>3 DEF AtLast
  <2>2. CASE AtLast(t, g)
    <3>1. flagged[g] = 0 /\ flagged'[g] = 1
      BY <2>2, <1>9, <1>12 DEF Flags
    <3>2. \A u \in Threads : ~AtLast(u, g)'
      BY <2>1, <2>2, <1>9 DEF Flags
    <3>3. Loops[g].end - 1 \in given[g]
      BY <2>2, <1>9 DEF Flags
    <3>4. \A u \in Threads : pc'[u] = "last" => batch'[u] \in 1 .. Loops'[g].end
      BY <1>0, <1>2, <1>3, <1>9 DEF Flags
    <3> QED
      BY <3>1, <3>2, <3>3, <3>4, <1>0, <1>2 DEF Flags
  <2>3. CASE ~AtLast(t, g)
    <3>1. flagged'[g] = flagged[g] /\ \A u \in Threads : AtLast(u, g)' <=> AtLast(u, g)
      BY <2>1, <2>3, <1>12
    <3>2. \A u \in Threads : pc'[u] = "last" => batch'[u] \in 1 .. Loops'[g].end
      BY <1>0, <1>2, <1>3, <1>9 DEF Flags
    <3> QED
      BY <3>1, <3>2, <1>0, <1>2, <1>9 DEF Flags
  <2> QED
    BY <2>2, <2>3
<1>14. Sharing(g)'
  <2>1. GlobalRange(g)'
    BY <1>0, <1>2, <1>7 DEF GlobalRange, Sharing
  <2>2. Partition(g)'
    BY <1>0, <1>2, <1>6 DEF Partition, Sharing, Iterations
  <2> QED
    BY <2>1, <2>2, <1>6, <1>8, <1>13 DEF Sharing
<1>15. \A u \in ThreadsOf(n) : EndedWork(u)' => ws'[n].completed /\ ws'[n].next = ws'[n].end
  BY <1>0, <1>3, <1>4 DEF ThreadsOf
<1> QED
  BY <1>0, <1>1, <1>12, <1>14, <1>15, TakeData

\* The parts of two threads of a static loop do not overlap.
LEMMA PartsApart ==
  ASSUME NoProbes, Types, NEW l \in LoopIds, Sched(l) = "static",
         NEW t \in Threads, NEW u \in Threads, t # u
  PROVE  Part(Loops[l], t) \cap Part(Loops[l], u) = {}
<1>1. Loops \in Regions /\ l \in DOMAIN Loops /\ Loops[l].sched # "dynamic"
  BY DEF Types, LoopIds, Sched
<1>2. Loops[l] \in {Loops[i] : i \in DOMAIN Loops}
  BY <1>1
<1> QED
  BY <1>1, <1>2, WorkshareAssumption

\* The parts of all threads are the loop.
LEMMA PartsCover ==
  ASSUME NoProbes, Types, NEW l \in LoopIds, Sched(l) = "static"
  PROVE  UNION {Part(Loops[l], v) : v \in Threads} = Iterations(l)
<1>1. Loops \in Regions /\ l \in DOMAIN Loops /\ Loops[l].sched # "dynamic"
  BY DEF Types, LoopIds, Sched
<1>2. Loops[l] \in {Loops[i] : i \in DOMAIN Loops}
  BY <1>1
<1>3. PICK t \in Threads : TRUE
  BY WorkshareAssumption DEF ThreadsOf
<1> QED
  BY <1>1, <1>2, <1>3, WorkshareAssumption DEF Iterations


\* A thread takes its part of a static loop.
LEMMA StaticNextData ==
  ASSUME NoProbes, CountInv, NEW t \in Threads, StaticNext(t)
  PROVE  DataInv'
<1> DEFINE n == NodeOf[t]
<1>0. /\ SyncInv /\ LockInv /\ DataInv /\ Types /\ n \in Nodes /\ t \in ThreadsOf(n) /\ Takes(t)
      /\ Works(t) /\ pc[t] = "static" /\ pc'[t] = "end"
      /\ UNCHANGED <<ws, gwsLock, gws, start, batch, flagged>>
  BY ThreadTypes DEF CountInv, SyncInv, StaticNext, Takes, Works, Types, Goto, shares
<1>1. PICK l \in LoopIds : l = loop[t] /\ Sched(l) = "static"
  BY <1>0, ThreadTypes DEF LockInv, Kind
<1>2. /\ \A u \in Threads : Cur(u)' = Cur(u)
      /\ \A u \in Threads : \A k \in LoopIds : Ended(u, k)' <=> Ended(u, k)
      /\ \A u \in Threads \ {t} : pc'[u] = pc[u] /\ (EndedWork(u)' <=> EndedWork(u))
      /\ EndedWork(t)' /\ ~EndedWork(t) /\ LoopsKept /\ UNCHANGED Loops
      /\ GlobalClosed' <=> GlobalClosed
  <2>1. ~Between(t)
    BY <1>0 DEF Between, Freed
  <2> QED
    BY <2>1, <1>0, WorkKept
<1>3. Cur(t) = l /\ ~GlobalClosed
  BY <1>0, <1>1, WorkFrame
<1> DEFINE mine == Part(Loops[l], t)
           S == {u \in Threads : Through(u, l)}
<1>4. /\ given' = [given EXCEPT ![l] = given[l] \cup mine]
      /\ twice' = [twice EXCEPT ![l] = twice[l] \cup (given[l] \cap mine)]
  <2>1. StaticPart(l, t) = Part(Loops[l], t)
    BY <1>0, LoopTypes DEF StaticPart
  <2> QED
    BY <2>1, <1>1 DEF StaticNext
<1>5. mine \subseteq Int
  BY <1>0, <1>1, PartsCover DEF Iterations
<1>6. /\ LoopIds' = LoopIds
      /\ \A k \in LoopIds : (Dynamic(k)' <=> Dynamic(k)) /\ Sched(k)' = Sched(k)
  BY <1>2 DEF LoopIds, Dynamic, Sched
<1>7. Tables /\ StaticGiven(l)
  BY <1>0 DEF DataInv
<1>8. /\ given'[l] = given[l] \cup mine /\ twice'[l] = twice[l] \cup (given[l] \cap mine)
      /\ \A k \in LoopIds \ {l} : given'[k] = given[k] /\ twice'[k] = twice[k]
      /\ Tables'
  <2>1. given[l] \in SUBSET Int /\ twice[l] \in SUBSET Int
    BY <1>7 DEF Tables
  <2>2. given[l] \cup mine \in SUBSET Int /\ twice[l] \cup (given[l] \cap mine) \in SUBSET Int
    BY <2>1, <1>5
  <2> HIDE DEF mine
  <2> QED
    BY <2>2, <1>0, <1>4, <1>6, <1>7 DEF Tables
<1>9. /\ ~Through(t, l) /\ Through(t, l)'
      /\ \A u \in Threads \ {t} : \A k \in LoopIds : Through(u, k)' <=> Through(u, k)
      /\ \A k \in LoopIds \ {l} : Through(t, k)' <=> Through(t, k)
  <2>1. l \in Int
    BY <1>0, LoopTypes
  <2> QED
    BY <2>1, <1>2, <1>3 DEF Through
<1>10. StaticGiven(l)'
  <2>1. S' = S \cup {t} /\ t \notin S
    BY <1>9
  <2>2. given[l] = UNION {Part(Loops[l], u) : u \in S} /\ twice[l] = {}
    BY <1>1, <1>7 DEF StaticGiven
  <2>3. given[l] \cap mine = {}
    <3>1. \A u \in S : Part(Loops[l], u) \cap mine = {}
      BY <2>1, <1>0, <1>1, PartsApart
    <3> QED
      BY <3>1, <2>2
  <2>4. UNION {Part(Loops[l], u) : u \in S \cup {t}}
          = (UNION {Part(Loops[l], u) : u \in S}) \cup mine
    OBVIOUS
  <2>5. given'[l] = UNION {Part(Loops[l], u) : u \in S'}
    BY <2>1, <2>2, <2>4, <1>8
  <2>6. twice'[l] = {}
    BY <2>2, <2>3, <1>8
  <2> QED
    BY <2>5, <2>6, <1>2 DEF StaticGiven
<1>11. ASSUME NEW k \in LoopIds PROVE StaticGiven(k)'
  <2>1. CASE k = l
    BY <2>1, <1>10
  <2>2. CASE k # l
    <3>1. StaticGiven(k)
      BY <1>0 DEF DataInv
    <3>2. {u \in Threads : Through(u, k)}' = {u \in Threads : Through(u, k)}
      BY <2>2, <1>9
    <3> QED
      BY <2>2, <3>1, <3>2, <1>2, <1>6, <1>8 DEF StaticGiven
  <2> QED
    BY <2>1, <2>2
<1>12. ASSUME NEW k \in LoopIds PROVE Account(k)'
  <2> SUFFICES ASSUME Dynamic(k) PROVE Account(k)'
    BY <1>6 DEF Account
  <2>1. k # l /\ Account(k) /\ (Is(k)' <=> Is(k))
    BY <1>0, <1>1, <1>2, <1>6 DEF Dynamic, DataInv, Is
  <2>2. given'[k] = given[k] /\ twice'[k] = twice[k] /\ flagged'[k] = flagged[k]
    BY <2>1, <1>0, <1>8
  <2>3. (Complete(k)' <=> Complete(k)) /\ (Untouched(k)' <=> Untouched(k))
    BY <2>2, <1>2 DEF Complete, Untouched, Iterations
  <2>4. Armed' <=> Armed
    BY <1>0 DEF Armed
  <2>5. ASSUME Sharing(k) PROVE Sharing(k)'
    <3>1. \A m \in Nodes : NodeOn(m, k)' <=> NodeOn(m, k)
      BY <1>2, NodeOnKept
    <3>2. \A m \in Nodes : Held(m, k)' = Held(m, k) /\ NodeRange(m, k)'
      BY <2>5, <3>1, <1>0, <1>2 DEF Held, NodeRange, Sharing
    <3>3. Drained(k)' = Drained(k)
      BY <3>1, <1>0, ThreadTypes DEF Drained
    <3>4. \A u \in Threads : /\ pc'[u] = "last" <=> pc[u] = "last"
                             /\ pc'[u] = "add" <=> pc[u] = "add"
                             /\ pc'[u] = "cas" <=> pc[u] = "cas"
      BY <1>0, <1>2
    <3>5. \A u \in Threads : Refilling(u)'
      BY <2>5, <3>4, <1>0 DEF Refilling, Sharing
    <3>6. GlobalRange(k)'
      BY <2>5, <3>3, <1>0, <1>2 DEF GlobalRange, Sharing
    <3>7. Partition(k)'
      BY <2>2, <2>5, <3>2, <1>0, <1>2 DEF Partition, Sharing, Iterations
    <3>8. \A u \in Threads : AtLast(u, k)' <=> AtLast(u, k)
      BY <3>4, <1>0, <1>2 DEF AtLast
    <3>9. Flags(k)'
      <4>1. Flags(k)
        BY <2>5 DEF Sharing
      <4>2. \A u \in Threads : pc'[u] = "last" => batch'[u] \in 1 .. Loops'[k].end
        BY <4>1, <3>4, <1>0, <1>2 DEF Flags
      <4> QED
        BY <4>1, <4>2, <2>2, <3>8, <1>2 DEF Flags
    <3> QED
      BY <3>2, <3>5, <3>6, <3>7, <3>9 DEF Sharing
  <2> QED
    BY <2>1, <2>3, <2>4, <2>5, <1>2, <1>6 DEF Account
<1>13. ASSUME NEW u \in Threads PROVE Leaves(u)' /\ Enters(u)'
  <2>1. Leaves(u) /\ Enters(u)
    BY <1>0 DEF DataInv
  <2>2. CASE u = t
    <3>1. ~Dynamic(l)
      BY <1>1 DEF Dynamic
    <3> QED
      BY <2>2, <3>1, <1>0, <1>2, <1>3, <1>6 DEF Leaves, Enters
  <2>3. CASE u # t
    BY <2>1, <2>3, <1>0, <1>2 DEF Leaves, Enters, Dynamic, LoopIds, Sched
  <2> QED
    BY <2>2, <2>3
<1> QED
  BY <1>6, <1>8, <1>11, <1>12, <1>13 DEF DataInv


-----------------------------------------------------------------------------
(* Refilling a node from the global work share                             *)

\* Multiplication distributes over what NoOverflow bounds.
LEMMA Times ==
  ASSUME NEW c \in Nat, NEW a \in Nat, NEW b \in Nat, NEW d \in Nat, a + b <= d
  PROVE  c * a \in Nat /\ c * b \in Nat /\ c * d \in Nat /\ c * a + c * b <= c * d
<1>1. PICK e \in Nat : d = a + b + e
  <2>1. d - (a + b) \in Nat /\ d = a + b + (d - (a + b))
    OBVIOUS
  <2> QED
    BY <2>1
<1>2. c * (a + b + e) = c * a + c * b + c * e
  OBVIOUS
<1>3. c * a \in Nat /\ c * b \in Nat /\ c * e \in Nat
  OBVIOUS
<1>4. c * d = c * a + c * b + c * e
  BY <1>1, <1>2
<1> QED
  BY <1>3, <1>4

\* The threads of the nodes that found nothing left.
LEMMA DrainedCard ==
  ASSUME NEW g \in LoopIds, NEW n \in Nodes, ~ws[n].completed
  PROVE  /\ IsFiniteSet(Drained(g)) /\ Cardinality(Drained(g)) \in Nat
         /\ Cardinality(Threads) \in Nat
         /\ Cardinality(Drained(g)) + ThreadsPerNode(n) <= Cardinality(Threads)
         /\ IsFiniteSet(Drained(g) \cup ThreadsOf(n))
         /\ Cardinality(Drained(g) \cup ThreadsOf(n)) = Cardinality(Drained(g)) + ThreadsPerNode(n)
<1>1. Drained(g) \in SUBSET Threads /\ ThreadsOf(n) \in SUBSET Threads /\ IsFiniteSet(Threads)
  BY WorkshareAssumption DEF Drained, ThreadsOf
<1>2. Drained(g) \cap ThreadsOf(n) = {}
  BY DEF Drained, ThreadsOf
<1>3. IsFiniteSet(Drained(g)) /\ IsFiniteSet(ThreadsOf(n))
  BY <1>1, FS_Subset
<1>4. Cardinality({}) = 0
  BY FS_EmptySet
<1>5. /\ IsFiniteSet(Drained(g) \cup ThreadsOf(n))
      /\ Cardinality(Drained(g) \cup ThreadsOf(n))
           = Cardinality(Drained(g)) + Cardinality(ThreadsOf(n)) - 0
  BY <1>2, <1>3, <1>4, FS_Union
<1>6. Drained(g) \cup ThreadsOf(n) \in SUBSET Threads
  BY <1>1
<1>7. Cardinality(Drained(g) \cup ThreadsOf(n)) <= Cardinality(Threads)
  BY <1>1, <1>6, FS_Subset
<1>8. /\ Cardinality(Drained(g)) \in Nat /\ Cardinality(ThreadsOf(n)) \in Nat
      /\ Cardinality(Threads) \in Nat
  BY <1>1, <1>3, FS_CardinalityType
<1> QED
  BY <1>3, <1>5, <1>7, <1>8 DEF ThreadsPerNode

\* NoOverflow leaves room for one more addition to the global counter.
LEMMA Room ==
  ASSUME NoProbes, NoOverflow, Types, NEW g \in LoopIds, Dynamic(g), GlobalRange(g),
         NEW n \in Nodes, ~ws[n].completed
  PROVE  /\ Loops[g].chunk * ThreadsPerNode(n) \in Nat
         /\ Loops[g].chunk * ThreadsPerNode(n) <= LONG_MAX
         /\ gws.mode => gws.next + Loops[g].chunk * ThreadsPerNode(n) <= LONG_MAX
<1> DEFINE C == Loops[g].chunk
           E == Loops[g].end
           T == Cardinality(Threads)
           D == Cardinality(Drained(g))
           k == ThreadsPerNode(n)
<1>1. /\ C \in Nat /\ 1 <= C /\ E \in Nat /\ LONG_MAX \in Int
      /\ \A m \in Nodes : ThreadsPerNode(m) \in Nat
  <2>1. Loops[g].chunk \in 1 .. LONG_MAX /\ Loops[g].end \in 1 .. LONG_MAX
    BY LoopTypes
  <2>2. LONG_MAX \in Int
    BY WorkshareAssumption DEF LONG_MAX
  <2> QED
    BY <2>1, <2>2, NodeCounts
<1>2. D \in Nat /\ T \in Nat /\ D + k <= T
  BY DrainedCard
<1>3. \A m \in Nodes : E + C * (T + ThreadsPerNode(m)) <= LONG_MAX
  BY DEF NoOverflow, Dynamic
<1>4. gws.next \in Nat
  BY DEF GlobalRange
<1>5. C * D \in Nat /\ C * k \in Nat /\ C * T \in Nat /\ C * D + C * k <= C * T
  BY <1>1, <1>2, Times
<1>6. ASSUME NEW m \in Nodes
      PROVE  /\ C * ThreadsPerNode(m) \in Nat
             /\ E + C * T + C * ThreadsPerNode(m) <= LONG_MAX
  <2> DEFINE j == ThreadsPerNode(m)
  <2>1. j \in Nat /\ E + C * (T + j) <= LONG_MAX
    BY <1>1, <1>3
  <2> HIDE DEF C, E, T, D, k, j
  <2>2. C * (T + j) = C * T + C * j /\ C * j \in Nat
    BY <2>1, <1>1, <1>2
  <2>3. E + C * T + C * j <= LONG_MAX
    BY <2>1, <2>2, <1>1, <1>5
  <2> QED
    BY <2>2, <2>3 DEF j
<1>7. gws.mode => gws.next < E \/ \E m \in Nodes : gws.next < E + C * ThreadsPerNode(m) + C * D
  BY DEF GlobalRange
<1> HIDE DEF C, E, T, D, k
<1>8. C * k <= LONG_MAX
  BY <1>1, <1>5, <1>6
<1>9. ASSUME gws.mode PROVE gws.next + C * k <= LONG_MAX
  <2>1. CASE gws.next < E
    BY <2>1, <1>1, <1>4, <1>5, <1>6
  <2>2. ASSUME NEW m \in Nodes, gws.next < E + C * ThreadsPerNode(m) + C * D
        PROVE  gws.next + C * k <= LONG_MAX
    <3>1. C * ThreadsPerNode(m) \in Nat /\ E + C * T + C * ThreadsPerNode(m) <= LONG_MAX
      BY <1>6
    <3> DEFINE j == C * ThreadsPerNode(m)
    <3> HIDE DEF j
    <3>2. j \in Nat /\ E + C * T + j <= LONG_MAX /\ gws.next < E + j + C * D
      BY <2>2, <3>1 DEF j
    <3> QED
      BY <3>2, <1>1, <1>4, <1>5
  <2> QED
    BY <2>1, <2>2, <1>7, <1>9
<1> QED
  BY <1>5, <1>8, <1>9 DEF C, k

\* What the thread that refills its node finds.
LEMMA RefillFacts ==
  ASSUME NoProbes, NoOverflow, CountInv, NEW t \in Threads, Takes(t), pc[t] \in {"add", "cas"},
         NEW g \in LoopIds, g = loop[t], Dynamic(g)
  PROVE  /\ mutex[NodeOf[t]] = t /\ NodeOf[t] \in Nodes
         /\ NodeChunk(t) = Loops[g].chunk * ThreadsPerNode(NodeOf[t]) /\ NodeChunk(t) \in Nat
         /\ 1 <= NodeChunk(t) /\ NodeChunk(t) <= LONG_MAX
         /\ gws.mode => gws.next + NodeChunk(t) <= LONG_MAX
         /\ ~ws[NodeOf[t]].completed /\ ws[NodeOf[t]].next = ws[NodeOf[t]].end
         /\ gws.next \in Nat /\ gws.end = Loops[g].end /\ Loops[g].end \in Nat
         /\ Loops[g].end <= LONG_MAX /\ LONG_MAX \in Int
         /\ ws[NodeOf[t]].next \in Nat /\ ws[NodeOf[t]].next <= gws.next
<1> DEFINE n == NodeOf[t]
<1>0. SyncInv /\ LockInv /\ Types /\ n \in Nodes /\ Mutex(t)
  BY ThreadTypes DEF CountInv, SyncInv, LockInv
<1>1. /\ Sharing(g) /\ gws.end = Loops[g].end /\ NodeOn(n, g)
      /\ ws[n].chunk = Loops[g].chunk
  BY TakeFacts
<1>2. GlobalRange(g) /\ NodeRange(n, g) /\ Refilling(t)
  BY <1>0, <1>1 DEF Sharing
<1>3. ~ws[n].completed /\ ws[n].next = ws[n].end
  BY <1>2 DEF Refilling
<1>4. /\ Loops[g].end \in Nat /\ Loops[g].end <= LONG_MAX /\ LONG_MAX \in Int
      /\ Loops[g].chunk \in Nat /\ 1 <= Loops[g].chunk
      /\ ThreadsPerNode(n) \in Nat \ {0}
  <2>1. ThreadsPerNode(n) \in Nat \ {0}
    BY <1>0, NodeCards, ThreadsOf(n) \in SUBSET ThreadsOf(n)
  <2> QED
    BY <2>1, <1>0, LoopTypes, WorkshareAssumption DEF LONG_MAX
<1> DEFINE K == Loops[g].chunk * ThreadsPerNode(n)
<1>5. K \in Nat /\ K <= LONG_MAX /\ (gws.mode => gws.next + K <= LONG_MAX)
  BY <1>0, <1>2, <1>3, Room
<1>6. 1 <= K
  <2> DEFINE c == Loops[g].chunk
             k == ThreadsPerNode(n)
  <2>1. c \in Nat /\ 1 <= c /\ k \in Nat /\ 1 <= k
    BY <1>4
  <2> HIDE DEF c, k
  <2>2. c * k >= 1
    BY <2>1
  <2> QED
    BY <2>2 DEF c, k
<1>7. NodeChunk(t) = K
  <2> HIDE DEF K
  <2>1. Long(K) = K
    BY <1>4, <1>5, LongExact
  <2> QED
    BY <2>1, <1>1 DEF NodeChunk, K
<1>8. gws.next \in Nat
  BY <1>2 DEF GlobalRange
<1> HIDE DEF K
<1>9. ws[n].next \in Nat /\ ws[n].next <= gws.next
  BY <1>1, <1>2, <1>3 DEF NodeRange
<1>10. mutex[n] = t
  BY <1>0 DEF Mutex
<1> QED
  BY <1>0, <1>1, <1>3, <1>4, <1>5, <1>6, <1>7, <1>8, <1>9, <1>10 DEF K


\* The global work share is empty: the node is marked so.
LEMMA NothingLeftData ==
  ASSUME NoProbes, NoOverflow, CountInv, NEW t \in Threads, Takes(t), pc[t] \in {"add", "cas"},
         NothingLeft(t), gws.next >= gws.end, UNCHANGED <<start, flagged>>,
         \/ gws.mode /\ gws' = [gws EXCEPT !.next = gws.next + NodeChunk(t)]
         \/ ~gws.mode /\ gws' = gws
  PROVE  DataInv'
<1> DEFINE n == NodeOf[t]
<1>0. /\ SyncInv /\ LockInv /\ Types /\ n \in Nodes /\ t \in ThreadsOf(n)
      /\ UNCHANGED <<given, twice, batch>>
  BY ThreadTypes DEF CountInv, SyncInv, NothingLeft
<1>1. PICK g \in LoopIds : g = loop[t] /\ Dynamic(g)
  BY <1>0, TakesDynamic
<1>2. NodeOn(n, g) /\ Sharing(g) /\ LoopsKept /\ UNCHANGED Loops /\ DataInv
  BY <1>0, <1>1, TakeFacts
<1>3. /\ \A u \in Threads \ {t} : pc'[u] = pc[u] /\ (EndedWork(u)' <=> EndedWork(u))
      /\ EndedWork(t)' <=> pc'[t] = "end"
  BY <1>0, <1>1, TakeFacts
<1>4. /\ mutex[n] = t /\ NodeChunk(t) = Loops[g].chunk * ThreadsPerNode(n)
      /\ NodeChunk(t) \in Nat /\ ~ws[n].completed /\ ws[n].next = ws[n].end
      /\ gws.next \in Nat /\ gws.end = Loops[g].end /\ Loops[g].end \in Nat
  BY <1>1, RefillFacts
<1>5. \A m \in Nodes : NodeOn(m, g)' <=> NodeOn(m, g)
  BY <1>2, NodeOnKept
<1>6. pc'[t] = "end"
  BY <1>0, NothingLeftShares
<1>7. /\ ws'[n].next = ws[n].next /\ ws'[n].end = ws[n].end /\ ws'[n].completed
      /\ \A m \in Nodes \ {n} : ws'[m] = ws[m]
  <2>1. ws' = [ws EXCEPT ![n] = [ws[n] EXCEPT !.completed = TRUE]]
    BY DEF NothingLeft
  <2>2. ws'[n] = [ws[n] EXCEPT !.completed = TRUE] /\ \A m \in Nodes \ {n} : ws'[m] = ws[m]
    BY <2>1, <1>0 DEF Types
  <2> QED
    BY <2>2, <1>0, ThreadTypes
<1>8. /\ gws'.mode = gws.mode /\ gws'.end = gws.end
      /\ gws'.next = IF gws.mode THEN gws.next + NodeChunk(t) ELSE gws.next
  BY <1>0 DEF Types
<1>9. gws'.next \in Nat /\ gws.next <= gws'.next
  BY <1>4, <1>8
<1>10. \A m \in Nodes : Held(m, g)' = Held(m, g)
  BY <1>0, <1>5, <1>7 DEF Held
<1>11. \A m \in Nodes : NodeRange(m, g)'
  <2>1. Loops[g].end <= gws'.next /\ Loops'[g].end = Loops[g].end
    BY <1>2, <1>4, <1>9
  <2>2. ASSUME NEW m \in Nodes, NodeOn(m, g) PROVE NodeRange(m, g)'
    <3>1. ws[m].next \in Int /\ ws[m].end \in Int
      BY <1>0 DEF Types
    <3>2. NodeRange(m, g)
      BY <1>2 DEF Sharing
    <3>3. ws'[m].next = ws[m].next /\ ws'[m].end = ws[m].end
      BY <1>7
    <3>4. ws'[m].completed => ws[m].next = ws[m].end
      BY <3>2, <1>4, <1>7, <2>2 DEF NodeRange
    <3>5. /\ ws[m].next \in Nat /\ ws[m].next <= ws[m].end
          /\ ws[m].end <= Loops[g].end /\ ws[m].end <= gws.next
      BY <3>2, <2>2 DEF NodeRange
    <3>6. ws[m].end <= gws'.next
      BY <3>1, <3>5, <1>4, <1>9
    <3> QED
      BY <2>1, <3>3, <3>4, <3>5, <3>6 DEF NodeRange
  <2> QED
    BY <2>2, <1>5 DEF NodeRange
<1>12. GlobalRange(g)'
  <2> DEFINE C == Loops[g].chunk
             D == Cardinality(Drained(g))
             k == ThreadsPerNode(n)
             E == Loops[g].end
  <2>0. GlobalRange(g) /\ Loops'[g].end = E /\ Loops'[g].chunk = C
    BY <1>2 DEF Sharing
  <2>1. Drained(g)' = Drained(g) \cup ThreadsOf(n)
    <3>1. \A u \in Threads : NodeOf[u] \in Nodes
      BY <1>0, ThreadTypes
    <3>2. \A u \in Threads : ws'[NodeOf[u]].completed
                               <=> ws[NodeOf[u]].completed \/ NodeOf[u] = n
      BY <1>7, <3>1
    <3> QED
      BY <3>1, <3>2, <1>2, <1>5 DEF Drained, ThreadsOf
  <2>2. /\ D \in Nat /\ Cardinality(Drained(g)') = D + k
        /\ k \in Nat /\ C \in Nat /\ E \in Nat
    <3>1. /\ Cardinality(Drained(g)) \in Nat
          /\ Cardinality(Drained(g) \cup ThreadsOf(n)) = Cardinality(Drained(g)) + ThreadsPerNode(n)
      BY <1>0, <1>4, DrainedCard
    <3>2. k \in Nat
      BY <1>0, NodeCounts
    <3>3. C \in Nat /\ E \in Nat
      BY <1>0, LoopTypes
    <3> QED
      BY <2>1, <3>1, <3>2, <3>3
  <2>3. ~gws'.mode => gws'.next <= Loops'[g].end
    BY <2>0, <1>8 DEF GlobalRange
  <2>4. ASSUME gws'.mode
        PROVE  \E m \in Nodes : gws'.next < Loops'[g].end + Loops'[g].chunk * ThreadsPerNode(m)
                                             + Loops'[g].chunk * Cardinality(Drained(g)')
    <3>1. ~(gws.next < E)
      BY <1>4
    <3>2. PICK m \in Nodes : gws.next < E + C * ThreadsPerNode(m) + C * D
      BY <3>1, <2>0, <2>4, <1>8 DEF GlobalRange
    <3>3. gws'.next = gws.next + C * k
      BY <2>4, <1>4, <1>8
    <3> DEFINE j == ThreadsPerNode(m)
    <3>4. j \in Nat
      BY NodeCounts
    <3>5. gws.next < E + C * j + C * D
      BY <3>2
    <3> HIDE DEF C, D, k, E, j
    <3>6. C * (D + k) = C * D + C * k /\ C * D \in Nat /\ C * k \in Nat /\ C * j \in Nat
      BY <2>2, <3>4
    <3>7. gws'.next < E + C * j + C * (D + k)
      BY <3>3, <3>5, <3>6, <2>2, <1>4
    <3> QED
      BY <3>7, <2>0, <2>2 DEF j
  <2>5. Drained(g)' = Drained(g) \cup ThreadsOf(n) /\ Nodes' = Nodes
    BY <2>1
  <2> QED
    BY <2>3, <2>4, <1>9 DEF GlobalRange
<1>13. Partition(g)'
  <2>1. /\ twice'[g] = {} /\ given'[g] = given[g] /\ Iterations(g)' = Iterations(g)
        /\ Partition(g)
    BY <1>0, <1>2 DEF Sharing, Partition, Iterations
  <2>2. \A i \in Iterations(g) : i \in Int /\ i < gws.next /\ i < gws'.next
    BY <1>4, <1>9 DEF Iterations
  <2> QED
    BY <2>1, <2>2, <1>10 DEF Partition
<1>14. Flags(g)'
  <2>1. pc[t] # "last" /\ \A u \in Threads : pc'[u] = "last" <=> pc[u] = "last"
    BY <1>3, <1>6
  <2>2. \A u \in Threads : AtLast(u, g)' <=> AtLast(u, g)
    BY <2>1, <1>0, <1>2 DEF AtLast
  <2> QED
    BY <2>1, <2>2, <1>0, <1>2 DEF Flags, Sharing
<1>15. \A u \in Threads : Refilling(u)'
  <2>1. \A u \in Threads \ {t} : Refilling(u)'
    BY <1>0, <1>2, <1>3, <1>4, <1>7, <1>8, <1>9, OthersRefill DEF Sharing
  <2> QED
    BY <2>1, <1>6 DEF Refilling
<1>16. Sharing(g)'
  BY <1>11, <1>12, <1>13, <1>14, <1>15 DEF Sharing
<1>17. Tables'
  BY <1>0, <1>2 DEF DataInv, Tables, LoopIds
<1> QED
  BY <1>0, <1>1, <1>4, <1>6, <1>7, <1>16, <1>17, TakeData


\* The thread gets the node's next batch and takes its chunk of it.
LEMMA RefilledData ==
  ASSUME NoProbes, NoOverflow, CountInv, NEW t \in Threads, Takes(t), pc[t] \in {"add", "cas"},
         UNCHANGED <<start, flagged>>,
         NEW top \in Nat, gws.next < top, top <= gws.end, Refilled(t, gws.next, top),
         NEW nx \in Nat, gws' = [gws EXCEPT !.next = nx], top <= nx, nx = top \/ top = gws.end,
         gws.mode => nx = gws.next + NodeChunk(t),
         ~gws.mode => nx <= gws.end
  PROVE  DataInv'
<1> DEFINE n == NodeOf[t]
<1>0. /\ SyncInv /\ LockInv /\ Types /\ n \in Nodes /\ t \in ThreadsOf(n)
      /\ batch \in [Threads -> Int]
  BY ThreadTypes DEF CountInv, SyncInv, Types
<1>1. PICK g \in LoopIds : g = loop[t] /\ Dynamic(g)
  BY <1>0, TakesDynamic
<1>2. /\ NodeOn(n, g) /\ Sharing(g) /\ LoopsKept /\ UNCHANGED Loops /\ DataInv
      /\ ws[n].chunk = Loops[g].chunk
  BY <1>0, <1>1, TakeFacts
<1>3. /\ \A u \in Threads \ {t} : pc'[u] = pc[u] /\ (EndedWork(u)' <=> EndedWork(u))
      /\ EndedWork(t)' <=> pc'[t] = "end"
  BY <1>0, <1>1, TakeFacts
<1>3a. \A u \in ThreadsOf(n) : EndedWork(u) => ws[n].completed /\ ws[n].next = ws[n].end
  BY <1>0, <1>1, TakeFacts
<1>4. /\ mutex[n] = t /\ NodeChunk(t) = Loops[g].chunk * ThreadsPerNode(n)
      /\ NodeChunk(t) \in Nat /\ ~ws[n].completed /\ ws[n].next = ws[n].end
      /\ gws.next \in Nat /\ gws.end = Loops[g].end /\ Loops[g].end \in Nat
      /\ Loops[g].end <= LONG_MAX /\ LONG_MAX \in Int
      /\ ws[n].next \in Nat
  BY <1>1, RefillFacts
<1>5. \A m \in Nodes : NodeOn(m, g)' <=> NodeOn(m, g)
  BY <1>2, NodeOnKept
<1>6. gws'.mode = gws.mode /\ gws'.end = gws.end /\ gws'.next = nx
  BY <1>0 DEF Types
<1>7. PICK from \in Nat : from = gws.next
  BY <1>4
<1>8. PICK to \in from + 1 .. top :
        /\ ws'[n].next = to /\ ws'[n].end = top
        /\ ws'[n].completed = ws[n].completed
        /\ \A m \in Nodes \ {n} : ws'[m] = ws[m]
        /\ Give(loop[t], from, to) /\ batch' = [batch EXCEPT ![t] = to]
        /\ pc' = [pc EXCEPT ![t] = "last"]
  <2>1. from < top /\ top <= LONG_MAX
    BY <1>4, <1>7
  <2>2. 1 <= ws[n].chunk
    BY <1>0, <1>2, LoopTypes
  <2>3. TakeFrom(t, [ws[n] EXCEPT !.next = from, !.end = top])
    BY <1>7 DEF Refilled
  <2> QED
    BY <2>1, <2>2, <2>3, <1>0, TakeFromTakes
<1>9. pc'[t] = "last"
  BY <1>0, <1>8 DEF Types
<1>10. ASSUME NEW m \in Nodes, NEW i \in Held(m, g) PROVE i < from /\ m # n
  <2>1. i \in ws[m].next .. ws[m].end - 1 /\ NodeOn(m, g)
    BY DEF Held
  <2>2. ws[m].next \in Int /\ ws[m].end \in Int
    BY <1>0 DEF Types
  <2>3. ws[m].end <= gws.next
    BY <2>1, <1>2 DEF Sharing, NodeRange
  <2> QED
    BY <2>1, <2>2, <2>3, <1>4, <1>7
<1>11. /\ Partition(g)' /\ Flags(g)' /\ Tables'
       /\ \A l \in LoopIds \ {g} : /\ given'[l] = given[l] /\ twice'[l] = twice[l]
                                   /\ flagged'[l] = flagged[l]
  <2>1. Held(n, g) \subseteq from .. top - 1
    BY <1>0, <1>10
  <2>2. \A i \in from .. top - 1 :
           i \notin given[g] /\ \A m \in Nodes \ {n} : i \notin Held(m, g)
    <3>1. \A i \in given[g] : i < from /\ i \in Int
      BY <1>2, <1>4, <1>7 DEF Sharing, Partition, Iterations
    <3> QED
      BY <3>1, <1>10
  <2>3. Tables /\ Give(g, from, to) /\ UNCHANGED <<Loops, flagged>>
    BY <1>1, <1>2, <1>8 DEF DataInv
  <2>4. /\ pc[t] # "last" /\ pc'[t] = "last"
        /\ ws'[n].next = to /\ ws'[n].end = top
        /\ \A m \in Nodes \ {n} : ws'[m] = ws[m]
    BY <1>8, <1>9
  <2>5. /\ to \in from + 1 .. top /\ top <= Loops[g].end /\ top <= gws'.next
        /\ gws.next <= gws'.next /\ gws'.next \in Nat
        /\ \A i \in Iterations(g) : i < gws'.next => i < gws.next \/ i \in from .. top - 1
    BY <1>4, <1>6, <1>7 DEF Iterations
  <2> QED
    BY <2>1, <2>2, <2>3, <2>4, <2>5, <1>0, <1>2, <1>3, <1>4, <1>5, <1>8, TakenShare
<1>12. Drained(g)' = Drained(g)
  <2>1. \A u \in Threads : ws'[NodeOf[u]].completed = ws[NodeOf[u]].completed
                           /\ NodeOf[u] \in Nodes
    BY <1>0, <1>8, ThreadTypes
  <2> QED
    BY <2>1, <1>5 DEF Drained
<1>13. GlobalRange(g)'
  <2> DEFINE C == Loops[g].chunk
             D == Cardinality(Drained(g))
             k == ThreadsPerNode(n)
             E == Loops[g].end
  <2>0. Loops'[g].end = E /\ Loops'[g].chunk = C /\ Cardinality(Drained(g))' = D
    BY <1>2, <1>12
  <2>1. D \in Nat
    BY <1>0, <1>4, DrainedCard
  <2>2. C \in Nat /\ E \in Nat
    BY <1>0, LoopTypes
  <2>3. ~gws'.mode => gws'.next <= Loops'[g].end
    BY <2>0, <1>4, <1>6
  <2>4. ASSUME gws'.mode
        PROVE  gws'.next < Loops'[g].end + Loops'[g].chunk * ThreadsPerNode(n)
                             + Loops'[g].chunk * Cardinality(Drained(g))'
    <3>1. gws.next < E
      BY <1>4
    <3>2. gws'.next = gws.next + C * k
      BY <2>4, <1>4, <1>6
    <3>3. C * k \in Nat
      BY <1>4
    <3> HIDE DEF C, D, k, E
    <3>4. C * D \in Nat
      BY <2>1, <2>2
    <3>5. gws'.next < E + C * k + C * D
      BY <3>1, <3>2, <3>3, <3>4, <2>2, <1>4
    <3> QED
      BY <3>5, <2>0 DEF k
  <2>5. gws'.next \in Nat
    BY <1>6
  <2> QED
    BY <2>3, <2>4, <2>5, <1>0 DEF GlobalRange
<1>14. \A m \in Nodes : NodeRange(m, g)'
  <2>1. NodeRange(n, g)'
    <3>1. to \in Nat /\ to <= top
      BY <1>7
    <3>2. top <= Loops'[g].end /\ top <= gws'.next /\ ~ws'[n].completed
      BY <1>2, <1>4, <1>6, <1>8
    <3> QED
      BY <3>1, <3>2, <1>8 DEF NodeRange
  <2>2. ASSUME NEW m \in Nodes \ {n} PROVE NodeRange(m, g)'
    <3>1. NodeRange(m, g) /\ ws'[m] = ws[m] /\ Loops'[g].end = Loops[g].end
      BY <1>2, <1>8 DEF Sharing
    <3>2. ws[m].end \in Int /\ gws.next \in Nat /\ gws.next <= gws'.next /\ gws'.next \in Nat
      BY <1>0, <1>4, <1>6 DEF Types
    <3>3. ws[m].end <= gws.next => ws[m].end <= gws'.next
      BY <3>2
    <3>4. gws.next >= Loops[g].end => gws'.next >= Loops[g].end
      BY <3>2, <1>4
    <3> QED
      BY <3>1, <3>3, <3>4, <1>5 DEF NodeRange
  <2> QED
    BY <2>1, <2>2
<1>15. \A u \in Threads : Refilling(u)'
  <2>1. gws'.next \in Nat /\ gws.next <= gws'.next
    BY <1>4, <1>6
  <2>2. \A u \in Threads \ {t} : Refilling(u)'
    BY <2>1, <1>0, <1>2, <1>3, <1>4, <1>6, <1>8, OthersRefill DEF Sharing
  <2> QED
    BY <2>2, <1>9 DEF Refilling
<1>16. Sharing(g)'
  BY <1>11, <1>13, <1>14, <1>15 DEF Sharing
<1>17. \A u \in ThreadsOf(n) : ~EndedWork(u)'
  BY <1>3, <1>3a, <1>4, <1>9 DEF ThreadsOf
<1> QED
  BY <1>0, <1>1, <1>8, <1>9, <1>11, <1>16, <1>17, TakeData

\* A thread turns to the global work share with one addition.
LEMMA AddNextData ==
  ASSUME NoProbes, NoOverflow, CountInv, NEW t \in Threads, AddNext(t)
  PROVE  DataInv'
<1>0. /\ Takes(t) /\ pc[t] = "add" /\ Types /\ UNCHANGED <<start, flagged>>
      /\ gws' = [gws EXCEPT !.next = Long(gws.next + NodeChunk(t))]
      /\ IF gws.next >= gws.end THEN NothingLeft(t)
         ELSE Refilled(t, gws.next, IF Long(gws.next + NodeChunk(t)) > gws.end THEN gws.end
                                    ELSE Long(gws.next + NodeChunk(t)))
  BY DEF CountInv, SyncInv, AddNext, Takes
<1>1. PICK g \in LoopIds : g = loop[t] /\ Dynamic(g)
  BY <1>0, TakesDynamic
<1>2. gws.mode
  <2>1. Sharing(g)
    BY <1>0, <1>1, TakeFacts
  <2> QED
    BY <2>1, <1>0 DEF Sharing, Refilling
<1>3. /\ NodeChunk(t) \in Nat /\ 1 <= NodeChunk(t) /\ gws.next \in Nat
      /\ gws.next + NodeChunk(t) <= LONG_MAX /\ LONG_MAX \in Int
      /\ gws.end \in Nat
  BY <1>0, <1>1, <1>2, RefillFacts
<1>4. PICK nx \in Nat : nx = gws.next + NodeChunk(t)
  BY <1>3
<1>5. Long(gws.next + NodeChunk(t)) = nx
  BY <1>3, <1>4, LongExact
<1>6. CASE gws.next >= gws.end
  BY <1>0, <1>2, <1>4, <1>5, <1>6, NothingLeftData
<1>7. CASE ~(gws.next >= gws.end)
  <2>1. PICK top \in Nat : top = IF nx > gws.end THEN gws.end ELSE nx
    BY <1>3
  <2>2. /\ gws.next < top /\ top <= gws.end /\ top <= nx /\ (nx = top \/ top = gws.end)
    BY <2>1, <1>3, <1>4, <1>7
  <2>3. Refilled(t, gws.next, top)
    BY <2>1, <1>0, <1>5, <1>7
  <2>4. gws' = [gws EXCEPT !.next = nx]
    BY <1>0, <1>5
  <2> QED
    BY <2>2, <2>3, <2>4, <1>0, <1>2, <1>4, RefilledData
<1> QED
  BY <1>6, <1>7


\* The counter moved since the thread read it: it tries again.
LEMMA CasRetryData ==
  ASSUME NoProbes, CountInv, NEW t \in Threads, Takes(t), pc[t] = "cas",
         start' = [start EXCEPT ![t] = gws.next],
         UNCHANGED <<pc, gws, ws, mutex, batch, given, twice, flagged>>
  PROVE  DataInv'
<1> DEFINE n == NodeOf[t]
<1>0. SyncInv /\ LockInv /\ Types /\ n \in Nodes /\ t \in ThreadsOf(n)
  BY ThreadTypes DEF CountInv, SyncInv
<1>1. PICK g \in LoopIds : g = loop[t] /\ Dynamic(g)
  BY <1>0, TakesDynamic
<1>2. NodeOn(n, g) /\ Sharing(g) /\ LoopsKept /\ UNCHANGED Loops /\ DataInv
  BY <1>0, <1>1, TakeFacts
<1>3. /\ \A u \in Threads \ {t} : pc'[u] = pc[u] /\ (EndedWork(u)' <=> EndedWork(u))
      /\ (EndedWork(t)' <=> pc'[t] = "end") /\ ~EndedWork(t)
  BY <1>0, <1>1, TakeFacts
<1>4. \A u \in ThreadsOf(n) : EndedWork(u) => ws[n].completed /\ ws[n].next = ws[n].end
  BY <1>0, <1>1, TakeFacts
<1>5. \A m \in Nodes : NodeOn(m, g)' <=> NodeOn(m, g)
  BY <1>2, NodeOnKept
<1>6. \A m \in Nodes : Held(m, g)' = Held(m, g) /\ NodeRange(m, g)'
  BY <1>2, <1>5 DEF Held, NodeRange, Sharing
<1>7. Drained(g)' = Drained(g)
  BY <1>0, <1>5, ThreadTypes DEF Drained
<1>8. gws.next \in Nat
  BY <1>2 DEF Sharing, GlobalRange
<1>9. \A u \in Threads : Refilling(u)'
  <2>1. start'[t] = gws.next /\ \A u \in Threads \ {t} : start'[u] = start[u]
    BY <1>0 DEF Types
  <2>2. \A u \in Threads : start'[u] = start[u] \/ start'[u] = gws.next
    BY <2>1
  <2> QED
    BY <2>2, <1>2, <1>8 DEF Sharing, Refilling
<1>10. Sharing(g)'
  BY <1>2, <1>6, <1>7, <1>9, SharingKept
<1>11. Tables'
  BY <1>2 DEF DataInv, Tables, LoopIds
<1>12. \A u \in ThreadsOf(n) : EndedWork(u)' => ws'[n].completed /\ ws'[n].next = ws'[n].end
  BY <1>3, <1>4 DEF ThreadsOf
<1> QED
  BY <1>0, <1>1, <1>10, <1>11, <1>12, TakeData

\* A thread turns to the global work share with a compare-and-swap.
LEMMA CasNextData ==
  ASSUME NoProbes, NoOverflow, CountInv, NEW t \in Threads, CasNext(t)
  PROVE  DataInv'
<1> DEFINE left == Long(gws.end - start[t])
           nend == Long(start[t] + (IF NodeChunk(t) > left THEN left ELSE NodeChunk(t)))
<1>0. Takes(t) /\ pc[t] = "cas" /\ Types /\ UNCHANGED flagged
  BY DEF CountInv, SyncInv, CasNext, Takes
<1>1. \/ start[t] = gws.end /\ NothingLeft(t) /\ UNCHANGED <<gws, start>>
      \/ /\ start[t] # gws.end /\ gws.next = start[t] /\ gws' = [gws EXCEPT !.next = nend]
         /\ Refilled(t, start[t], nend) /\ UNCHANGED start
      \/ /\ start' = [start EXCEPT ![t] = gws.next]
         /\ UNCHANGED <<pc, gws, ws, mutex, batch, given, twice>>
  BY DEF CasNext
<1> HIDE DEF nend
<1>2. PICK g \in LoopIds : g = loop[t] /\ Dynamic(g)
  BY <1>0, TakesDynamic
<1>3. ~gws.mode /\ start[t] \in 0 .. gws.next /\ gws.next <= Loops[g].end
  <2>1. Sharing(g)
    BY <1>0, <1>2, TakeFacts
  <2> QED
    BY <2>1, <1>0 DEF Sharing, Refilling, GlobalRange
<1>4. /\ NodeChunk(t) \in Nat /\ 1 <= NodeChunk(t) /\ gws.next \in Nat
      /\ gws.end = Loops[g].end /\ gws.end \in Nat /\ gws.end <= LONG_MAX
  BY <1>0, <1>2, RefillFacts
<1>5. CASE start[t] = gws.end /\ NothingLeft(t) /\ UNCHANGED <<gws, start>>
  <2>1. gws.next >= gws.end
    BY <1>3, <1>4, <1>5
  <2> QED
    BY <2>1, <1>0, <1>3, <1>5, NothingLeftData
<1>6. CASE /\ start[t] # gws.end /\ gws.next = start[t] /\ gws' = [gws EXCEPT !.next = nend]
           /\ Refilled(t, start[t], nend) /\ UNCHANGED start
  <2>1. gws.next < gws.end
    BY <1>3, <1>4, <1>6
  <2>2. Long(gws.next + (IF NodeChunk(t) > Long(gws.end - gws.next) THEN Long(gws.end - gws.next)
                         ELSE NodeChunk(t))) \in gws.next + 1 .. gws.end
    <3>1. PICK next \in Nat, end \in Nat, chunk \in Int :
            next = gws.next /\ end = gws.end /\ chunk = NodeChunk(t)
      BY <1>4
    <3>2. next < end /\ end <= LONG_MAX /\ 1 <= chunk
      BY <3>1, <2>1, <1>4
    <3>3. Long(next + (IF chunk > Long(end - next) THEN Long(end - next) ELSE chunk))
            \in next + 1 .. end
      BY <3>2, ChunkTaken
    <3> QED
      BY <3>1, <3>3
  <2>3. nend \in gws.next + 1 .. gws.end
    BY <2>2, <1>6 DEF nend
  <2>4. PICK top \in Nat : top = nend
    BY <2>3, <1>4
  <2>5. gws.next < top /\ top <= gws.end
    BY <2>3, <2>4, <1>4
  <2>6. Refilled(t, gws.next, top) /\ gws' = [gws EXCEPT !.next = top]
    BY <2>4, <1>6
  <2> QED
    BY <2>5, <2>6, <1>0, <1>3, <1>6, RefilledData
<1>7. CASE /\ start' = [start EXCEPT ![t] = gws.next]
           /\ UNCHANGED <<pc, gws, ws, mutex, batch, given, twice>>
  BY <1>0, <1>7, CasRetryData
<1> QED
  BY <1>1, <1>5, <1>6, <1>7


-----------------------------------------------------------------------------
(* The invariant holds                                                     *)

\* Every step keeps the account of the iterations.
LEMMA StepData ==
  ASSUME NoProbes, NoOverflow, CountInv, NEW t \in Threads, Steps(t)
  PROVE  DataInv'
<1>1. CASE InitNode(t)
  BY <1>1, InitNodeData
<1>2. CASE InitGlobal(t)
  BY <1>2, InitGlobalData
<1>3. CASE FoundGlobal(t) \/ SetGlobal(t) \/ SetNode(t) \/ FoundNode(t)
  BY <1>3, OwnerData
<1>4. CASE NextLocal(t)
  BY <1>4, NextLocalData
<1>5. CASE NextExhausted(t) \/ NextRefill(t)
  BY <1>5, NextEmptyData
<1>6. CASE AddNext(t)
  BY <1>6, AddNextData
<1>7. CASE CasNext(t)
  BY <1>7, CasNextData
<1>8. CASE Last(t)
  BY <1>8, LastData
<1>9. CASE StaticNext(t)
  BY <1>9, StaticNextData
<1>10. CASE FinishGlobal(t)
  BY <1>10, FinishGlobalData
<1>11. CASE GlobalBarrier(t)
  BY <1>11, GlobalBarrierData, SyncData
<1>12. CASE NodeBarrier(t)
  BY <1>12, NodeBarrierData, SyncData
<1>13. CASE SelectLeader(t) \/ FinishNode(t) \/ SelectGlobalLeader(t) \/ GlobalReleased(t)
            \/ Cleanup(t) \/ NodeReleased(t)
  BY <1>13, SyncData
<1> QED
  BY <1>1, <1>2, <1>3, <1>4, <1>5, <1>6, <1>7, <1>8, <1>9, <1>10, <1>11, <1>12, <1>13 DEF Steps

\* At the start every loop is untouched.
LEMMA InitData ==
  ASSUME NoProbes, Init
  PROVE  DataInv
<1>0. SyncInv /\ Types
  BY InitSync DEF SyncInv
<1>1. /\ pc = [t \in Threads |-> "init"] /\ loop = [t \in Threads |-> 1] /\ gwsLock = "null"
      /\ given = [l \in LoopIds |-> {}] /\ twice = [l \in LoopIds |-> {}]
      /\ flagged = [l \in LoopIds |-> 0]
  BY DEF Init
<1>2. \A t \in Threads : /\ pc[t] = "init" /\ Cur(t) = 1 /\ Outside(t) /\ NodeOf[t] \in Nodes
  BY <1>0, <1>1, ThreadTypes DEF Cur, Freed, Outside, WorkPCs
<1>3. \A t \in Threads : ~Past(NodeOf[t])
  BY <1>0, <1>2, OutsideFacts
<1>4. LoopIds \subseteq Nat \ {0}
  BY <1>0, LoopTypes
<1>5. \A l \in LoopIds : given[l] = {} /\ twice[l] = {} /\ flagged[l] = 0
  BY <1>1
<1>6. Tables
  BY <1>1 DEF Tables
<1>7. ASSUME NEW l \in LoopIds PROVE StaticGiven(l)
  <2>1. \A u \in Threads : ~Through(u, l)
    BY <1>2, <1>4 DEF Through, EndedWork
  <2>2. {u \in Threads : Through(u, l)} = {}
    BY <2>1
  <2>3. UNION {Part(Loops[l], t) : t \in {u \in Threads : Through(u, l)}} = {}
    BY <2>2
  <2> QED
    BY <2>3, <1>5 DEF StaticGiven
<1>8. ASSUME NEW l \in LoopIds PROVE Account(l)
  <2>1. \A t \in Threads : ~Ended(t, l)
    BY <1>2, <1>3, <1>4 DEF Ended
  <2>2. ~Armed
    BY <1>1 DEF Armed
  <2>3. ~GlobalClosed
    <3>1. PICK n \in Nodes : TRUE
      BY WorkshareAssumption
    <3>2. ~NodeArrives(n)
      BY <1>2 DEF NodeArrives, GParked, ThreadsOf
    <3> QED
      BY <3>2 DEF GlobalClosed
  <2>4. Untouched(l)
    BY <1>5 DEF Untouched
  <2> QED
    BY <2>1, <2>2, <2>3, <2>4 DEF Account
<1>9. \A t \in Threads : Leaves(t) /\ Enters(t)
  BY <1>2 DEF Leaves, Enters, EndedWork
<1> QED
  BY <1>6, <1>7, <1>8, <1>9 DEF DataInv

\* A step that changes nothing.
LEMMA StutterData ==
  ASSUME NoProbes, SyncInv, DataInv, UNCHANGED vars
  PROVE  DataInv'
<1>1. /\ UNCHANGED <<Loops, gwsLock, ws, gws, bar, gbar, gen, pc, loop>>
      /\ UNCHANGED <<given, twice, flagged, batch, start>> /\ LoopIds' = LoopIds
  BY DEF vars, shares, sync, progress, LoopIds
<1>2. \A u \in Threads : /\ Cur(u)' = Cur(u)
                         /\ Between(u)' <=> Between(u)
                         /\ Parked(u)' <=> Parked(u)
                         /\ Outside(u)' <=> Outside(u)
                         /\ GFreed(u)' <=> GFreed(u)
                         /\ GParked(u)' <=> GParked(u)
  BY <1>1 DEF Cur, Between, Parked, Freed, Outside, GFreed, GParked
<1>3. \A n \in Nodes : /\ Past(n)' <=> Past(n)
                       /\ NodeArrives(n)' <=> NodeArrives(n)
                       /\ Unstarted(n)' <=> Unstarted(n)
  BY <1>1, <1>2 DEF Past, NodeArrives, Closed, Unstarted, ThreadsOf
<1>4. \A u \in Threads, k \in LoopIds : Dynamic(k) => (Ended(u, k)' <=> Ended(u, k))
  <2>1. \A u \in Threads : NodeOf[u] \in Nodes
    BY ThreadTypes DEF SyncInv
  <2> QED
    BY <2>1, <1>2, <1>3 DEF Ended
<1>5. LoopsKept
  BY <1>1, <1>2, <1>3, <1>4 DEF LoopsKept, EndsKept, GlobalClosed
<1>6. Armed' <=> Armed
  BY <1>1 DEF Armed
<1>7. \A u \in Threads : EndedWork(u)' <=> EndedWork(u)
  BY <1>1, <1>2 DEF EndedWork
<1> QED
  BY <1>1, <1>5, <1>6, <1>7, DataKept

\* The iterations, in every state: those of a dynamic loop below the global
\* counter are given out or held by one node, the counter stays where a long
\* can hold it, a dynamic loop is untouched before it is armed and complete
\* once it has ended, and a static loop has given its parts to the threads that
\* are through with it.
THEOREM IterationsAccounted == Spec => [](NoProbes /\ NoOverflow => CountInv)
<1>1. Init => (NoProbes /\ NoOverflow => CountInv)
  BY InitSync, InitLockInv, InitData DEF CountInv
<1>2. (NoProbes /\ NoOverflow => CountInv) /\ [Next]_vars => (NoProbes /\ NoOverflow => CountInv)'
  <2> SUFFICES ASSUME NoProbes, NoOverflow, CountInv, [Next]_vars PROVE CountInv'
    BY SameHypotheses
  <2>0. SyncInv /\ LockInv /\ DataInv /\ Types
    BY DEF CountInv, SyncInv
  <2>1. CASE UNCHANGED vars
    BY <2>0, <2>1, StutterSync, StutterLockInv, StutterData DEF CountInv
  <2>2. ASSUME NEW t \in Threads, ThreadStep(t) PROVE CountInv'
    <3>1. Steps(t)
      BY <2>0, <2>2, OnlySteps
    <3> QED
      BY <2>0, <3>1, StepSync, StepLockInv, StepData DEF CountInv
  <2> QED
    BY <2>1, <2>2 DEF Next, Done
<1> QED
  BY <1>1, <1>2, PTL DEF Spec

-----------------------------------------------------------------------------
(* What it says of the loops                                               *)

\* Every dynamic loop is complete, untouched or being shared out.
LEMMA Stages ==
  ASSUME NoProbes, CountInv, NEW l \in LoopIds, Dynamic(l)
  PROVE  Complete(l) \/ Untouched(l) \/ Sharing(l)
<1>0. SyncInv /\ LockInv /\ Types /\ Account(l) /\ LoopIds = 1 .. Len(Loops) /\ Len(Loops) \in Nat
  BY LoopTypes DEF CountInv, SyncInv, DataInv
<1>1. CASE \E t \in Threads : Ended(t, l)
  BY <1>0, <1>1 DEF Account
<1>2. CASE (\A t \in Threads : ~Ended(t, l)) /\ Is(l) /\ GlobalClosed
  <2>1. PICK n \in Nodes : TRUE
    BY WorkshareAssumption
  <2>2. PICK t \in ThreadsOf(n) : pc[t] = "gbar" \/ GParked(t)
    BY <1>2 DEF GlobalClosed, NodeArrives
  <2>3. t \in Threads /\ NodeOf[t] = n /\ pc[t] \in {"gbar", "gwait"} /\ Leading(t)
    BY <2>2 DEF ThreadsOf, GParked, Leading, LeaderPCs
  <2>4. PICK k \in LoopIds : k = loop[t] /\ k = Cur(t) /\ Dynamic(k)
    BY <1>0, <2>3, ThreadTypes DEF LockInv, Kind, Dynamic, Cur, Freed
  <2>5. ~Past(n)
    <3>1. ~Closed(n)
      BY <2>2, <2>3 DEF Closed, Parked
    <3>2. \A u \in ThreadsOf(n) \ {t} : pc[u] \in {"bar", "wait"}
      BY <1>0, <2>3 DEF SyncInv, NodeSync, LeaderAlone, Parked
    <3>3. ~GFreed(t)
      BY <2>2, <2>3 DEF GParked, GFreed
    <3> QED
      BY <3>1, <3>2, <3>3, <2>3 DEF Past, GFreed
  <2>6. ~Ended(t, k) /\ ~Ended(t, l)
    BY <1>2, <2>3, <2>4, <2>5, <1>0 DEF Ended
  <2>7. ~(k < l) /\ ~(l < k)
    BY <1>2, <2>3, <2>4, <2>6 DEF Is, Ended
  <2>8. Cur(t) = l
    BY <2>4, <2>7, <1>0
  <2> QED
    BY <1>0, <1>2, <2>3, <2>8 DEF Account
<1>3. CASE (\A t \in Threads : ~Ended(t, l)) /\ Is(l) /\ Armed
  BY <1>0, <1>3 DEF Account
<1>4. CASE (\A t \in Threads : ~Ended(t, l)) /\ (Is(l) => ~Armed /\ ~GlobalClosed)
  BY <1>0, <1>4 DEF Account
<1> QED
  BY <1>1, <1>2, <1>3, <1>4

\* No iteration of a loop is given to two threads or twice to one, and none
\* that the loop does not have.
THEOREM IterationsOnce == Spec => [](NoProbes /\ NoOverflow => EachIterationOnce)
<1>1. NoProbes /\ CountInv => EachIterationOnce
  <2> SUFFICES ASSUME NoProbes, CountInv, NEW l \in LoopIds
               PROVE  given[l] \subseteq Iterations(l) /\ twice[l] = {}
    BY DEF EachIterationOnce
  <2>0. SyncInv /\ Types /\ StaticGiven(l)
    BY DEF CountInv, SyncInv, DataInv
  <2>1. CASE Dynamic(l)
    <3>1. CASE Complete(l)
      BY <3>1 DEF Complete
    <3>2. CASE Untouched(l)
      BY <3>2 DEF Untouched
    <3>3. CASE Sharing(l)
      BY <3>3 DEF Sharing, Partition
    <3> QED
      BY <2>1, <3>1, <3>2, <3>3, Stages
  <2>2. CASE ~Dynamic(l)
    <3>1. Sched(l) = "static"
      BY <2>0, <2>2, LoopTypes DEF Dynamic
    <3>2. /\ given[l] = UNION {Part(Loops[l], t) : t \in {u \in Threads : Through(u, l)}}
          /\ twice[l] = {}
      BY <2>0, <3>1 DEF StaticGiven
    <3>3. UNION {Part(Loops[l], v) : v \in Threads} = Iterations(l)
      BY <2>0, <3>1, PartsCover
    <3> QED
      BY <3>2, <3>3
  <2> QED
    BY <2>1, <2>2
<1> QED
  BY <1>1, IterationsAccounted, PTL

\* A thread is done after the last loop.
LastLoop == \A t \in Threads : pc[t] = "done" => loop[t] = Len(Loops)

\* No thread is done before.
LEMMA DoneAtLast == Spec => [](NoProbes => LastLoop)
<1>1. Init => (NoProbes => LastLoop)
  BY DEF Init, LastLoop
<1>2. (NoProbes => SyncInv) /\ (NoProbes => LastLoop) /\ [Next]_vars => (NoProbes => LastLoop)'
  <2> SUFFICES ASSUME NoProbes, SyncInv, LastLoop, [Next]_vars PROVE LastLoop'
    BY SameProbes
  <2>1. CASE UNCHANGED vars
    BY <2>1 DEF LastLoop, vars
  <2>2. ASSUME NEW t \in Threads, ThreadStep(t) PROVE LastLoop'
    <3>1. Types /\ Steps(t)
      BY <2>2, OnlySteps DEF SyncInv
    <3>2. CASE Works(t)
      BY <3>1, <3>2, WorkControl DEF AtWork, LastLoop, Types
    <3>3. CASE NodeReleased(t)
      <4>1. /\ \A u \in Threads \ {t} : pc'[u] = pc[u] /\ loop'[u] = loop[u]
            /\ Loops' = Loops
        BY <3>3, NodeReleasedControl, SyncControl
      <4>2. pc'[t] = "done" => loop[t] = Len(Loops) /\ loop'[t] = loop[t]
        BY <3>1, <3>3, NodeReleasedIs DEF Types
      <4> QED
        BY <4>1, <4>2 DEF LastLoop
    <3>4. CASE ~Works(t) /\ ~NodeReleased(t)
      <4>1. UNCHANGED <<Loops, loop>> /\ \A u \in Threads \ {t} : pc'[u] = pc[u]
        BY <3>1, <3>4, SyncControl
           DEF Steps, Works, SelectLeader, FinishNode, SelectGlobalLeader, FinishGlobal,
               GlobalBarrier, GlobalReleased, Cleanup, NodeBarrier
      <4>2. pc'[t] # "done"
        BY <3>1, <3>4
           DEF Steps, Works, SelectLeader, FinishNode, SelectGlobalLeader, FinishGlobal,
               GlobalBarrier, GlobalReleased, Cleanup, NodeBarrier, Goto, Types
      <4> QED
        BY <4>1, <4>2 DEF LastLoop
    <3> QED
      BY <3>2, <3>3, <3>4
  <2> QED
    BY <2>1, <2>2 DEF Next, Done
<1> QED
  BY <1>1, <1>2, Synchronised, PTL DEF Spec

\* A thread that has left a loop: with a dynamic one all have, with a static one
\* all of its node are through.
LEMMA LeftFacts ==
  ASSUME NoProbes, CountInv, LastLoop, NEW t \in Threads, NEW l \in LoopIds, Left(t, l)
  PROVE  Ended(t, l) /\ \A u \in ThreadsOf(NodeOf[t]) : Through(u, l)
<1>0. SyncInv /\ Types /\ LoopIds = 1 .. Len(Loops) /\ Len(Loops) \in Nat
  BY LoopTypes DEF CountInv, SyncInv
<1>1. loop[t] \in LoopIds
  BY <1>0, ThreadTypes
<1>2. l < Cur(t)
  BY <1>0, <1>1 DEF Left, Cur, LastLoop
<1>3. \A u \in ThreadsOf(NodeOf[t]) : Cur(u) = Cur(t)
  BY <1>0 DEF SyncInv, NodeSync, InStep, ThreadsOf
<1> QED
  BY <1>2, <1>3 DEF Ended, Through

\* A dynamic loop ends for no thread before every iteration was given to one,
\* on whichever node; a static loop for none before the threads of its node
\* have taken theirs.
THEOREM LoopsComplete == Spec => [](NoProbes /\ NoOverflow => LoopComplete)
<1>1. NoProbes /\ CountInv /\ LastLoop => LoopComplete
  <2> SUFFICES ASSUME NoProbes, CountInv, LastLoop, NEW l \in LoopIds, NEW t \in Threads, Left(t, l)
               PROVE  IF IsShared(l) THEN given[l] = Iterations(l)
                      ELSE \A u \in ThreadsOf(NodeOf[t]) : StaticPart(l, u) \subseteq given[l]
    BY DEF LoopComplete
  <2>0. Types /\ StaticGiven(l) /\ Account(l)
    BY DEF CountInv, SyncInv, DataInv
  <2>1. Ended(t, l) /\ \A u \in ThreadsOf(NodeOf[t]) : Through(u, l)
    BY LeftFacts
  <2>2. CASE Sched(l) = "dynamic"
    BY <2>0, <2>1, <2>2 DEF Account, Complete, Dynamic, IsShared
  <2>3. CASE Sched(l) = "static"
    <3>1. given[l] = UNION {Part(Loops[l], v) : v \in {u \in Threads : Through(u, l)}}
      BY <2>0, <2>3 DEF StaticGiven
    <3>2. \A u \in ThreadsOf(NodeOf[t]) : u \in Threads /\ StaticPart(l, u) = Part(Loops[l], u)
      BY <2>0, LoopTypes DEF StaticPart, ThreadsOf
    <3>3. \A u \in ThreadsOf(NodeOf[t]) : StaticPart(l, u) \subseteq given[l]
      BY <2>1, <3>1, <3>2
    <3> QED
      BY <3>3, <2>3 DEF IsShared
  <2> QED
    BY <2>0, <2>2, <2>3, LoopTypes
<1> QED
  BY <1>1, IterationsAccounted, DoneAtLast, PTL

\* A dynamic loop tells exactly one thread that it has the last iteration.
THEOREM LastBatchOnce == Spec => [](NoProbes /\ NoOverflow => OneLastBatch)
<1>1. NoProbes /\ CountInv /\ LastLoop => OneLastBatch
  <2> SUFFICES ASSUME NoProbes, CountInv, LastLoop, NEW l \in LoopIds, IsShared(l)
               PROVE  /\ flagged[l] <= 1
                      /\ (\E t \in Threads : Left(t, l)) => flagged[l] = 1
    BY DEF OneLastBatch
  <2>0. Dynamic(l) /\ Account(l)
    BY LoopTypes DEF CountInv, SyncInv, DataInv, Dynamic
  <2>1. flagged[l] <= 1
    <3>1. CASE Sharing(l)
      <4>1. flagged[l] \in {0, 1}
        BY <3>1 DEF Sharing, Flags
      <4> QED
        BY <4>1
    <3>2. CASE Complete(l) \/ Untouched(l)
      BY <3>2 DEF Complete, Untouched
    <3> QED
      BY <2>0, <3>1, <3>2, Stages
  <2>2. ASSUME NEW t \in Threads, Left(t, l) PROVE flagged[l] = 1
    <3>1. Ended(t, l)
      BY <2>2, LeftFacts
    <3> QED
      BY <2>0, <3>1 DEF Account, Complete
  <2> QED
    BY <2>1, <2>2
<1> QED
  BY <1>1, IterationsAccounted, DoneAtLast, PTL
=============================================================================
