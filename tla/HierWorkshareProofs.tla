------------------------ MODULE HierWorkshareProofs ------------------------
(***************************************************************************)
(* Proofs about HierWorkshare for every team, placement and region without *)
(* probing loops: the synchronisation that ends a loop, the locks and      *)
(* contents of the work shares.  Two layers of invariants, SyncInv and, on *)
(* top of it, LockInv.  HierWorkshareDataProofs has the third, the         *)
(* iterations given out.                                                   *)
(***************************************************************************)
EXTENDS HierWorkshare, FiniteSetTheorems, TLAPS

\* The region has dynamic and static loops only.  It is the same in all states
\* of a behaviour.
NoProbes == \A l \in LoopIds : Loops[l].sched # "hetprobe"

LEMMA SameRegion ==
  ASSUME [Next]_vars
  PROVE  Loops' = Loops
<1>1. CASE UNCHANGED vars
  BY <1>1 DEF vars
<1>2. ASSUME NEW t \in Threads, ThreadStep(t) PROVE Loops' = Loops
  BY <1>2
     DEF ThreadStep, InitNode, InitGlobal, InitGlobalProbe, FoundGlobal, SetGlobal, SetNode,
         FoundNode, NextLocal, NextExhausted, NextRefill, AddNext, CasNext, Last, Probe,
         StaticNext, SelectLeader, FinishNode, SelectGlobalLeader, FinishGlobal, Rate,
         TakeSplit, GlobalBarrier, GlobalReleased, Cleanup, NodeBarrier, NodeReleased
<1> QED
  BY <1>1, <1>2 DEF Next, Done

LEMMA SameProbes ==
  ASSUME [Next]_vars
  PROVE  NoProbes' <=> NoProbes
BY SameRegion DEF NoProbes, LoopIds

-----------------------------------------------------------------------------
(* The end of a loop: control and counters                                 *)

\* Where a thread is before it enters the synchronisation, and where the
\* leader of a node is inside it.
WorkPCs == {"init", "initglobal", "setglobal", "setnode", "next", "add", "cas", "last",
            "static", "end", "done"}
LeaderPCs == {"leading", "gend", "gleading", "gbar", "gwait", "cleanup"}

\* t waits at the barrier of its node; t was released and has not noticed yet.
Parked(t) == pc[t] = "wait" /\ gen[t] = bar[NodeOf[t]].generation
Freed(t) == pc[t] = "wait" /\ gen[t] # bar[NodeOf[t]].generation
Leading(t) == pc[t] \in LeaderPCs
Outside(t) == pc[t] \in WorkPCs \/ Freed(t)
OutsideOf(n) == {t \in ThreadsOf(n) : Outside(t)}
AwayFrom(n) == {t \in ThreadsOf(n) : ~Parked(t)}

\* The leader of n has re-armed the selection: all but it wait.
Closed(n) == \A t \in ThreadsOf(n) : pc[t] = "bar" \/ Parked(t)

\* The loop a thread is in; one that was released is in the next.
Cur(t) == IF pc[t] = "done" \/ Freed(t) THEN loop[t] + 1 ELSE loop[t]

Types ==
  /\ Loops \in Regions
  /\ pc \in [Threads -> WorkPCs \cup LeaderPCs \cup {"bar", "wait"}]
  /\ gen \in [Threads -> Nat] /\ loop \in [Threads -> LoopIds]
  /\ remaining \in [Nodes -> Nat] /\ gremaining \in Nat
  /\ bar \in [Nodes -> [awaited : Nat, generation : Nat]]
  /\ gbar \in [awaited : Nat, generation : Nat]
  /\ wsLock \in [Nodes -> LockStates] /\ gwsLock \in LockStates
  /\ ws \in [Nodes -> [sched : {"static", "dynamic"}, next : Int, end : Int, chunk : Int,
                       completed : BOOLEAN]]
  /\ gws \in [sched : {"static", "dynamic"}, next : Int, end : Int, mode : BOOLEAN]
  /\ mutex \in [Nodes -> Threads \cup {None}]
  /\ probing = [t \in Threads |-> FALSE]
  /\ killed = 0
  /\ start \in [Threads -> Int] /\ batch \in [Threads -> Int]

\* The counters count: those who have not arrived, and those who have not
\* entered the selection (or all, once it is re-armed).
NodeCount(n) ==
  /\ bar[n].awaited = Cardinality(AwayFrom(n))
  /\ remaining[n] = IF Closed(n) THEN ThreadsPerNode(n) ELSE Cardinality(OutsideOf(n))

\* While a thread leads nobody of its node is outside, and past the wait for
\* the node everybody else is parked.
LeaderAlone(t) ==
  Leading(t) => \A u \in ThreadsOf(NodeOf[t]) \ {t} :
                  /\ pc[u] = "bar" \/ Parked(u)
                  /\ pc[t] # "leading" => Parked(u)
OneComesLast(n) ==
  Closed(n) => \E t \in ThreadsOf(n) : pc[t] = "bar" /\ \A u \in ThreadsOf(n) \ {t} : Parked(u)

\* The threads of a node are in the same loop.
InStep == \A t, u \in Threads : NodeOf[t] = NodeOf[u] => Cur(t) = Cur(u)

NodeSync ==
  /\ \A n \in Nodes : NodeCount(n) /\ OneComesLast(n)
  /\ \A t \in Threads : LeaderAlone(t)
  /\ InStep

\* The same for the leaders of the nodes.
GParked(t) == pc[t] = "gwait" /\ gen[t] = gbar.generation
GFreed(t) == pc[t] = "gwait" /\ gen[t] # gbar.generation
NodeParked(n) == \E t \in ThreadsOf(n) : GParked(t)
NodeArrives(n) == \E t \in ThreadsOf(n) : pc[t] = "gbar" \/ GParked(t)
NodeSelected(n) == NodeArrives(n) \/ \E t \in ThreadsOf(n) : pc[t] = "gleading"
GlobalClosed == \A n \in Nodes : NodeArrives(n)

GlobalCounts ==
  /\ gbar.awaited = Cardinality({n \in Nodes : ~NodeParked(n)})
  /\ gremaining = IF GlobalClosed THEN Cardinality(Nodes)
                  ELSE Cardinality({n \in Nodes : ~NodeSelected(n)})
OneNodeLeads ==
  /\ \A t \in Threads : pc[t] = "gleading" => \A n \in Nodes \ {NodeOf[t]} : NodeArrives(n)
  /\ GlobalClosed => \E n \in Nodes : ~NodeParked(n) /\ \A m \in Nodes \ {n} : NodeParked(m)
GlobalSync == GlobalCounts /\ OneNodeLeads

SyncInv == Types /\ NodeSync /\ GlobalSync

-----------------------------------------------------------------------------
(* Counting                                                                *)

\* The threads of a node are finite in number and at least one.
LEMMA NodeCards ==
  ASSUME NEW n \in Nodes, NEW S \in SUBSET ThreadsOf(n)
  PROVE  /\ IsFiniteSet(S) /\ Cardinality(S) \in Nat
         /\ Cardinality(S) <= ThreadsPerNode(n)
         /\ ThreadsPerNode(n) = Cardinality(ThreadsOf(n)) /\ ThreadsPerNode(n) \in Nat \ {0}
         /\ Cardinality(S) = 0 <=> S = {}
<1>1. IsFiniteSet(ThreadsOf(n)) /\ ThreadsOf(n) # {}
  BY FS_Subset, WorkshareAssumption, ThreadsOf(n) \in SUBSET Threads DEF ThreadsOf
<1>2. ThreadsPerNode(n) = Cardinality(ThreadsOf(n))
  BY DEF ThreadsPerNode
<1>3. Cardinality(ThreadsOf(n)) \in Nat \ {0}
  BY <1>1, FS_CardinalityType, FS_EmptySet
<1> QED
  BY <1>1, <1>2, <1>3, FS_Subset, FS_CardinalityType, FS_EmptySet

\* So are the nodes.
LEMMA GlobalCards ==
  ASSUME NEW S \in SUBSET Nodes
  PROVE  /\ IsFiniteSet(S) /\ Cardinality(S) \in Nat
         /\ Cardinality(S) <= Cardinality(Nodes) /\ Cardinality(Nodes) \in Nat
         /\ Cardinality(S) = 0 <=> S = {}
BY FS_Subset, FS_CardinalityType, FS_EmptySet, WorkshareAssumption

\* A set of one element that has t is {t}.
LEMMA Alone ==
  ASSUME NEW S, IsFiniteSet(S), Cardinality(S) = 1, NEW t \in S
  PROVE  S = {t}
BY FS_Singleton

\* Taking an element away counts down by one.
LEMMA Less ==
  ASSUME NEW S, IsFiniteSet(S), NEW t \in S
  PROVE  Cardinality(S \ {t}) = Cardinality(S) - 1
BY FS_RemoveElement

\* What WorkshareAssumption says of a region without probing loops.
LEMMA LoopFacts ==
  ASSUME NoProbes, Loops \in Regions
  PROVE  /\ LoopIds = 1 .. Len(Loops) /\ Len(Loops) \in Nat \ {0}
         /\ \A i \in LoopIds :
              /\ Loops[i].sched \in {"static", "dynamic"}
              /\ Loops[i].end \in 1 .. LONG_MAX /\ Loops[i].chunk \in 1 .. LONG_MAX
<1> DEFINE R == [sched : {"dynamic", "static", "hetprobe"}, end : 1 .. LONG_MAX,
                 chunk : 1 .. LONG_MAX, ident : Idents]
<1>1. Loops # <<>> /\ Loops \in Seq(R)
  BY WorkshareAssumption
<1>2. LoopIds = 1 .. Len(Loops) /\ Len(Loops) \in Nat \ {0}
      /\ \A i \in LoopIds : Loops[i] \in R
  <2> HIDE DEF R
  <2> QED
    BY <1>1 DEF LoopIds
<1> QED
  BY <1>2 DEF NoProbes

\* A long is an integer, and a number that fits stays the same.
LEMMA LongType ==
  ASSUME NEW x \in Int
  PROVE  Long(x) \in Int
BY WorkshareAssumption DEF Long

LEMMA LongExact ==
  ASSUME NEW x \in Int, -LONG_MAX <= x, x <= LONG_MAX
  PROVE  Long(x) = x
<1> DEFINE h == 2^(LongBits - 1)
<1>1. h \in Nat \ {0} /\ 2^LongBits = 2 * h /\ LONG_MAX = h - 1
  BY WorkshareAssumption DEF LONG_MAX
<1>2. Long(x) = ((x + h) % (2 * h)) - h
  BY <1>1 DEF Long
<1> HIDE DEF h
<1>3. x + h \in 0 .. 2 * h - 1
  BY <1>1
<1>4. (x + h) % (2 * h) = x + h
  BY <1>1, <1>3
<1> QED
  BY <1>1, <1>2, <1>3, <1>4

-----------------------------------------------------------------------------
(* What the actions do in regions without probing loops                    *)

\* The same for the region that runs: no loop is switched, and dynamic loops
\* are the ones that are shared out.
LEMMA LoopTypes ==
  ASSUME NoProbes, Types
  PROVE  /\ LoopIds = 1 .. Len(Loops) /\ Len(Loops) \in Nat \ {0}
         /\ \A l \in LoopIds :
              /\ Sched(l) \in {"static", "dynamic"}
              /\ Loops[l].end \in 1 .. LONG_MAX /\ Loops[l].chunk \in 1 .. LONG_MAX
         /\ \A l \in LoopIds : ~Switched(l)
         /\ \A l \in LoopIds : IsShared(l) <=> Sched(l) = "dynamic"
<1>1. Loops \in Regions /\ killed = 0
  BY DEF Types
<1>2. \A l \in LoopIds : ~Switched(l)
  BY <1>1 DEF Switched
<1>3. /\ LoopIds = 1 .. Len(Loops) /\ Len(Loops) \in Nat \ {0}
      /\ \A l \in LoopIds :
              /\ Sched(l) \in {"static", "dynamic"}
              /\ Loops[l].end \in 1 .. LONG_MAX /\ Loops[l].chunk \in 1 .. LONG_MAX
  BY <1>1, LoopFacts DEF Sched
<1> QED
  BY <1>2, <1>3 DEF IsShared

\* The types of what belongs to one thread.
LEMMA ThreadTypes ==
  ASSUME Types, NEW t \in Threads
  PROVE  /\ NodeOf[t] \in Nodes /\ t \in ThreadsOf(NodeOf[t]) /\ ThreadsOf(NodeOf[t]) \in SUBSET Threads
         /\ pc[t] \in WorkPCs \cup LeaderPCs \cup {"bar", "wait"}
         /\ loop[t] \in LoopIds /\ gen[t] \in Nat /\ probing[t] = FALSE
         /\ start[t] \in Int /\ batch[t] \in Int
         /\ bar[NodeOf[t]] \in [awaited : Nat, generation : Nat]
         /\ ws[NodeOf[t]] \in [sched : {"static", "dynamic"}, next : Int, end : Int, chunk : Int,
                               completed : BOOLEAN]
BY WorkshareAssumption DEF Types, ThreadsOf

\* The steps that remain.
Steps(t) ==
  \/ InitNode(t) \/ InitGlobal(t) \/ FoundGlobal(t) \/ SetGlobal(t) \/ SetNode(t) \/ FoundNode(t)
  \/ NextLocal(t) \/ NextExhausted(t) \/ NextRefill(t) \/ AddNext(t) \/ CasNext(t)
  \/ Last(t) \/ StaticNext(t)
  \/ SelectLeader(t) \/ FinishNode(t) \/ SelectGlobalLeader(t) \/ FinishGlobal(t)
  \/ GlobalBarrier(t) \/ GlobalReleased(t) \/ Cleanup(t) \/ NodeBarrier(t) \/ NodeReleased(t)

\* No thread probes, rates or takes a split.
LEMMA OnlySteps ==
  ASSUME NoProbes, Types, NEW t \in Threads, ThreadStep(t)
  PROVE  Steps(t)
<1>1. ~InitGlobalProbe(t)
  BY LoopTypes, ThreadTypes DEF InitGlobalProbe
<1>2. ~Probe(t)
  BY ThreadTypes DEF Probe, WorkPCs, LeaderPCs
<1>3. ~Rate(t) /\ ~TakeSplit(t)
  BY ThreadTypes DEF Rate, TakeSplit
<1> QED
  BY <1>1, <1>2, <1>3 DEF ThreadStep, Steps

\* The work share a node starts a loop with.
LEMMA NodeShareIs ==
  ASSUME NoProbes, Types, NEW n \in Nodes, NEW l \in LoopIds
  PROVE  NodeShare(n, l) = [sched |-> Sched(l), next |-> 0,
                            end |-> IF Sched(l) = "static" THEN Loops[l].end ELSE 0,
                            chunk |-> Loops[l].chunk, completed |-> FALSE]
BY LoopTypes DEF NodeShare

\* Where a thread starts a loop of each schedule.
LEMMA BeginIs ==
  ASSUME NEW t \in Threads, NEW s \in {"static", "dynamic"}, Begin(t, s)
  PROVE  pc' = [pc EXCEPT ![t] = IF s = "static" THEN "static" ELSE "next"]
BY DEF Begin, Goto

\* A node's work share does not change when its initialisation ends.
LEMMA SetNodeIs ==
  ASSUME Types, NEW t \in Threads, SetNode(t)
  PROVE  /\ pc[t] = "setnode" /\ ws' = ws
         /\ wsLock' = [wsLock EXCEPT ![NodeOf[t]] = "set"]
         /\ pc' = [pc EXCEPT ![t] = IF ws[NodeOf[t]].sched = "static" THEN "static" ELSE "next"]
         /\ UNCHANGED <<Loops, gwsLock, gws, mutex, rates, sync, probing, loop, start, progress>>
<1>1. NodeOf[t] \in Nodes /\ ws[NodeOf[t]].sched \in {"static", "dynamic"}
  BY ThreadTypes
<1>2. ws' = [ws EXCEPT ![NodeOf[t]] = ws[NodeOf[t]]] /\ Begin(t, ws[NodeOf[t]].sched)
  BY <1>1 DEF SetNode
<1>3. ws' = ws
  BY <1>2 DEF Types
<1> QED
  BY <1>1, <1>2, <1>3, BeginIs DEF SetNode

\* The leader of a node that has arrived last.
LEMMA FinishNodeIs ==
  ASSUME Types, NEW t \in Threads, FinishNode(t)
  PROVE  /\ pc[t] = "leading" /\ bar[NodeOf[t]].awaited = 1
         /\ wsLock' = [wsLock EXCEPT ![NodeOf[t]] = "null"]
         /\ pc' = [pc EXCEPT ![t] = IF ws[NodeOf[t]].sched # "static" THEN "gend" ELSE "cleanup"]
         /\ UNCHANGED <<Loops, gwsLock, ws, gws, mutex, rates, sync, probing, loop, start, progress>>
BY ThreadTypes DEF FinishNode, Goto

\* A thread notices that the barrier of its node has opened.
LEMMA NodeReleasedIs ==
  ASSUME NoProbes, Types, NEW t \in Threads, NodeReleased(t)
  PROVE  /\ Freed(t) /\ UNCHANGED <<Loops, shares, rates, sync, probing, start, progress>>
         /\ \/ /\ loop[t] < Len(Loops) /\ loop' = [loop EXCEPT ![t] = loop[t] + 1]
               /\ pc' = [pc EXCEPT ![t] = "init"]
            \/ /\ loop[t] = Len(Loops) /\ loop' = loop
               /\ pc' = [pc EXCEPT ![t] = "done"]
<1>1. probing[t] = FALSE /\ loop[t] \in 1 .. Len(Loops) /\ Len(Loops) \in Nat /\ gen[t] \in Nat
  BY ThreadTypes, LoopTypes
<1>2. probing' = probing
  BY <1>1 DEF NodeReleased, Types
<1> QED
  BY <1>1, <1>2 DEF NodeReleased, Freed, Goto

\* Taking a chunk of work share w.
LEMMA TakeFromIs ==
  ASSUME Types, NEW t \in Threads,
         NEW w \in [sched : {"static", "dynamic"}, next : Int, end : Int, chunk : Int,
                    completed : BOOLEAN],
         TakeFrom(t, w)
  PROVE  \E to \in Int :
           /\ to = Long(w.next + (IF w.chunk > Long(w.end - w.next) THEN Long(w.end - w.next)
                                                                    ELSE w.chunk))
           /\ ws' = [ws EXCEPT ![NodeOf[t]] = [w EXCEPT !.next = to]]
           /\ Give(loop[t], w.next, to)
           /\ batch' = [batch EXCEPT ![t] = to]
           /\ pc' = [pc EXCEPT ![t] = "last"]
<1> DEFINE left == Long(w.end - w.next)
           take == IF w.chunk > left THEN left ELSE w.chunk
<1>1. left \in Int /\ take \in Int
  BY LongType
<1>2. Long(w.next + take) \in Int
  <2> HIDE DEF take
  <2> QED
    BY <1>1, LongType
<1> QED
  BY <1>2 DEF TakeFrom, Goto

-----------------------------------------------------------------------------
(* Steps that leave a level of the synchronisation as it is                *)

\* A step outside the synchronisation.
LEMMA WorkStep ==
  ASSUME SyncInv, Types', NEW t \in Threads, Outside(t), pc'[t] \in WorkPCs,
         Cur(t)' = Cur(t),
         \A u \in Threads \ {t} : pc'[u] = pc[u] /\ loop'[u] = loop[u],
         UNCHANGED sync
  PROVE  SyncInv'
<1>0. UNCHANGED <<remaining, gremaining, bar, gbar, gen>>
  BY DEF sync
<1>1. /\ ~Parked(t) /\ ~Parked(t)' /\ Outside(t)' /\ ~Leading(t) /\ ~Leading(t)'
      /\ pc[t] # "bar" /\ pc'[t] # "bar"
  BY DEF Outside, Parked, Freed, Leading, WorkPCs, LeaderPCs
<1>2. \A u \in Threads \ {t} :
        /\ Parked(u)' <=> Parked(u)
        /\ Outside(u)' <=> Outside(u)
        /\ Leading(u)' <=> Leading(u)
        /\ Cur(u)' = Cur(u)
  BY <1>0 DEF Parked, Freed, Outside, Leading, Cur
<1>3. \A n \in Nodes : ThreadsOf(n) \subseteq Threads
  BY DEF ThreadsOf
<1>4. \A n \in Nodes : AwayFrom(n)' = AwayFrom(n) /\ OutsideOf(n)' = OutsideOf(n)
  BY <1>1, <1>2, <1>3 DEF AwayFrom, OutsideOf
<1>5. \A n \in Nodes : Closed(n)' <=> Closed(n)
  BY <1>1, <1>2, <1>3 DEF Closed
<1>6. \A n \in Nodes : NodeCount(n)' /\ OneComesLast(n)'
  <2> SUFFICES ASSUME NEW n \in Nodes PROVE NodeCount(n)' /\ OneComesLast(n)'
    OBVIOUS
  <2>1. NodeCount(n) /\ OneComesLast(n)
    BY DEF SyncInv, NodeSync
  <2>2. NodeCount(n)'
    BY <2>1, <1>0, <1>4, <1>5 DEF NodeCount
  <2>3. OneComesLast(n)'
    BY <2>1, <1>1, <1>2, <1>3, <1>5 DEF OneComesLast
  <2> QED
    BY <2>2, <2>3
<1>7. \A u \in Threads : LeaderAlone(u)'
  <2> SUFFICES ASSUME NEW u \in Threads, Leading(u)', NEW v \in ThreadsOf(NodeOf[u]) \ {u}
               PROVE  (pc'[v] = "bar" \/ Parked(v)') /\ (pc'[u] # "leading" => Parked(v)')
    BY DEF LeaderAlone
  <2>1. u # t /\ Leading(u) /\ LeaderAlone(u)
    BY <1>1, <1>2 DEF SyncInv, NodeSync
  <2>2. pc[v] = "bar" \/ Parked(v)
    BY <2>1 DEF LeaderAlone
  <2>3. v # t
    BY <2>2, <1>1
  <2> QED
    BY <2>1, <2>2, <2>3, <1>2, <1>3 DEF LeaderAlone, ThreadsOf
<1>8. InStep'
  BY <1>2 DEF SyncInv, NodeSync, InStep
<1>9. /\ \A u \in Threads : GParked(u)' <=> GParked(u)
      /\ \A u \in Threads : pc'[u] = "gbar" <=> pc[u] = "gbar"
      /\ \A u \in Threads : pc'[u] = "gleading" <=> pc[u] = "gleading"
  BY <1>0, <1>1 DEF GParked, Leading, LeaderPCs
<1>10. \A n \in Nodes : /\ NodeParked(n)' <=> NodeParked(n)
                        /\ NodeArrives(n)' <=> NodeArrives(n)
                        /\ NodeSelected(n)' <=> NodeSelected(n)
  BY <1>3, <1>9 DEF NodeParked, NodeArrives, NodeSelected
<1>11. GlobalClosed' <=> GlobalClosed
  BY <1>10 DEF GlobalClosed
<1>12. GlobalSync'
  <2>1. GlobalSync
    BY DEF SyncInv
  <2> QED
    BY <2>1, <1>0, <1>9, <1>10, <1>11 DEF GlobalSync, GlobalCounts, OneNodeLeads
<1> QED
  BY <1>6, <1>7, <1>8, <1>12 DEF SyncInv, NodeSync

\* A step that no leader's place at the global level changes with.
LEMMA SameGlobal ==
  ASSUME GlobalSync, UNCHANGED <<gremaining, gbar>>,
         \A u \in Threads : GParked(u)' <=> GParked(u),
         \A u \in Threads : pc'[u] = "gbar" <=> pc[u] = "gbar",
         \A u \in Threads : pc'[u] = "gleading" <=> pc[u] = "gleading"
  PROVE  GlobalSync'
<1>1. \A n \in Nodes : ThreadsOf(n) \subseteq Threads
  BY DEF ThreadsOf
<1>2. \A n \in Nodes : /\ NodeParked(n)' <=> NodeParked(n)
                       /\ NodeArrives(n)' <=> NodeArrives(n)
                       /\ NodeSelected(n)' <=> NodeSelected(n)
  BY <1>1 DEF NodeParked, NodeArrives, NodeSelected
<1>3. GlobalClosed' <=> GlobalClosed
  BY <1>2 DEF GlobalClosed
<1> QED
  BY <1>2, <1>3 DEF GlobalSync, GlobalCounts, OneNodeLeads

\* A step of a leader at the global level.
LEMMA SameNodes ==
  ASSUME Types, Types', NodeSync, UNCHANGED <<remaining, bar, loop>>, NEW t \in Threads,
         pc[t] \in LeaderPCs \ {"leading"}, pc'[t] \in LeaderPCs \ {"leading"},
         \A u \in Threads \ {t} : pc'[u] = pc[u] /\ gen'[u] = gen[u]
  PROVE  NodeSync'
<1>1. \A u \in Threads : /\ Parked(u)' <=> Parked(u)
                         /\ Outside(u)' <=> Outside(u)
                         /\ Leading(u)' <=> Leading(u)
                         /\ Cur(u)' = Cur(u)
                         /\ pc'[u] = "bar" <=> pc[u] = "bar"
                         /\ pc'[u] = "leading" <=> pc[u] = "leading"
  BY DEF Parked, Freed, Outside, Leading, Cur, WorkPCs, LeaderPCs
<1>2. \A n \in Nodes : ThreadsOf(n) \subseteq Threads
  BY DEF ThreadsOf
<1>3. \A n \in Nodes : /\ AwayFrom(n)' = AwayFrom(n) /\ OutsideOf(n)' = OutsideOf(n)
                       /\ Closed(n)' <=> Closed(n)
  BY <1>1, <1>2 DEF AwayFrom, OutsideOf, Closed
<1>4. \A n \in Nodes : NodeCount(n)' /\ OneComesLast(n)'
  <2> SUFFICES ASSUME NEW n \in Nodes PROVE NodeCount(n)' /\ OneComesLast(n)'
    OBVIOUS
  <2>1. NodeCount(n) /\ OneComesLast(n)
    BY DEF NodeSync
  <2>2. NodeCount(n)'
    BY <2>1, <1>3 DEF NodeCount
  <2>3. OneComesLast(n)'
    BY <2>1, <1>1, <1>2, <1>3 DEF OneComesLast
  <2> QED
    BY <2>2, <2>3
<1>5. \A u \in Threads : LeaderAlone(u)'
  <2> SUFFICES ASSUME NEW u \in Threads PROVE LeaderAlone(u)'
    OBVIOUS
  <2>1. LeaderAlone(u)
    BY DEF NodeSync
  <2> QED
    BY <2>1, <1>1 DEF LeaderAlone, ThreadsOf
<1>6. InStep'
  BY <1>1 DEF NodeSync, InStep
<1> QED
  BY <1>4, <1>5, <1>6 DEF NodeSync

-----------------------------------------------------------------------------
(* The steps of the synchronisation: SyncInv                               *)

\* Every thread is at one of four places.
LEMMA Places ==
  ASSUME Types, NEW u \in Threads
  PROVE  /\ Outside(u) \/ Leading(u) \/ pc[u] = "bar" \/ Parked(u)
         /\ Outside(u) => ~Leading(u) /\ pc[u] # "bar" /\ ~Parked(u)
         /\ Leading(u) => pc[u] # "bar" /\ ~Parked(u)
         /\ Parked(u) => pc[u] = "wait"
BY ThreadTypes DEF Outside, Leading, Parked, Freed, WorkPCs, LeaderPCs

\* Entering leader selection takes a thread off the outside.
LEMMA SelectLeaderFacts ==
  ASSUME SyncInv, NEW t \in Threads, pc[t] = "end"
  PROVE  LET n == NodeOf[t]
         IN  /\ Outside(t) /\ ~Closed(n) /\ remaining[n] = Cardinality(OutsideOf(n))
             /\ remaining[n] \in Nat \ {0}
             /\ remaining[n] - 1 = Cardinality(OutsideOf(n) \ {t})
             /\ remaining[n] = 1 <=> OutsideOf(n) = {t}
             /\ \A u \in ThreadsOf(n) : ~Leading(u)
<1> DEFINE n == NodeOf[t]
<1>1. n \in Nodes /\ t \in ThreadsOf(n) /\ ThreadsOf(n) \subseteq Threads
  BY ThreadTypes DEF SyncInv
<1>2. Outside(t) /\ pc[t] # "bar" /\ ~Parked(t) /\ ~Leading(t)
  BY Places DEF SyncInv, Outside, WorkPCs
<1>3. ~Closed(n)
  BY <1>1, <1>2 DEF Closed
<1>4. remaining[n] = Cardinality(OutsideOf(n))
  BY <1>1, <1>3 DEF SyncInv, NodeSync, NodeCount
<1>5. t \in OutsideOf(n) /\ OutsideOf(n) \in SUBSET ThreadsOf(n)
  BY <1>1, <1>2 DEF OutsideOf
<1>6. IsFiniteSet(OutsideOf(n)) /\ Cardinality(OutsideOf(n)) \in Nat \ {0}
  BY <1>1, <1>5, NodeCards
<1>7. Cardinality(OutsideOf(n) \ {t}) = Cardinality(OutsideOf(n)) - 1
  BY <1>5, <1>6, Less
<1>8. Cardinality(OutsideOf(n)) = 1 <=> OutsideOf(n) = {t}
  BY <1>5, <1>6, FS_Singleton
<1>9. \A u \in ThreadsOf(n) : ~Leading(u)
  <2> SUFFICES ASSUME NEW u \in ThreadsOf(n), Leading(u) PROVE FALSE
    OBVIOUS
  <2>1. u \in Threads /\ NodeOf[u] = n /\ u # t
    BY <1>1, <1>2 DEF ThreadsOf
  <2>2. LeaderAlone(u)
    BY <2>1 DEF SyncInv, NodeSync
  <2> QED
    BY <1>1, <1>2, <2>1, <2>2 DEF LeaderAlone
<1> QED
  BY <1>2, <1>3, <1>4, <1>6, <1>7, <1>8, <1>9

\* The counter of the selection keeps counting, and its last thread leads.
LEMMA SelectLeaderSync ==
  ASSUME SyncInv, Types', NEW t \in Threads, SelectLeader(t)
  PROVE  SyncInv'
<1> DEFINE n == NodeOf[t]
<1>0. /\ pc[t] = "end" /\ UNCHANGED <<gremaining, bar, gbar, gen, loop>>
      /\ remaining' = [remaining EXCEPT ![n] = @ - 1]
      /\ pc' = [pc EXCEPT ![t] = IF remaining[n] = 1 THEN "leading" ELSE "bar"]
  BY DEF SelectLeader, Goto
<1>1. n \in Nodes /\ t \in ThreadsOf(n) /\ ThreadsOf(n) \subseteq Threads
  BY ThreadTypes DEF SyncInv
<1>2. /\ Outside(t) /\ ~Closed(n) /\ remaining[n] = Cardinality(OutsideOf(n))
      /\ remaining[n] - 1 = Cardinality(OutsideOf(n) \ {t})
      /\ remaining[n] = 1 <=> OutsideOf(n) = {t}
      /\ \A u \in ThreadsOf(n) : ~Leading(u)
  BY <1>0, SelectLeaderFacts
<1>3. /\ \A u \in Threads \ {t} : pc'[u] = pc[u]
      /\ pc'[t] = IF remaining[n] = 1 THEN "leading" ELSE "bar"
      /\ remaining'[n] = remaining[n] - 1
      /\ \A m \in Nodes \ {n} : remaining'[m] = remaining[m]
  BY <1>0, <1>1 DEF SyncInv, Types
<1>4. /\ ~Parked(t) /\ ~Parked(t)' /\ ~Outside(t)' /\ Cur(t)' = Cur(t)
  BY <1>0, <1>3 DEF Parked, Outside, Freed, WorkPCs, Cur
<1>5. \A u \in Threads \ {t} : /\ Parked(u)' <=> Parked(u)
                               /\ Outside(u)' <=> Outside(u)
                               /\ Leading(u)' <=> Leading(u)
                               /\ Cur(u)' = Cur(u)
  BY <1>0, <1>3 DEF Parked, Freed, Outside, Leading, Cur
<1>6. \A m \in Nodes : ThreadsOf(m) \subseteq Threads /\ (m # n => t \notin ThreadsOf(m))
  BY DEF ThreadsOf
<1>7. \A m \in Nodes : AwayFrom(m)' = AwayFrom(m)
  BY <1>4, <1>5, <1>6 DEF AwayFrom
<1>8. OutsideOf(n)' = OutsideOf(n) \ {t} /\ \A m \in Nodes \ {n} : OutsideOf(m)' = OutsideOf(m)
  BY <1>1, <1>4, <1>5, <1>6 DEF OutsideOf
<1>9. \A m \in Nodes \ {n} : Closed(m)' <=> Closed(m)
  BY <1>3, <1>5, <1>6 DEF Closed
<1>10. ~Closed(n)'
  <2>1. CASE remaining[n] = 1
    BY <2>1, <1>1, <1>3, <1>4 DEF Closed
  <2>2. CASE remaining[n] # 1
    <3>1. PICK u \in OutsideOf(n) : u # t
      BY <2>2, <1>1, <1>2 DEF OutsideOf
    <3>2. u \in ThreadsOf(n) /\ Outside(u)' /\ u \in Threads
      BY <3>1, <1>5, <1>6, <1>1 DEF OutsideOf
    <3>3. pc'[u] # "bar" /\ ~Parked(u)'
      BY <3>2 DEF Outside, Parked, Freed, WorkPCs
    <3> QED
      BY <3>2, <3>3 DEF Closed
  <2> QED
    BY <2>1, <2>2
<1>11. \A m \in Nodes : NodeCount(m)' /\ OneComesLast(m)'
  <2> SUFFICES ASSUME NEW m \in Nodes PROVE NodeCount(m)' /\ OneComesLast(m)'
    OBVIOUS
  <2>1. NodeCount(m) /\ OneComesLast(m)
    BY DEF SyncInv, NodeSync
  <2>2. CASE m = n
    BY <2>1, <2>2, <1>0, <1>2, <1>3, <1>7, <1>8, <1>10 DEF NodeCount, OneComesLast
  <2>3. CASE m # n
    <3>1. NodeCount(m)'
      BY <2>1, <2>3, <1>0, <1>3, <1>7, <1>8, <1>9 DEF NodeCount
    <3>2. OneComesLast(m)'
      BY <2>1, <2>3, <1>3, <1>5, <1>6, <1>9 DEF OneComesLast
    <3> QED
      BY <3>1, <3>2
  <2> QED
    BY <2>2, <2>3
<1>12. \A u \in Threads : LeaderAlone(u)'
  <2> SUFFICES ASSUME NEW u \in Threads, Leading(u)', NEW v \in ThreadsOf(NodeOf[u]) \ {u}
               PROVE  (pc'[v] = "bar" \/ Parked(v)') /\ (pc'[u] # "leading" => Parked(v)')
    BY DEF LeaderAlone
  <2>1. CASE u = t
    <3>1. pc'[t] = "leading" /\ OutsideOf(n) = {t}
      BY <2>1, <1>2, <1>3 DEF Leading, LeaderPCs
    <3>2. v \in Threads /\ v \in ThreadsOf(n) /\ v # t /\ ~Outside(v) /\ ~Leading(v)
      BY <3>1, <2>1, <1>1, <1>2 DEF OutsideOf
    <3>3. pc[v] = "bar" \/ Parked(v)
      BY <3>2, Places DEF SyncInv
    <3> QED
      BY <2>1, <3>1, <3>2, <3>3, <1>3, <1>5
  <2>2. CASE u # t
    <3>1. Leading(u) /\ LeaderAlone(u) /\ NodeOf[u] \in Nodes
      BY <2>2, <1>5, ThreadTypes DEF SyncInv, NodeSync
    <3>2. NodeOf[u] # n
      BY <3>1, <1>2 DEF ThreadsOf
    <3>3. v # t /\ v \in Threads
      BY <3>1, <3>2, <1>6 DEF ThreadsOf
    <3> QED
      BY <2>2, <3>1, <3>3, <1>3, <1>5 DEF LeaderAlone
  <2> QED
    BY <2>1, <2>2
<1>13. InStep'
  BY <1>4, <1>5 DEF SyncInv, NodeSync, InStep
<1>14. GlobalSync'
  BY <1>0, <1>3, SameGlobal DEF SyncInv, GParked
<1> QED
  BY <1>11, <1>12, <1>13, <1>14 DEF SyncInv, NodeSync


\* What is known of a node whose barrier has one thread left to arrive.
LEMMA LastToArrive ==
  ASSUME SyncInv, NEW t \in Threads, ~Parked(t), bar[NodeOf[t]].awaited = 1
  PROVE  AwayFrom(NodeOf[t]) = {t} /\ \A u \in ThreadsOf(NodeOf[t]) \ {t} : Parked(u)
<1> DEFINE n == NodeOf[t]
<1>1. n \in Nodes /\ t \in ThreadsOf(n) /\ AwayFrom(n) \in SUBSET ThreadsOf(n)
  BY ThreadTypes DEF SyncInv, AwayFrom
<1>2. Cardinality(AwayFrom(n)) = 1 /\ IsFiniteSet(AwayFrom(n))
  BY <1>1, NodeCards DEF SyncInv, NodeSync, NodeCount
<1>3. AwayFrom(n) = {t}
  BY <1>1, <1>2, Alone DEF AwayFrom
<1> QED
  BY <1>3 DEF AwayFrom

\* Past the wait for the node, everybody else of the node is parked.
LEMMA GlobalLeader ==
  ASSUME SyncInv, NEW t \in Threads, pc[t] \in {"gend", "gleading", "gbar", "gwait", "cleanup"}
  PROVE  \A u \in ThreadsOf(NodeOf[t]) \ {t} : Parked(u) /\ pc[u] = "wait"
BY DEF SyncInv, NodeSync, LeaderAlone, Leading, LeaderPCs, Parked

\* The leader waits until the others of its node are parked.
LEMMA FinishNodeSync ==
  ASSUME SyncInv, Types', NEW t \in Threads, FinishNode(t)
  PROVE  SyncInv'
<1> DEFINE n == NodeOf[t]
<1>0. /\ pc[t] = "leading" /\ bar[n].awaited = 1
      /\ UNCHANGED <<remaining, gremaining, bar, gbar, gen, loop>>
      /\ pc' = [pc EXCEPT ![t] = IF ws[n].sched # "static" THEN "gend" ELSE "cleanup"]
  BY FinishNodeIs DEF SyncInv, sync
<1>1. n \in Nodes /\ t \in ThreadsOf(n) /\ ThreadsOf(n) \subseteq Threads
  BY ThreadTypes DEF SyncInv
<1>2. /\ \A u \in Threads \ {t} : pc'[u] = pc[u]
      /\ pc'[t] \in {"gend", "cleanup"}
  BY <1>0, <1>1 DEF SyncInv, Types
<1>3. \A u \in Threads : /\ Parked(u)' <=> Parked(u)
                         /\ Outside(u)' <=> Outside(u)
                         /\ Leading(u)' <=> Leading(u)
                         /\ Cur(u)' = Cur(u)
                         /\ pc'[u] = "bar" <=> pc[u] = "bar"
                         /\ pc'[u] = "leading" => pc[u] = "leading"
  BY <1>0, <1>2 DEF Parked, Freed, Outside, Leading, Cur, WorkPCs, LeaderPCs
<1>4. \A m \in Nodes : ThreadsOf(m) \subseteq Threads
  BY DEF ThreadsOf
<1>5. \A m \in Nodes : /\ AwayFrom(m)' = AwayFrom(m) /\ OutsideOf(m)' = OutsideOf(m)
                       /\ Closed(m)' <=> Closed(m)
  BY <1>3, <1>4 DEF AwayFrom, OutsideOf, Closed
<1>6. \A m \in Nodes : NodeCount(m)' /\ OneComesLast(m)'
  <2> SUFFICES ASSUME NEW m \in Nodes PROVE NodeCount(m)' /\ OneComesLast(m)'
    OBVIOUS
  <2>1. NodeCount(m) /\ OneComesLast(m)
    BY DEF SyncInv, NodeSync
  <2>2. NodeCount(m)'
    BY <2>1, <1>0, <1>5 DEF NodeCount
  <2>3. OneComesLast(m)'
    BY <2>1, <1>3, <1>4, <1>5 DEF OneComesLast
  <2> QED
    BY <2>2, <2>3
<1>7. \A u \in Threads : LeaderAlone(u)'
  <2> SUFFICES ASSUME NEW u \in Threads PROVE LeaderAlone(u)'
    OBVIOUS
  <2>1. CASE u = t
    <3>1. ~Parked(t)
      BY <1>0 DEF Parked
    <3>2. \A v \in ThreadsOf(n) \ {t} : Parked(v)
      BY <3>1, <1>0, LastToArrive
    <3> QED
      BY <2>1, <3>2, <1>1, <1>3 DEF LeaderAlone
  <2>2. CASE u # t
    <3>1. LeaderAlone(u)
      BY DEF SyncInv, NodeSync
    <3> QED
      BY <2>2, <3>1, <1>2, <1>3 DEF LeaderAlone, ThreadsOf
  <2> QED
    BY <2>1, <2>2
<1>8. InStep'
  BY <1>3 DEF SyncInv, NodeSync, InStep
<1>9. GlobalSync'
  BY <1>0, <1>2, SameGlobal DEF SyncInv, GParked
<1> QED
  BY <1>6, <1>7, <1>8, <1>9 DEF SyncInv, NodeSync

\* The leader re-arms the selection of its node, and the node is closed.
LEMMA CleanupSync ==
  ASSUME SyncInv, Types', NEW t \in Threads, Cleanup(t)
  PROVE  SyncInv'
<1> DEFINE n == NodeOf[t]
<1>0. /\ pc[t] = "cleanup" /\ UNCHANGED <<gremaining, bar, gbar, gen, loop>>
      /\ remaining' = [remaining EXCEPT ![n] = ThreadsPerNode(n)]
      /\ pc' = [pc EXCEPT ![t] = "bar"]
  BY DEF Cleanup, Goto
<1>1. n \in Nodes /\ t \in ThreadsOf(n) /\ ThreadsOf(n) \subseteq Threads
  BY ThreadTypes DEF SyncInv
<1>2. /\ \A u \in Threads \ {t} : pc'[u] = pc[u]
      /\ pc'[t] = "bar" /\ remaining'[n] = ThreadsPerNode(n)
      /\ \A m \in Nodes \ {n} : remaining'[m] = remaining[m]
  BY <1>0, <1>1 DEF SyncInv, Types
<1>3. \A u \in ThreadsOf(n) \ {t} : Parked(u)
  BY <1>0, GlobalLeader
<1>4. \A u \in Threads : /\ Parked(u)' <=> Parked(u)
                         /\ Outside(u)' <=> Outside(u)
                         /\ Leading(u)' => Leading(u) /\ u # t
                         /\ Cur(u)' = Cur(u)
  BY <1>0, <1>2 DEF Parked, Freed, Outside, Leading, Cur, WorkPCs, LeaderPCs
<1>5. \A m \in Nodes : ThreadsOf(m) \subseteq Threads /\ (m # n => t \notin ThreadsOf(m))
  BY DEF ThreadsOf
<1>6. \A m \in Nodes : AwayFrom(m)' = AwayFrom(m) /\ OutsideOf(m)' = OutsideOf(m)
  BY <1>4, <1>5 DEF AwayFrom, OutsideOf
<1>7. Closed(n)' /\ \A m \in Nodes \ {n} : Closed(m)' <=> Closed(m)
  <2>1. Closed(n)'
    BY <1>1, <1>2, <1>3, <1>4 DEF Closed
  <2>2. ASSUME NEW m \in Nodes \ {n} PROVE Closed(m)' <=> Closed(m)
    <3>1. \A u \in ThreadsOf(m) : pc'[u] = pc[u] /\ (Parked(u)' <=> Parked(u))
      BY <1>2, <1>4, <1>5
    <3> QED
      BY <3>1 DEF Closed
  <2> QED
    BY <2>1, <2>2
<1>8. \A m \in Nodes : NodeCount(m)' /\ OneComesLast(m)'
  <2> SUFFICES ASSUME NEW m \in Nodes PROVE NodeCount(m)' /\ OneComesLast(m)'
    OBVIOUS
  <2>1. NodeCount(m) /\ OneComesLast(m)
    BY DEF SyncInv, NodeSync
  <2>2. CASE m = n
    <3>1. NodeCount(m)'
      BY <2>1, <2>2, <1>0, <1>2, <1>6, <1>7 DEF NodeCount
    <3>2. OneComesLast(m)'
      BY <2>2, <1>1, <1>2, <1>3, <1>4 DEF OneComesLast
    <3> QED
      BY <3>1, <3>2
  <2>3. CASE m # n
    <3>1. NodeCount(m)'
      BY <2>1, <2>3, <1>0, <1>2, <1>6, <1>7 DEF NodeCount
    <3>2. OneComesLast(m)'
      BY <2>1, <2>3, <1>2, <1>4, <1>5, <1>7 DEF OneComesLast
    <3> QED
      BY <3>1, <3>2
  <2> QED
    BY <2>2, <2>3
<1>9. \A u \in Threads : LeaderAlone(u)'
  <2> SUFFICES ASSUME NEW u \in Threads, Leading(u)', NEW v \in ThreadsOf(NodeOf[u]) \ {u}
               PROVE  (pc'[v] = "bar" \/ Parked(v)') /\ (pc'[u] # "leading" => Parked(v)')
    BY DEF LeaderAlone
  <2>1. Leading(u) /\ u # t /\ LeaderAlone(u) /\ v \in Threads
    BY <1>4 DEF SyncInv, NodeSync, ThreadsOf
  <2>2. pc[v] = "bar" \/ Parked(v)
    BY <2>1 DEF LeaderAlone
  <2>3. v # t
    BY <2>2, <1>0 DEF Parked
  <2> QED
    BY <2>1, <2>3, <1>2, <1>4 DEF LeaderAlone
<1>10. InStep'
  BY <1>4 DEF SyncInv, NodeSync, InStep
<1>11. GlobalSync'
  BY <1>0, <1>2, SameGlobal DEF SyncInv, GParked
<1> QED
  BY <1>8, <1>9, <1>10, <1>11 DEF SyncInv, NodeSync

\* A thread arrives at its node's barrier; the last one opens it.
LEMMA NodeBarrierSync ==
  ASSUME SyncInv, Types', NEW t \in Threads, NodeBarrier(t)
  PROVE  SyncInv'
<1> DEFINE n == NodeOf[t]
<1>0. /\ pc[t] = "bar" /\ UNCHANGED <<remaining, gremaining, gbar, loop>>
      /\ bar' = [bar EXCEPT ![n] = Arrived(bar[n], ThreadsPerNode(n))]
      /\ gen' = [gen EXCEPT ![t] = bar[n].generation]
      /\ pc' = [pc EXCEPT ![t] = "wait"]
  BY DEF NodeBarrier, Goto
<1>1. n \in Nodes /\ t \in ThreadsOf(n) /\ ThreadsOf(n) \subseteq Threads
      /\ bar[n] \in [awaited : Nat, generation : Nat]
  BY ThreadTypes DEF SyncInv
<1>2. /\ \A u \in Threads \ {t} : pc'[u] = pc[u] /\ gen'[u] = gen[u]
      /\ pc'[t] = "wait" /\ gen'[t] = bar[n].generation
      /\ bar'[n] = Arrived(bar[n], ThreadsPerNode(n))
      /\ \A m \in Nodes \ {n} : bar'[m] = bar[m]
  BY <1>0, <1>1 DEF SyncInv, Types
<1>3. ~Parked(t) /\ ~Outside(t) /\ ~Leading(t) /\ Cur(t) = loop[t]
  BY <1>0 DEF Parked, Outside, Freed, Leading, WorkPCs, LeaderPCs, Cur
<1>4. \A m \in Nodes : ThreadsOf(m) \subseteq Threads /\ (m # n => t \notin ThreadsOf(m))
      /\ \A u \in ThreadsOf(m) : NodeOf[u] = m
  BY DEF ThreadsOf
<1>5. ASSUME NEW u \in Threads, NodeOf[u] # n
      PROVE  /\ Parked(u)' <=> Parked(u)
             /\ Outside(u)' <=> Outside(u)
             /\ Leading(u)' <=> Leading(u)
             /\ Cur(u)' = Cur(u)
             /\ pc'[u] = pc[u]
  <2>1. u # t /\ bar'[NodeOf[u]] = bar[NodeOf[u]]
    BY <1>2, <1>5, ThreadTypes DEF SyncInv
  <2> QED
    BY <2>1, <1>0, <1>2 DEF Parked, Freed, Outside, Leading, Cur
<1>6. ASSUME NEW m \in Nodes, m # n
      PROVE  NodeCount(m)' /\ OneComesLast(m)'
  <2>1. \A u \in ThreadsOf(m) : u \in Threads /\ NodeOf[u] # n
    BY <1>4, <1>6
  <2>2. AwayFrom(m)' = AwayFrom(m) /\ OutsideOf(m)' = OutsideOf(m) /\ (Closed(m)' <=> Closed(m))
    BY <2>1, <1>5 DEF AwayFrom, OutsideOf, Closed
  <2>3. NodeCount(m) /\ OneComesLast(m)
    BY DEF SyncInv, NodeSync
  <2>4. NodeCount(m)'
    BY <2>2, <2>3, <1>0, <1>2, <1>6 DEF NodeCount
  <2>5. OneComesLast(m)'
    BY <2>1, <2>2, <2>3, <1>5 DEF OneComesLast
  <2> QED
    BY <2>4, <2>5
<1>7. ASSUME NEW u \in Threads, NodeOf[u] # n
      PROVE  LeaderAlone(u)'
  <2>1. LeaderAlone(u) /\ \A v \in ThreadsOf(NodeOf[u]) : v \in Threads /\ NodeOf[v] # n
    BY <1>7 DEF SyncInv, NodeSync, ThreadsOf
  <2> QED
    BY <2>1, <1>5, <1>7 DEF LeaderAlone
<1>8. GlobalSync'
  BY <1>0, <1>2, SameGlobal DEF SyncInv, GParked
<1>9. NodeCount(n) /\ OneComesLast(n)
  BY <1>1 DEF SyncInv, NodeSync
<1>10. CASE bar[n].awaited = 1
  <2>1. \A u \in ThreadsOf(n) \ {t} : Parked(u)
    BY <1>3, <1>10, LastToArrive
  <2>2. bar'[n] = [awaited |-> ThreadsPerNode(n), generation |-> bar[n].generation + 1]
    BY <1>2, <1>10 DEF Arrived
  <2>3. \A u \in ThreadsOf(n) : Freed(u)' /\ ~Parked(u)' /\ Outside(u)' /\ ~Leading(u)' /\ pc'[u] = "wait"
    <3> SUFFICES ASSUME NEW u \in ThreadsOf(n)
                 PROVE  pc'[u] = "wait" /\ gen'[u] # bar'[n].generation /\ NodeOf[u] = n
      BY DEF Freed, Parked, Outside, Leading, LeaderPCs
    <3>1. gen'[u] = bar[n].generation /\ pc'[u] = "wait" /\ NodeOf[u] = n
      BY <2>1, <1>2, <1>4, <1>1 DEF Parked
    <3> QED
      BY <3>1, <2>2, <1>1
  <2>4. AwayFrom(n)' = ThreadsOf(n) /\ OutsideOf(n)' = ThreadsOf(n) /\ ~Closed(n)'
    BY <2>3, <1>1 DEF AwayFrom, OutsideOf, Closed
  <2>5. remaining[n] = ThreadsPerNode(n)
    <3>1. Closed(n)
      BY <2>1, <1>0 DEF Closed
    <3> QED
      BY <3>1, <1>9 DEF NodeCount
  <2>6. NodeCount(n)' /\ OneComesLast(n)'
    BY <2>2, <2>4, <2>5, <1>0, <1>1, NodeCards DEF NodeCount, OneComesLast
  <2>7. \A u \in Threads : LeaderAlone(u)'
    <3> SUFFICES ASSUME NEW u \in Threads PROVE LeaderAlone(u)'
      OBVIOUS
    <3>1. CASE NodeOf[u] = n
      BY <3>1, <2>3 DEF LeaderAlone, ThreadsOf
    <3> QED
      BY <3>1, <1>7
  <2>8. \A u \in ThreadsOf(n) : Cur(u)' = Cur(u) + 1
    <3> SUFFICES ASSUME NEW u \in ThreadsOf(n) PROVE Cur(u)' = Cur(u) + 1
      OBVIOUS
    <3>1. Cur(u)' = loop[u] + 1
      BY <2>3, <1>0 DEF Cur
    <3>2. Cur(u) = loop[u]
      BY <2>1, <1>3 DEF Cur, Parked, Freed
    <3> QED
      BY <3>1, <3>2
  <2>9. InStep'
    <3> SUFFICES ASSUME NEW u \in Threads, NEW v \in Threads, NodeOf[u] = NodeOf[v]
                 PROVE  Cur(u)' = Cur(v)'
      BY DEF InStep
    <3>1. Cur(u) = Cur(v)
      BY DEF SyncInv, NodeSync, InStep
    <3>2. CASE NodeOf[u] = n
      BY <3>1, <3>2, <2>8 DEF ThreadsOf
    <3>3. CASE NodeOf[u] # n
      BY <3>1, <3>3, <1>5
    <3> QED
      BY <3>2, <3>3
  <2> QED
    BY <2>6, <2>7, <2>9, <1>6, <1>8 DEF SyncInv, NodeSync
<1>11. CASE bar[n].awaited # 1
  <2>1. bar'[n].awaited = bar[n].awaited - 1 /\ bar'[n].generation = bar[n].generation
    BY <1>1, <1>2, <1>11 DEF Arrived
  <2>2. Parked(t)' /\ ~Freed(t)'
    BY <2>1, <1>2 DEF Parked, Freed
  <2>3. \A u \in ThreadsOf(n) \ {t} : /\ Parked(u)' <=> Parked(u)
                                      /\ Outside(u)' <=> Outside(u)
                                      /\ Leading(u)' <=> Leading(u)
                                      /\ Cur(u)' = Cur(u)
                                      /\ pc'[u] = pc[u]
    BY <2>1, <1>0, <1>1, <1>2, <1>4 DEF Parked, Freed, Outside, Leading, Cur
  <2>4. ~Outside(t)' /\ ~Leading(t)' /\ Cur(t)' = Cur(t)
    BY <2>2, <1>0, <1>2, <1>3 DEF Outside, Leading, WorkPCs, LeaderPCs, Cur
  <2>5. AwayFrom(n)' = AwayFrom(n) \ {t} /\ t \in AwayFrom(n) /\ OutsideOf(n)' = OutsideOf(n)
    BY <2>2, <2>3, <2>4, <1>1, <1>3 DEF AwayFrom, OutsideOf
  <2>6. bar'[n].awaited = Cardinality(AwayFrom(n)')
    <3>1. AwayFrom(n) \in SUBSET ThreadsOf(n)
      BY DEF AwayFrom
    <3>2. IsFiniteSet(AwayFrom(n))
      BY <3>1, <1>1, NodeCards
    <3> QED
      BY <3>2, <2>1, <2>5, <1>9, Less DEF NodeCount
  <2>7. ~Closed(n)
    <3> SUFFICES ASSUME Closed(n) PROVE FALSE
      OBVIOUS
    <3>1. PICK u \in ThreadsOf(n) : pc[u] = "bar" /\ \A v \in ThreadsOf(n) \ {u} : Parked(v)
      BY <1>9 DEF OneComesLast
    <3>2. u = t
      BY <3>1, <1>1, <1>3
    <3>3. AwayFrom(n) = {t}
      BY <3>1, <3>2, <1>1, <1>3 DEF AwayFrom
    <3> QED
      BY <3>3, <1>9, <1>11, FS_Singleton DEF NodeCount
  <2>8. ~Closed(n)'
    BY <2>3, <2>7, <1>0 DEF Closed
  <2>9. NodeCount(n)' /\ OneComesLast(n)'
    BY <2>5, <2>6, <2>7, <2>8, <1>0, <1>9 DEF NodeCount, OneComesLast
  <2>10. \A u \in Threads : LeaderAlone(u)'
    <3> SUFFICES ASSUME NEW u \in Threads PROVE LeaderAlone(u)'
      OBVIOUS
    <3>1. CASE NodeOf[u] = n
      <4>1. LeaderAlone(u)
        BY DEF SyncInv, NodeSync
      <4> QED
        BY <3>1, <4>1, <2>2, <2>3, <2>4 DEF LeaderAlone, ThreadsOf
    <3> QED
      BY <3>1, <1>7
  <2>11. InStep'
    <3> SUFFICES ASSUME NEW u \in Threads, NEW v \in Threads, NodeOf[u] = NodeOf[v]
                 PROVE  Cur(u)' = Cur(v)'
      BY DEF InStep
    <3>1. Cur(u) = Cur(v)
      BY DEF SyncInv, NodeSync, InStep
    <3>2. \A w \in ThreadsOf(n) : Cur(w)' = Cur(w)
      BY <2>3, <2>4
    <3> QED
      BY <3>1, <3>2, <1>5 DEF ThreadsOf
  <2> QED
    BY <2>9, <2>10, <2>11, <1>6, <1>8 DEF SyncInv, NodeSync
<1> QED
  BY <1>10, <1>11


\* The node of a leader is represented by it at the global level.
LEMMA Represents ==
  ASSUME SyncInv, NEW t \in Threads, pc[t] \in LeaderPCs \ {"leading"}
  PROVE  /\ NodeParked(NodeOf[t]) <=> GParked(t)
         /\ NodeArrives(NodeOf[t]) <=> pc[t] = "gbar" \/ GParked(t)
         /\ NodeSelected(NodeOf[t]) <=> pc[t] \in {"gbar", "gleading"} \/ GParked(t)
         /\ \A m \in Nodes \ {NodeOf[t]} : t \notin ThreadsOf(m)
         /\ \A m \in Nodes : ThreadsOf(m) \subseteq Threads
<1>1. \A u \in ThreadsOf(NodeOf[t]) \ {t} : pc[u] = "wait"
  BY GlobalLeader DEF LeaderPCs
<1>2. t \in ThreadsOf(NodeOf[t])
  BY DEF ThreadsOf
<1> QED
  BY <1>1, <1>2 DEF NodeParked, NodeArrives, NodeSelected, GParked, ThreadsOf

\* A step of a leader changes what its own node is at the global level only.
LEMMA OnlyOwnNode ==
  ASSUME SyncInv, NEW t \in Threads, pc[t] \in LeaderPCs \ {"leading"},
         \A u \in Threads \ {t} : pc'[u] = pc[u] /\ (GParked(u)' <=> GParked(u))
  PROVE  /\ \A m \in Nodes \ {NodeOf[t]} :
              /\ NodeParked(m)' <=> NodeParked(m)
              /\ NodeArrives(m)' <=> NodeArrives(m)
              /\ NodeSelected(m)' <=> NodeSelected(m)
         /\ NodeParked(NodeOf[t])' <=> GParked(t)'
         /\ NodeArrives(NodeOf[t])' <=> pc'[t] = "gbar" \/ GParked(t)'
         /\ NodeSelected(NodeOf[t])' <=> pc'[t] \in {"gbar", "gleading"} \/ GParked(t)'
<1>1. \A u \in ThreadsOf(NodeOf[t]) \ {t} : pc[u] = "wait" /\ pc'[u] = "wait" /\ ~GParked(u)'
  BY GlobalLeader DEF LeaderPCs, GParked, ThreadsOf
<1>2. t \in ThreadsOf(NodeOf[t]) /\ ThreadsOf(NodeOf[t]) \subseteq Threads
  BY DEF ThreadsOf
<1>3. \A m \in Nodes \ {NodeOf[t]} : ThreadsOf(m) \subseteq Threads \ {t}
  BY DEF ThreadsOf
<1>4. \A m \in Nodes \ {NodeOf[t]} :
              /\ NodeParked(m)' <=> NodeParked(m)
              /\ NodeArrives(m)' <=> NodeArrives(m)
              /\ NodeSelected(m)' <=> NodeSelected(m)
  BY <1>3 DEF NodeParked, NodeArrives, NodeSelected
<1> QED
  BY <1>1, <1>2, <1>4 DEF NodeParked, NodeArrives, NodeSelected

\* Entering the global selection selects the node.
LEMMA SelectGlobalLeaderFacts ==
  ASSUME SyncInv, NEW t \in Threads, pc[t] = "gend"
  PROVE  LET n == NodeOf[t]
             open == {m \in Nodes : ~NodeSelected(m)}
         IN  /\ ~GlobalClosed /\ n \in open /\ IsFiniteSet(open)
             /\ gremaining = Cardinality(open) /\ gremaining \in Nat \ {0}
             /\ gremaining - 1 = Cardinality(open \ {n})
             /\ gremaining = 1 <=> open = {n}
<1> DEFINE n == NodeOf[t]
           open == {m \in Nodes : ~NodeSelected(m)}
<1>1. n \in Nodes
  BY ThreadTypes DEF SyncInv
<1>2. ~NodeArrives(n) /\ n \in open
  BY <1>1, Represents DEF LeaderPCs, GParked
<1>3. ~GlobalClosed
  BY <1>1, <1>2 DEF GlobalClosed
<1>4. gremaining = Cardinality(open)
  BY <1>3 DEF SyncInv, GlobalSync, GlobalCounts
<1>5. open \in SUBSET Nodes
  OBVIOUS
<1> HIDE DEF open
<1>6. IsFiniteSet(open) /\ Cardinality(open) \in Nat /\ Cardinality(open) # 0
  BY <1>2, <1>5, GlobalCards
<1>7. Cardinality(open \ {n}) = Cardinality(open) - 1
  BY <1>2, <1>6, Less
<1>8. Cardinality(open) = 1 <=> open = {n}
  BY <1>2, <1>6, FS_Singleton
<1>9. /\ ~GlobalClosed /\ n \in open /\ IsFiniteSet(open)
      /\ gremaining = Cardinality(open) /\ gremaining \in Nat \ {0}
      /\ gremaining - 1 = Cardinality(open \ {n})
      /\ gremaining = 1 <=> open = {n}
  BY <1>2, <1>3, <1>4, <1>6, <1>7, <1>8
<1> QED
  BY <1>9 DEF open

\* The same one level up: the last node leads.
LEMMA SelectGlobalLeaderSync ==
  ASSUME SyncInv, Types', NEW t \in Threads, SelectGlobalLeader(t)
  PROVE  SyncInv'
<1> DEFINE n == NodeOf[t]
<1>0. /\ pc[t] = "gend" /\ UNCHANGED <<remaining, bar, gbar, gen, loop>>
      /\ gremaining' = gremaining - 1
      /\ pc' = [pc EXCEPT ![t] = IF gremaining = 1 THEN "gleading" ELSE "gbar"]
  BY DEF SelectGlobalLeader, Goto
<1>1. /\ \A u \in Threads \ {t} : pc'[u] = pc[u]
      /\ pc'[t] = IF gremaining = 1 THEN "gleading" ELSE "gbar"
  BY <1>0 DEF SyncInv, Types
<1>2. NodeSync'
  <2>1. pc[t] \in LeaderPCs \ {"leading"} /\ pc'[t] \in LeaderPCs \ {"leading"}
    BY <1>0, <1>1 DEF LeaderPCs
  <2> QED
    BY <2>1, <1>0, <1>1, SameNodes DEF SyncInv
<1>3. \A u \in Threads : GParked(u)' <=> GParked(u)
  BY <1>0, <1>1 DEF GParked
<1>4. /\ \A m \in Nodes \ {n} : /\ NodeParked(m)' <=> NodeParked(m)
                                /\ NodeArrives(m)' <=> NodeArrives(m)
                                /\ NodeSelected(m)' <=> NodeSelected(m)
      /\ NodeParked(n)' <=> GParked(t)'
      /\ NodeArrives(n)' <=> pc'[t] = "gbar" \/ GParked(t)'
      /\ NodeSelected(n)' <=> pc'[t] \in {"gbar", "gleading"} \/ GParked(t)'
  <2>1. pc[t] \in LeaderPCs \ {"leading"}
    BY <1>0 DEF LeaderPCs
  <2> QED
    BY <2>1, <1>1, <1>3, OnlyOwnNode
<1>5. n \in Nodes /\ ~NodeParked(n) /\ ~NodeArrives(n) /\ ~GParked(t)
  BY <1>0, Represents, ThreadTypes DEF LeaderPCs, GParked, SyncInv
<1>6. NodeSelected(n)' /\ ~NodeParked(n)'
  BY <1>1, <1>3, <1>4, <1>5
<1> DEFINE open == {m \in Nodes : ~NodeSelected(m)}
<1>7. /\ ~GlobalClosed /\ n \in open /\ IsFiniteSet(open)
      /\ gremaining = Cardinality(open)
      /\ gremaining - 1 = Cardinality(open \ {n})
      /\ gremaining = 1 <=> open = {n}
  BY <1>0, SelectGlobalLeaderFacts
<1>8. {m \in Nodes : ~NodeSelected(m)}' = open \ {n}
  BY <1>4, <1>6
<1>9. {m \in Nodes : ~NodeParked(m)}' = {m \in Nodes : ~NodeParked(m)}
  BY <1>4, <1>5, <1>6
<1>10. ~GlobalClosed'
  <2>1. CASE gremaining = 1
    BY <2>1, <1>1, <1>3, <1>4, <1>5 DEF GlobalClosed
  <2>2. CASE gremaining # 1
    <3>1. PICK m \in open : m # n
      BY <2>2, <1>7
    <3>2. m \in Nodes \ {n} /\ ~NodeArrives(m)
      BY <3>1 DEF NodeSelected
    <3> QED
      BY <3>2, <1>4 DEF GlobalClosed
  <2> QED
    BY <2>1, <2>2
<1>11. GlobalCounts'
  <2>1. GlobalCounts
    BY DEF SyncInv, GlobalSync
  <2> QED
    BY <2>1, <1>0, <1>7, <1>8, <1>9, <1>10 DEF GlobalCounts
<1>12. OneNodeLeads'
  <2>1. \A u \in Threads : pc[u] # "gleading"
    <3> SUFFICES ASSUME NEW u \in Threads, pc[u] = "gleading" PROVE FALSE
      OBVIOUS
    <3>1. NodeOf[u] # n
      <4>1. u # t
        BY <1>0
      <4>2. CASE NodeOf[u] = n
        BY <4>1, <4>2, <1>0, GlobalLeader DEF ThreadsOf
      <4> QED
        BY <4>2
    <3> QED
      BY <3>1, <1>5 DEF SyncInv, GlobalSync, OneNodeLeads
  <2>2. \A m \in Nodes : NodeSelected(m) => NodeArrives(m)
    BY <2>1 DEF NodeSelected, ThreadsOf
  <2>3. ASSUME NEW u \in Threads, pc'[u] = "gleading" PROVE \A m \in Nodes \ {NodeOf[u]} : NodeArrives(m)'
    <3>1. u = t /\ gremaining = 1
      BY <2>1, <2>3, <1>1
    <3> QED
      BY <3>1, <2>2, <1>4, <1>7
  <2> QED
    BY <2>3, <1>10 DEF OneNodeLeads
<1> QED
  BY <1>2, <1>11, <1>12 DEF SyncInv, GlobalSync

\* What is known of the nodes when one has yet to arrive at the global barrier.
LEMMA LastNode ==
  ASSUME SyncInv, NEW t \in Threads, pc[t] \in {"gleading", "gbar"}, gbar.awaited = 1
  PROVE  \A m \in Nodes \ {NodeOf[t]} : NodeParked(m)
<1> DEFINE away == {m \in Nodes : ~NodeParked(m)}
<1>1. NodeOf[t] \in away
  BY Represents, ThreadTypes DEF SyncInv, LeaderPCs, GParked
<1>2. away \in SUBSET Nodes /\ Cardinality(away) = 1
  BY DEF SyncInv, GlobalSync, GlobalCounts
<1> HIDE DEF away
<1>3. IsFiniteSet(away)
  BY <1>2, GlobalCards
<1>4. away = {NodeOf[t]}
  BY <1>1, <1>2, <1>3, Alone
<1> QED
  BY <1>4 DEF away

\* The global leader re-arms the global selection.
LEMMA FinishGlobalSync ==
  ASSUME SyncInv, Types', NEW t \in Threads, FinishGlobal(t)
  PROVE  SyncInv'
<1> DEFINE n == NodeOf[t]
<1>0. /\ pc[t] = "gleading" /\ gbar.awaited = 1 /\ UNCHANGED <<remaining, bar, gbar, gen, loop>>
      /\ gremaining' = Cardinality(Nodes)
      /\ pc' = [pc EXCEPT ![t] = "gbar"]
  BY DEF FinishGlobal, Goto
<1>1. /\ \A u \in Threads \ {t} : pc'[u] = pc[u]
      /\ pc'[t] = "gbar"
  BY <1>0 DEF SyncInv, Types
<1>2. NodeSync'
  <2>1. pc[t] \in LeaderPCs \ {"leading"} /\ pc'[t] \in LeaderPCs \ {"leading"}
    BY <1>0, <1>1 DEF LeaderPCs
  <2> QED
    BY <2>1, <1>0, <1>1, SameNodes DEF SyncInv
<1>3. \A u \in Threads : GParked(u)' <=> GParked(u)
  BY <1>0, <1>1 DEF GParked
<1>4. /\ \A m \in Nodes \ {n} : /\ NodeParked(m)' <=> NodeParked(m)
                                /\ NodeArrives(m)' <=> NodeArrives(m)
      /\ NodeParked(n)' <=> GParked(t)'
      /\ NodeArrives(n)'
  <2>1. pc[t] \in LeaderPCs \ {"leading"}
    BY <1>0 DEF LeaderPCs
  <2> QED
    BY <2>1, <1>1, <1>3, OnlyOwnNode
<1>5. n \in Nodes /\ ~NodeParked(n) /\ ~NodeArrives(n) /\ ~GParked(t)
  BY <1>0, Represents, ThreadTypes DEF LeaderPCs, GParked, SyncInv
<1>6. \A m \in Nodes \ {n} : NodeParked(m) /\ NodeArrives(m)
  BY <1>0, LastNode DEF SyncInv, GlobalSync, OneNodeLeads
<1>7. GlobalClosed'
  BY <1>4, <1>6 DEF GlobalClosed
<1>8. {m \in Nodes : ~NodeParked(m)}' = {m \in Nodes : ~NodeParked(m)}
  BY <1>3, <1>4, <1>5
<1>9. GlobalCounts'
  BY <1>0, <1>7, <1>8 DEF SyncInv, GlobalSync, GlobalCounts
<1>10. \A u \in Threads : pc'[u] # "gleading"
  <2> SUFFICES ASSUME NEW u \in Threads, pc'[u] = "gleading" PROVE FALSE
    OBVIOUS
  <2>1. u # t /\ pc[u] = "gleading"
    BY <1>1
  <2>2. CASE NodeOf[u] = n
    BY <2>1, <2>2, <1>0, GlobalLeader DEF ThreadsOf
  <2>3. CASE NodeOf[u] # n
    BY <2>1, <2>3, <1>5 DEF SyncInv, GlobalSync, OneNodeLeads
  <2> QED
    BY <2>2, <2>3
<1>11. OneNodeLeads'
  BY <1>3, <1>4, <1>5, <1>6, <1>10 DEF OneNodeLeads
<1> QED
  BY <1>2, <1>9, <1>11 DEF SyncInv, GlobalSync

\* A leader arrives at the global barrier; the last one opens it.
LEMMA GlobalBarrierSync ==
  ASSUME SyncInv, Types', NEW t \in Threads, GlobalBarrier(t)
  PROVE  SyncInv'
<1> DEFINE n == NodeOf[t]
<1>0. /\ pc[t] = "gbar" /\ UNCHANGED <<remaining, gremaining, bar, loop>>
      /\ gbar' = Arrived(gbar, Cardinality(Nodes))
      /\ gen' = [gen EXCEPT ![t] = gbar.generation]
      /\ pc' = [pc EXCEPT ![t] = "gwait"]
  BY DEF GlobalBarrier, Goto
<1>1. /\ \A u \in Threads \ {t} : pc'[u] = pc[u] /\ gen'[u] = gen[u]
      /\ pc'[t] = "gwait" /\ gen'[t] = gbar.generation
      /\ gbar \in [awaited : Nat, generation : Nat]
  BY <1>0 DEF SyncInv, Types
<1>2. NodeSync'
  <2>1. pc[t] \in LeaderPCs \ {"leading"} /\ pc'[t] \in LeaderPCs \ {"leading"}
    BY <1>0, <1>1 DEF LeaderPCs
  <2> QED
    BY <2>1, <1>0, <1>1, SameNodes DEF SyncInv
<1>3. n \in Nodes /\ ~NodeParked(n) /\ NodeArrives(n) /\ NodeSelected(n)
  BY <1>0, Represents, ThreadTypes DEF LeaderPCs, GParked, SyncInv
<1>4. Nodes \in SUBSET Nodes /\ \A m \in Nodes : ThreadsOf(m) \subseteq Threads
  BY DEF ThreadsOf
<1>5. CASE gbar.awaited = 1
  <2>1. gbar' = [awaited |-> Cardinality(Nodes), generation |-> gbar.generation + 1]
    BY <1>0, <1>5 DEF Arrived
  <2>2. \A m \in Nodes \ {n} : NodeParked(m) /\ NodeArrives(m)
    BY <1>0, <1>5, LastNode DEF NodeArrives, NodeParked
  <2>3. GlobalClosed /\ gremaining = Cardinality(Nodes)
    BY <2>2, <1>3 DEF GlobalClosed, SyncInv, GlobalSync, GlobalCounts
  <2>4. ASSUME NEW u \in Threads PROVE pc'[u] \notin {"gbar", "gleading"} /\ ~GParked(u)'
    <3>1. CASE u = t
      BY <3>1, <2>1, <1>1 DEF GParked
    <3>2. CASE u # t /\ NodeOf[u] = n
      <4>1. pc[u] = "wait"
        BY <3>2, <1>0, GlobalLeader DEF ThreadsOf
      <4> QED
        BY <3>2, <4>1, <1>1 DEF GParked
    <3>3. CASE NodeOf[u] # n
      <4>1. PICK v \in ThreadsOf(NodeOf[u]) : GParked(v)
        BY <3>3, <2>2, ThreadTypes DEF NodeParked, SyncInv
      <4>2. v \in Threads /\ NodeOf[v] = NodeOf[u] /\ pc[v] = "gwait" /\ gen[v] = gbar.generation
        BY <4>1 DEF ThreadsOf, GParked
      <4>3. CASE u = v
        BY <4>2, <4>3, <3>3, <2>1, <1>1 DEF GParked
      <4>4. CASE u # v
        <5>1. pc[u] = "wait"
          BY <4>2, <4>4, GlobalLeader DEF ThreadsOf
        <5> QED
          BY <5>1, <3>3, <1>1 DEF GParked
      <4> QED
        BY <4>3, <4>4
    <3> QED
      BY <3>1, <3>2, <3>3
  <2>5. \A m \in Nodes : ~NodeParked(m)' /\ ~NodeArrives(m)' /\ ~NodeSelected(m)'
    BY <2>4, <1>4 DEF NodeParked, NodeArrives, NodeSelected
  <2>6. {m \in Nodes : ~NodeParked(m)}' = Nodes /\ {m \in Nodes : ~NodeSelected(m)}' = Nodes
        /\ ~GlobalClosed'
    BY <2>5, <1>3 DEF GlobalClosed
  <2>7. GlobalCounts'
    BY <2>1, <2>3, <2>6, <1>0 DEF GlobalCounts
  <2>8. OneNodeLeads'
    BY <2>4, <2>6 DEF OneNodeLeads
  <2> QED
    BY <2>7, <2>8, <1>2 DEF SyncInv, GlobalSync
<1>6. CASE gbar.awaited # 1
  <2>1. gbar'.awaited = gbar.awaited - 1 /\ gbar'.generation = gbar.generation
    BY <1>0, <1>1, <1>6 DEF Arrived
  <2>2. GParked(t)' /\ \A u \in Threads \ {t} : GParked(u)' <=> GParked(u)
    BY <2>1, <1>1 DEF GParked
  <2>3. /\ \A m \in Nodes \ {n} : /\ NodeParked(m)' <=> NodeParked(m)
                                  /\ NodeArrives(m)' <=> NodeArrives(m)
                                  /\ NodeSelected(m)' <=> NodeSelected(m)
        /\ NodeParked(n)' /\ NodeArrives(n)' /\ NodeSelected(n)'
    <3>1. pc[t] \in LeaderPCs \ {"leading"}
      BY <1>0 DEF LeaderPCs
    <3> QED
      BY <3>1, <2>2, <1>1, OnlyOwnNode
  <2>4. GlobalClosed' <=> GlobalClosed
    BY <2>3, <1>3 DEF GlobalClosed
  <2> DEFINE away == {m \in Nodes : ~NodeParked(m)}
  <2>5. n \in away /\ away \in SUBSET Nodes /\ gbar.awaited = Cardinality(away)
    BY <1>3 DEF SyncInv, GlobalSync, GlobalCounts
  <2>6. {m \in Nodes : ~NodeParked(m)}' = away \ {n}
    BY <2>3
  <2>7. {m \in Nodes : ~NodeSelected(m)}' = {m \in Nodes : ~NodeSelected(m)}
    BY <2>3, <1>3
  <2>8. Cardinality(away \ {n}) = Cardinality(away) - 1 /\ away # {n}
    <3> HIDE DEF away
    <3>1. IsFiniteSet(away)
      BY <2>5, GlobalCards
    <3> QED
      BY <3>1, <2>5, <1>6, Less, FS_Singleton
  <2>9. GlobalCounts'
    BY <2>1, <2>4, <2>5, <2>6, <2>7, <2>8, <1>0 DEF GlobalCounts, SyncInv, GlobalSync
  <2>10. ~GlobalClosed
    <3> SUFFICES ASSUME GlobalClosed PROVE FALSE
      OBVIOUS
    <3>1. PICK k \in Nodes : ~NodeParked(k) /\ \A m \in Nodes \ {k} : NodeParked(m)
      BY DEF SyncInv, GlobalSync, OneNodeLeads
    <3>2. k = n
      BY <3>1, <1>3
    <3> QED
      BY <3>1, <3>2, <2>8, <1>3
  <2>11. OneNodeLeads'
    <3>1. ASSUME NEW u \in Threads, pc'[u] = "gleading"
          PROVE  \A m \in Nodes \ {NodeOf[u]} : NodeArrives(m)'
      <4>1. pc[u] = "gleading"
        BY <3>1, <1>1
      <4>2. \A m \in Nodes \ {NodeOf[u]} : NodeArrives(m)
        BY <4>1 DEF SyncInv, GlobalSync, OneNodeLeads
      <4> QED
        BY <4>2, <2>3
    <3> QED
      BY <3>1, <2>4, <2>10 DEF OneNodeLeads
  <2> QED
    BY <2>9, <2>11, <1>2 DEF SyncInv, GlobalSync
<1> QED
  BY <1>5, <1>6

\* A leader notices that the global barrier has opened.
LEMMA GlobalReleasedSync ==
  ASSUME SyncInv, Types', NEW t \in Threads, GlobalReleased(t)
  PROVE  SyncInv'
<1>0. /\ pc[t] = "gwait" /\ gbar.generation = gen[t] + 1
      /\ UNCHANGED <<remaining, gremaining, bar, gbar, gen, loop>>
      /\ pc' = [pc EXCEPT ![t] = "cleanup"]
  BY DEF GlobalReleased, Goto, sync
<1>1. /\ \A u \in Threads \ {t} : pc'[u] = pc[u]
      /\ pc'[t] = "cleanup" /\ gen[t] \in Nat
  BY <1>0 DEF SyncInv, Types
<1>2. NodeSync'
  <2>1. pc[t] \in LeaderPCs \ {"leading"} /\ pc'[t] \in LeaderPCs \ {"leading"}
    BY <1>0, <1>1 DEF LeaderPCs
  <2> QED
    BY <2>1, <1>0, <1>1, SameNodes DEF SyncInv
<1>3. \A u \in Threads : /\ GParked(u)' <=> GParked(u)
                         /\ pc'[u] = "gbar" <=> pc[u] = "gbar"
                         /\ pc'[u] = "gleading" <=> pc[u] = "gleading"
  BY <1>0, <1>1 DEF GParked
<1> QED
  BY <1>0, <1>2, <1>3, SameGlobal DEF SyncInv


-----------------------------------------------------------------------------
(* SyncInv is an invariant                                                 *)

\* The counters that are decremented are not zero.
LEMMA Positive ==
  ASSUME SyncInv, NEW t \in Threads
  PROVE  /\ pc[t] = "end" => remaining[NodeOf[t]] - 1 \in Nat
         /\ pc[t] = "bar" => bar[NodeOf[t]].awaited \in Nat \ {0}
         /\ pc[t] = "gend" => gremaining - 1 \in Nat
         /\ pc[t] = "gbar" => gbar.awaited \in Nat \ {0}
<1>1. NodeOf[t] \in Nodes /\ t \in ThreadsOf(NodeOf[t])
  BY ThreadTypes DEF SyncInv
<1>2. pc[t] = "bar" => bar[NodeOf[t]].awaited \in Nat \ {0}
  <2> SUFFICES ASSUME pc[t] = "bar" PROVE bar[NodeOf[t]].awaited \in Nat \ {0}
    OBVIOUS
  <2>1. AwayFrom(NodeOf[t]) \in SUBSET ThreadsOf(NodeOf[t]) /\ t \in AwayFrom(NodeOf[t])
    BY <1>1 DEF AwayFrom, Parked
  <2> QED
    BY <2>1, <1>1, NodeCards DEF SyncInv, NodeSync, NodeCount
<1>3. pc[t] = "gbar" => gbar.awaited \in Nat \ {0}
  <2> SUFFICES ASSUME pc[t] = "gbar" PROVE gbar.awaited \in Nat \ {0}
    OBVIOUS
  <2> DEFINE away == {m \in Nodes : ~NodeParked(m)}
  <2>1. away \in SUBSET Nodes /\ NodeOf[t] \in away /\ gbar.awaited = Cardinality(away)
    BY <1>1, Represents DEF LeaderPCs, GParked, SyncInv, GlobalSync, GlobalCounts
  <2> HIDE DEF away
  <2> QED
    BY <2>1, GlobalCards
<1>4. pc[t] = "end" => remaining[NodeOf[t]] - 1 \in Nat
  <2> SUFFICES ASSUME pc[t] = "end" PROVE remaining[NodeOf[t]] - 1 \in Nat
    OBVIOUS
  <2>1. remaining[NodeOf[t]] \in Nat \ {0}
    BY SelectLeaderFacts
  <2> QED
    BY <2>1
<1>5. pc[t] = "gend" => gremaining - 1 \in Nat
  <2> SUFFICES ASSUME pc[t] = "gend" PROVE gremaining - 1 \in Nat
    OBVIOUS
  <2>1. gremaining \in Nat \ {0}
    BY SelectGlobalLeaderFacts
  <2> QED
    BY <2>1
<1> QED
  BY <1>2, <1>3, <1>4, <1>5

\* The number of threads of a node is a natural number.
LEMMA NodeCounts ==
  \A n \in Nodes : ThreadsPerNode(n) \in Nat
BY NodeCards, \A n \in Nodes : ThreadsOf(n) \in SUBSET ThreadsOf(n)

\* A work share of a node, and what gomp_iter_dynamic_next_raw makes of it.
LEMMA ShareType ==
  ASSUME Types, NEW t \in Threads, NEW from \in Int, NEW to \in Int
  PROVE  [ws[NodeOf[t]] EXCEPT !.next = from, !.end = to]
           \in [sched : {"static", "dynamic"}, next : Int, end : Int, chunk : Int,
                completed : BOOLEAN]
<1> DEFINE w == ws[NodeOf[t]]
<1>1. w \in [sched : {"static", "dynamic"}, next : Int, end : Int, chunk : Int,
             completed : BOOLEAN]
  BY ThreadTypes
<1> HIDE DEF w
<1>2. [w EXCEPT !.next = from, !.end = to]
           \in [sched : {"static", "dynamic"}, next : Int, end : Int, chunk : Int,
                completed : BOOLEAN]
  BY <1>1
<1> QED
  BY <1>2 DEF w

\* The size of a node's batch is an integer.
LEMMA NodeChunkType ==
  ASSUME Types, NEW t \in Threads
  PROVE  NodeChunk(t) \in Int
<1>1. ws[NodeOf[t]].chunk \in Int /\ ThreadsPerNode(NodeOf[t]) \in Nat
  BY ThreadTypes, NodeCounts
<1>2. ws[NodeOf[t]].chunk * ThreadsPerNode(NodeOf[t]) \in Int
  BY <1>1
<1> QED
  BY <1>2, LongType DEF NodeChunk

\* Types, for the steps that start a loop.
LEMMA TypesWork ==
  ASSUME NoProbes, SyncInv, NEW t \in Threads,
         \/ InitNode(t) \/ InitGlobal(t) \/ FoundGlobal(t) \/ SetGlobal(t) \/ SetNode(t)
         \/ FoundNode(t) \/ NextExhausted(t) \/ NextRefill(t) \/ Last(t) \/ StaticNext(t)
  PROVE  Types'
<1> DEFINE n == NodeOf[t]
<1>0. Types
  BY DEF SyncInv
<1>1. /\ n \in Nodes /\ loop[t] \in LoopIds /\ ws[n].sched \in {"static", "dynamic"}
      /\ gws.next \in Int
  BY <1>0, ThreadTypes DEF Types
<1> DEFINE Share == [sched : {"static", "dynamic"}, next : Int, end : Int, chunk : Int,
                     completed : BOOLEAN]
<1>2. CASE InitNode(t)
  <2>1. NodeShare(n, loop[t]) \in Share
    <3> DEFINE l == loop[t]
    <3>1. Loops[l].end \in Int /\ Loops[l].chunk \in Int /\ Sched(l) \in {"static", "dynamic"}
      BY <1>0, <1>1, LoopTypes
    <3>2. NodeShare(n, l) = [sched |-> Sched(l), next |-> 0,
                            end |-> IF Sched(l) = "static" THEN Loops[l].end ELSE 0,
                            chunk |-> Loops[l].chunk, completed |-> FALSE]
      BY <1>0, <1>1, NodeShareIs
    <3>3. \A a \in {"static", "dynamic"} : \A e, c \in Int :
            [sched |-> a, next |-> 0, end |-> IF a = "static" THEN e ELSE 0, chunk |-> c,
             completed |-> FALSE] \in Share
      OBVIOUS
    <3> HIDE DEF Share
    <3> QED
      BY <3>1, <3>2, <3>3
  <2>2. ws' \in [Nodes -> Share] /\ wsLock' \in [Nodes -> LockStates]
    <3> HIDE DEF Share
    <3> QED
      BY <1>0, <1>2, <2>1 DEF InitNode, Types, LockStates, Share
  <2>3. pc' \in [Threads -> WorkPCs \cup LeaderPCs \cup {"bar", "wait"}]
    BY <1>0, <1>2 DEF InitNode, Types, LoopIds, Goto, WorkPCs
  <2> QED
    BY <1>0, <1>2, <2>2, <2>3 DEF InitNode, Types, LoopIds, sync, rates, progress
<1>3. CASE InitGlobal(t)
  <2>1. Loops[loop[t]].end \in Int /\ Mode(n, loop[t]) \in BOOLEAN
    BY <1>0, <1>1, LoopTypes DEF Mode
  <2>2. gws' \in [sched : {"static", "dynamic"}, next : Int, end : Int, mode : BOOLEAN]
    BY <1>3, <2>1 DEF InitGlobal
  <2> QED
    BY <1>0, <1>3, <2>2 DEF InitGlobal, Types, LoopIds, Goto, WorkPCs, LockStates, sync, rates, progress
<1>4. CASE FoundGlobal(t)
  BY <1>0, <1>4 DEF FoundGlobal, Types, LoopIds, Goto, WorkPCs, sync, shares, rates, progress
<1>5. CASE SetGlobal(t)
  BY <1>0, <1>5 DEF SetGlobal, Types, LoopIds, Goto, WorkPCs, LockStates, sync, rates, progress
<1>6. CASE SetNode(t)
  <2>1. /\ ws' = ws /\ wsLock' \in [Nodes -> LockStates]
        /\ pc' \in [Threads -> WorkPCs \cup LeaderPCs \cup {"bar", "wait"}]
        /\ UNCHANGED <<Loops, gwsLock, gws, mutex, rates, sync, probing, loop, start, progress>>
    BY <1>0, <1>6, SetNodeIs DEF Types, WorkPCs, LockStates
  <2> QED
    BY <1>0, <2>1 DEF Types, LoopIds, sync, rates, progress
<1>7. CASE FoundNode(t)
  <2>1. pc' = [pc EXCEPT ![t] = IF ws[n].sched = "static" THEN "static" ELSE "next"]
    BY <1>1, <1>7, BeginIs DEF FoundNode
  <2>2. pc' \in [Threads -> WorkPCs \cup LeaderPCs \cup {"bar", "wait"}]
    BY <1>0, <2>1 DEF Types, WorkPCs
  <2> QED
    BY <1>0, <1>7, <2>2 DEF FoundNode, Types, LoopIds, sync, shares, rates, progress
<1>8. CASE NextExhausted(t)
  BY <1>0, <1>8 DEF NextExhausted, Types, LoopIds, Goto, WorkPCs, sync, shares, rates, progress
<1>9. CASE NextRefill(t)
  <2>1. /\ pc' \in [Threads -> WorkPCs \cup LeaderPCs \cup {"bar", "wait"}]
        /\ start' \in [Threads -> Int] /\ mutex' \in [Nodes -> Threads \cup {None}]
    BY <1>0, <1>1, <1>9 DEF NextRefill, Types, LoopIds, Goto, WorkPCs
  <2> QED
    BY <1>0, <1>9, <2>1 DEF NextRefill, Types, LoopIds, sync, rates, progress
<1>10. CASE Last(t)
  <2>1. ws[n].sched # "hetprobe"
    BY <1>1
  <2>2. probing' = probing
    BY <1>0, <1>10, <2>1 DEF Last, Types
  <2>3. pc' \in [Threads -> WorkPCs \cup LeaderPCs \cup {"bar", "wait"}]
    BY <1>0, <1>10 DEF Last, Types, LoopIds, Goto, WorkPCs
  <2> QED
    BY <1>0, <1>10, <2>2, <2>3 DEF Last, Types, LoopIds, sync, shares, rates, progress
<1>11. CASE StaticNext(t)
  BY <1>0, <1>11 DEF StaticNext, Types, LoopIds, Goto, WorkPCs, sync, shares, rates, progress
<1> QED
  BY <1>2, <1>3, <1>4, <1>5, <1>6, <1>7, <1>8, <1>9, <1>10, <1>11

\* Types, for the steps that take iterations.
LEMMA TypesTake ==
  ASSUME NoProbes, SyncInv, NEW t \in Threads, NextLocal(t) \/ AddNext(t) \/ CasNext(t)
  PROVE  Types'
<1> DEFINE n == NodeOf[t]
           Share == [sched : {"static", "dynamic"}, next : Int, end : Int, chunk : Int,
                     completed : BOOLEAN]
           PCs == WorkPCs \cup LeaderPCs \cup {"bar", "wait"}
<1>0. Types
  BY DEF SyncInv
<1>1. /\ n \in Nodes /\ ws[n] \in Share /\ NodeChunk(t) \in Int /\ start[t] \in Int
      /\ gws.next \in Int /\ gws.end \in Int
  BY <1>0, ThreadTypes, NodeChunkType DEF Types
<1>2. ASSUME NEW w \in Share, TakeFrom(t, w)
      PROVE  ws' \in [Nodes -> Share] /\ batch' \in [Threads -> Int] /\ pc' \in [Threads -> PCs]
  <2>1. PICK to \in Int : /\ ws' = [ws EXCEPT ![n] = [w EXCEPT !.next = to]]
                          /\ batch' = [batch EXCEPT ![t] = to]
                          /\ pc' = [pc EXCEPT ![t] = "last"]
    <3>1. \E to \in Int :
           /\ to = Long(w.next + (IF w.chunk > Long(w.end - w.next) THEN Long(w.end - w.next)
                                                                    ELSE w.chunk))
           /\ ws' = [ws EXCEPT ![NodeOf[t]] = [w EXCEPT !.next = to]]
           /\ Give(loop[t], w.next, to)
           /\ batch' = [batch EXCEPT ![t] = to]
           /\ pc' = [pc EXCEPT ![t] = "last"]
      BY <1>0, <1>2, TakeFromIs
    <3> QED
      BY <3>1
  <2>2. [w EXCEPT !.next = to] \in Share
    OBVIOUS
  <2>3. ws \in [Nodes -> Share] /\ batch \in [Threads -> Int] /\ pc \in [Threads -> PCs]
        /\ "last" \in PCs
    BY <1>0 DEF Types, WorkPCs
  <2> HIDE DEF Share, PCs
  <2> QED
    BY <2>1, <2>2, <2>3
<1>3. ASSUME NEW from \in Int, NEW to \in Int, Refilled(t, from, to)
      PROVE  /\ ws' \in [Nodes -> Share] /\ batch' \in [Threads -> Int] /\ pc' \in [Threads -> PCs]
             /\ mutex' \in [Nodes -> Threads \cup {None}]
  <2>1. [ws[n] EXCEPT !.next = from, !.end = to] \in Share
    BY <1>0, ShareType
  <2>2. TakeFrom(t, [ws[n] EXCEPT !.next = from, !.end = to])
    BY <1>3 DEF Refilled
  <2>3. mutex' \in [Nodes -> Threads \cup {None}]
    BY <1>0, <1>3 DEF Refilled, Types
  <2> QED
    BY <1>2, <2>1, <2>2, <2>3
<1>4. ASSUME NothingLeft(t)
      PROVE  /\ ws' \in [Nodes -> Share] /\ batch' = batch /\ pc' \in [Threads -> PCs]
             /\ mutex' \in [Nodes -> Threads \cup {None}]
  <2>1. [ws[n] EXCEPT !.completed = TRUE] \in Share
    BY <1>1
  <2>2. ws' = [ws EXCEPT ![n] = [ws[n] EXCEPT !.completed = TRUE]]
    BY <1>4 DEF NothingLeft
  <2>3. ws \in [Nodes -> Share]
    BY <1>0 DEF Types
  <2>4. ws' \in [Nodes -> Share]
    <3> HIDE DEF Share
    <3> QED
      BY <2>1, <2>2, <2>3
  <2> QED
    BY <1>0, <1>4, <2>4 DEF NothingLeft, Types, LoopIds, Goto, WorkPCs
<1>5. CASE NextLocal(t)
  <2>1. ws' \in [Nodes -> Share] /\ batch' \in [Threads -> Int] /\ pc' \in [Threads -> PCs]
    BY <1>1, <1>2, <1>5 DEF NextLocal
  <2> QED
    BY <1>0, <1>5, <2>1 DEF NextLocal, Types, LoopIds, sync, rates
<1>6. ASSUME NEW a \in Int
      PROVE  [gws EXCEPT !.next = a] \in [sched : {"static", "dynamic"}, next : Int, end : Int,
                                          mode : BOOLEAN]
  BY <1>0 DEF Types
<1>7. CASE AddNext(t)
  <2> DEFINE nend == Long(gws.next + NodeChunk(t))
             to == IF nend > gws.end THEN gws.end ELSE nend
  <2>1. nend \in Int /\ to \in Int
    BY <1>1, LongType
  <2>2. gws' = [gws EXCEPT !.next = nend]
    BY <1>7 DEF AddNext
  <2>3. NothingLeft(t) \/ Refilled(t, gws.next, to)
    BY <1>7 DEF AddNext
  <2> HIDE DEF nend, to
  <2>4. /\ ws' \in [Nodes -> Share] /\ batch' \in [Threads -> Int] /\ pc' \in [Threads -> PCs]
        /\ mutex' \in [Nodes -> Threads \cup {None}]
    BY <2>1, <2>3, <1>0, <1>1, <1>3, <1>4 DEF Types
  <2>5. gws' \in [sched : {"static", "dynamic"}, next : Int, end : Int, mode : BOOLEAN]
    BY <2>1, <2>2, <1>6
  <2> QED
    BY <1>0, <1>7, <2>4, <2>5 DEF AddNext, Types, LoopIds, sync, rates
<1>8. CASE CasNext(t)
  <2> DEFINE left == Long(gws.end - start[t])
             take == IF NodeChunk(t) > left THEN left ELSE NodeChunk(t)
             nend == Long(start[t] + take)
  <2>1. left \in Int /\ take \in Int
    BY <1>1, LongType
  <2>2. nend \in Int
    <3> HIDE DEF take
    <3> QED
      BY <2>1, <1>1, LongType
  <2>3. \/ NothingLeft(t) /\ UNCHANGED <<gws, start>>
        \/ gws' = [gws EXCEPT !.next = nend] /\ Refilled(t, start[t], nend) /\ UNCHANGED start
        \/ start' = [start EXCEPT ![t] = gws.next]
           /\ UNCHANGED <<pc, gws, ws, mutex, batch, given, twice>>
    BY <1>8 DEF CasNext
  <2>4. UNCHANGED <<Loops, wsLock, gwsLock, rates, sync, probing, loop, flagged>>
    BY <1>8 DEF CasNext
  <2> HIDE DEF nend
  <2>5. CASE NothingLeft(t) /\ UNCHANGED <<gws, start>>
    BY <1>0, <2>4, <2>5, <1>4 DEF Types, LoopIds, sync, rates
  <2>6. CASE gws' = [gws EXCEPT !.next = nend] /\ Refilled(t, start[t], nend) /\ UNCHANGED start
    <3>1. gws' \in [sched : {"static", "dynamic"}, next : Int, end : Int, mode : BOOLEAN]
      BY <2>2, <2>6, <1>6
    <3> QED
      BY <1>0, <1>1, <2>2, <2>4, <2>6, <3>1, <1>3 DEF Types, LoopIds, sync, rates
  <2>7. CASE start' = [start EXCEPT ![t] = gws.next]
             /\ UNCHANGED <<pc, gws, ws, mutex, batch, given, twice>>
    BY <1>0, <1>1, <2>4, <2>7 DEF Types, LoopIds, sync, rates
  <2> QED
    BY <2>3, <2>5, <2>6, <2>7
<1> QED
  BY <1>5, <1>7, <1>8

\* Types, for the steps that end a loop.
LEMMA TypesSync ==
  ASSUME NoProbes, SyncInv, NEW t \in Threads,
         \/ SelectLeader(t) \/ FinishNode(t) \/ SelectGlobalLeader(t) \/ FinishGlobal(t)
         \/ GlobalBarrier(t) \/ GlobalReleased(t) \/ Cleanup(t) \/ NodeBarrier(t) \/ NodeReleased(t)
  PROVE  Types'
<1> DEFINE n == NodeOf[t]
           PCs == WorkPCs \cup LeaderPCs \cup {"bar", "wait"}
<1>0. Types
  BY DEF SyncInv
<1>1. n \in Nodes /\ loop[t] \in LoopIds /\ ThreadsPerNode(n) \in Nat /\ Cardinality(Nodes) \in Nat
  BY <1>0, ThreadTypes, NodeCounts, GlobalCards
<1>2. CASE SelectLeader(t)
  <2>1. remaining' \in [Nodes -> Nat]
    BY <1>0, <1>1, <1>2, Positive DEF SelectLeader, Types
  <2> QED
    BY <1>0, <1>2, <2>1 DEF SelectLeader, Types, LoopIds, Goto, WorkPCs, LeaderPCs, sync, shares, rates, progress
<1>3. CASE FinishNode(t)
  <2>1. wsLock' \in [Nodes -> LockStates] /\ pc' \in [Threads -> PCs]
    BY <1>0, <1>3, FinishNodeIs, ZenonT(60) DEF Types, LockStates, LeaderPCs
  <2> QED
    BY <1>0, <1>3, <2>1 DEF FinishNode, Types, LoopIds, sync, rates, progress
<1>4. CASE SelectGlobalLeader(t)
  <2>1. gremaining' \in Nat
    BY <1>4, Positive DEF SelectGlobalLeader
  <2> QED
    BY <1>0, <1>4, <2>1 DEF SelectGlobalLeader, Types, LoopIds, Goto, LeaderPCs, sync, shares, rates, progress
<1>5. CASE FinishGlobal(t)
  BY <1>0, <1>1, <1>5 DEF FinishGlobal, Types, LoopIds, Goto, LeaderPCs, LockStates, sync, rates, progress
<1>6. CASE GlobalBarrier(t)
  <2>1. gbar.awaited \in Nat \ {0} /\ gbar \in [awaited : Nat, generation : Nat]
    BY <1>0, <1>6, Positive DEF GlobalBarrier, Types
  <2>2. gbar' \in [awaited : Nat, generation : Nat]
    BY <1>1, <1>6, <2>1 DEF GlobalBarrier, Arrived
  <2> QED
    BY <1>0, <1>6, <2>1, <2>2 DEF GlobalBarrier, Types, LoopIds, Goto, LeaderPCs, shares, rates, progress
<1>7. CASE GlobalReleased(t)
  BY <1>0, <1>7 DEF GlobalReleased, Types, LoopIds, Goto, LeaderPCs, sync, shares, rates, progress
<1>8. CASE Cleanup(t)
  BY <1>0, <1>1, <1>8 DEF Cleanup, Types, LoopIds, Goto, shares, rates, progress
<1>9. CASE NodeBarrier(t)
  <2>1. bar[n].awaited \in Nat \ {0} /\ bar[n] \in [awaited : Nat, generation : Nat]
    BY <1>0, <1>9, Positive, ThreadTypes DEF NodeBarrier
  <2>2. Arrived(bar[n], ThreadsPerNode(n)) \in [awaited : Nat, generation : Nat]
    BY <1>1, <2>1 DEF Arrived
  <2>3. bar' \in [Nodes -> [awaited : Nat, generation : Nat]]
    BY <1>0, <1>9, <2>2 DEF NodeBarrier, Types
  <2>4. gen' \in [Threads -> Nat] /\ pc' \in [Threads -> PCs]
    BY <1>0, <1>9, <2>1 DEF NodeBarrier, Types, LoopIds, Goto
  <2> QED
    BY <1>0, <1>9, <2>3, <2>4 DEF NodeBarrier, Types, LoopIds, shares, rates, progress
<1>10. CASE NodeReleased(t)
  <2>1. pc' \in [Threads -> PCs] /\ loop' \in [Threads -> LoopIds]
    <3>1. \/ /\ loop[t] < Len(Loops) /\ loop' = [loop EXCEPT ![t] = loop[t] + 1]
             /\ pc' = [pc EXCEPT ![t] = "init"]
          \/ loop' = loop /\ pc' = [pc EXCEPT ![t] = "done"]
      BY <1>0, <1>10, NodeReleasedIs
    <3>2. LoopIds = 1 .. Len(Loops) /\ Len(Loops) \in Nat
      BY <1>0, LoopTypes
    <3>3. loop[t] < Len(Loops) => loop[t] + 1 \in LoopIds
      BY <1>1, <3>2
    <3>4. loop' \in [Threads -> LoopIds]
      BY <1>0, <3>1, <3>3 DEF Types
    <3>5. pc' \in [Threads -> PCs]
      BY <1>0, <3>1 DEF Types, WorkPCs
    <3> QED
      BY <3>4, <3>5
  <2>2. UNCHANGED <<Loops, shares, rates, sync, probing, start, progress>>
    BY <1>0, <1>10, NodeReleasedIs
  <2> QED
    BY <1>0, <2>1, <2>2 DEF Types, LoopIds, sync, shares, rates, progress, LoopIds
<1> QED
  BY <1>2, <1>3, <1>4, <1>5, <1>6, <1>7, <1>8, <1>9, <1>10


\* At the start everybody is outside.
LEMMA InitSync ==
  ASSUME NoProbes, Init
  PROVE  SyncInv
<1>1. /\ Loops \in Regions /\ 1 \in LoopIds
      /\ killed = 0 /\ probing = [t \in Threads |-> FALSE]
      /\ gremaining = Cardinality(Nodes)
      /\ remaining = [n \in Nodes |-> ThreadsPerNode(n)]
      /\ bar = [n \in Nodes |-> [awaited |-> ThreadsPerNode(n), generation |-> 0]]
      /\ gbar = [awaited |-> Cardinality(Nodes), generation |-> 0]
      /\ pc = [t \in Threads |-> "init"] /\ loop = [t \in Threads |-> 1]
      /\ gen = [t \in Threads |-> 0]
  BY LoopFacts DEF Init, LoopIds, Fresh
<1>2. \A n \in Nodes : ThreadsOf(n) # {} /\ ThreadsOf(n) \subseteq Threads
                       /\ ThreadsPerNode(n) \in Nat /\ ThreadsPerNode(n) = Cardinality(ThreadsOf(n))
  BY WorkshareAssumption, NodeCounts DEF ThreadsOf, ThreadsPerNode
<1>3. Nodes # {} /\ Cardinality(Nodes) \in Nat
  BY WorkshareAssumption, GlobalCards
<1>4. Types
  <2>1. /\ ws \in [Nodes -> [sched : {"static", "dynamic"}, next : Int, end : Int, chunk : Int,
                             completed : BOOLEAN]]
        /\ gws \in [sched : {"static", "dynamic"}, next : Int, end : Int, mode : BOOLEAN]
        /\ wsLock \in [Nodes -> LockStates] /\ gwsLock \in LockStates
        /\ mutex \in [Nodes -> Threads \cup {None}]
        /\ start \in [Threads -> Int] /\ batch \in [Threads -> Int]
    BY DEF Init, LockStates
  <2> QED
    BY <2>1, <1>1, <1>2, <1>3 DEF Types, WorkPCs
<1>5. \A t \in Threads : /\ ~Parked(t) /\ Outside(t) /\ ~Leading(t) /\ pc[t] = "init" /\ Cur(t) = 1
                         /\ ~GParked(t)
  BY <1>1 DEF Parked, Outside, Leading, Cur, Freed, GParked, WorkPCs, LeaderPCs
<1>6. \A n \in Nodes : AwayFrom(n) = ThreadsOf(n) /\ OutsideOf(n) = ThreadsOf(n) /\ ~Closed(n)
  BY <1>2, <1>5 DEF AwayFrom, OutsideOf, Closed
<1>7. NodeSync
  BY <1>1, <1>2, <1>5, <1>6 DEF NodeSync, NodeCount, OneComesLast, LeaderAlone, InStep
<1>8. \A n \in Nodes : ~NodeParked(n) /\ ~NodeArrives(n) /\ ~NodeSelected(n)
  BY <1>2, <1>5 DEF NodeParked, NodeArrives, NodeSelected
<1>9. {n \in Nodes : ~NodeParked(n)} = Nodes /\ {n \in Nodes : ~NodeSelected(n)} = Nodes
      /\ ~GlobalClosed
  BY <1>3, <1>8 DEF GlobalClosed
<1>10. GlobalSync
  BY <1>1, <1>5, <1>9 DEF GlobalSync, GlobalCounts, OneNodeLeads
<1> QED
  BY <1>4, <1>7, <1>10 DEF SyncInv

\* The steps of a thread that is outside the synchronisation.
Works(t) ==
  \/ InitNode(t) \/ InitGlobal(t) \/ FoundGlobal(t) \/ SetGlobal(t) \/ SetNode(t) \/ FoundNode(t)
  \/ NextLocal(t) \/ NextExhausted(t) \/ NextRefill(t) \/ AddNext(t) \/ CasNext(t)
  \/ Last(t) \/ StaticNext(t)

AtWork == WorkPCs \ {"done"}

\* Where the steps of the work in a loop go.
LEMMA WorkControl ==
  ASSUME NoProbes, Types, NEW t \in Threads, Works(t)
  PROVE  /\ pc[t] \in AtWork \ {"end"} /\ UNCHANGED <<Loops, rates, sync, probing, loop>>
         /\ \E l \in AtWork \ {"init"} : pc' = [pc EXCEPT ![t] = l]
<1> DEFINE n == NodeOf[t]
<1>0. n \in Nodes /\ ws[n].sched \in {"static", "dynamic"} /\ loop[t] \in LoopIds
  BY ThreadTypes
<1> USE DEF AtWork, WorkPCs, Goto
<1>1. CASE InitNode(t)
  BY <1>1 DEF InitNode
<1>2. CASE InitGlobal(t)
  BY <1>2 DEF InitGlobal
<1>3. CASE FoundGlobal(t)
  BY <1>3 DEF FoundGlobal
<1>4. CASE SetGlobal(t)
  BY <1>4 DEF SetGlobal
<1>5. CASE SetNode(t)
  BY <1>5, SetNodeIs
<1>6. CASE FoundNode(t)
  <2>1. pc' = [pc EXCEPT ![t] = IF ws[n].sched = "static" THEN "static" ELSE "next"]
    BY <1>0, <1>6, BeginIs DEF FoundNode
  <2>2. pc' = [pc EXCEPT ![t] = "static"] \/ pc' = [pc EXCEPT ![t] = "next"]
    BY <2>1
  <2> QED
    BY <1>6, <2>2 DEF FoundNode
<1>7. CASE NextLocal(t)
  BY <1>7 DEF NextLocal, TakeFrom
<1>8. CASE NextExhausted(t)
  BY <1>8 DEF NextExhausted
<1>9. CASE NextRefill(t)
  BY <1>9 DEF NextRefill
<1>10. CASE AddNext(t)
  <2>1. pc' = [pc EXCEPT ![t] = "end"] \/ pc' = [pc EXCEPT ![t] = "last"]
    BY <1>10 DEF AddNext, NothingLeft, Refilled, TakeFrom
  <2> QED
    BY <1>10, <2>1 DEF AddNext
<1>11. CASE CasNext(t)
  <2>1. \/ pc' = [pc EXCEPT ![t] = "end"] \/ pc' = [pc EXCEPT ![t] = "last"]
        \/ pc' = [pc EXCEPT ![t] = "cas"]
    BY <1>11 DEF CasNext, NothingLeft, Refilled, TakeFrom, Types
  <2> QED
    BY <1>11, <2>1 DEF CasNext
<1>12. CASE Last(t)
  <2>1. probing' = probing /\ pc' = [pc EXCEPT ![t] = "next"]
    BY <1>0, <1>12 DEF Last, Types
  <2> QED
    BY <1>12, <2>1 DEF Last
<1>13. CASE StaticNext(t)
  BY <1>13 DEF StaticNext
<1> QED
  BY <1>1, <1>2, <1>3, <1>4, <1>5, <1>6, <1>7, <1>8, <1>9, <1>10, <1>11, <1>12, <1>13 DEF Works

\* Work in a loop leaves the synchronisation alone.
LEMMA WorksSync ==
  ASSUME NoProbes, SyncInv, NEW t \in Threads, Works(t)
  PROVE  SyncInv'
<1>1. Types'
  BY TypesWork, TypesTake DEF Works
<1>2. /\ pc[t] \in AtWork \ {"end"} /\ UNCHANGED <<Loops, rates, sync, probing, loop>>
      /\ \E l \in AtWork \ {"init"} : pc' = [pc EXCEPT ![t] = l]
  BY WorkControl DEF SyncInv
<1>3. pc'[t] \in AtWork /\ \A u \in Threads \ {t} : pc'[u] = pc[u]
  BY <1>2 DEF SyncInv, Types
<1>4. /\ Outside(t) /\ pc'[t] \in WorkPCs /\ Cur(t)' = Cur(t)
      /\ \A u \in Threads \ {t} : pc'[u] = pc[u] /\ loop'[u] = loop[u]
  BY <1>2, <1>3 DEF Outside, AtWork, WorkPCs, Cur, Freed
<1> QED
  BY <1>1, <1>2, <1>4, WorkStep

\* A released thread was in the next loop already.
LEMMA NodeReleasedControl ==
  ASSUME NoProbes, SyncInv, NEW t \in Threads, NodeReleased(t)
  PROVE  /\ Freed(t) /\ ~Freed(t)' /\ Cur(t)' = Cur(t)
         /\ pc'[t] = (IF loop[t] < Len(Loops) THEN "init" ELSE "done")
         /\ Cur(t) = loop[t] + 1
         /\ \A u \in Threads \ {t} : pc'[u] = pc[u] /\ loop'[u] = loop[u]
<1>1. /\ Freed(t) /\ UNCHANGED sync
      /\ \/ /\ loop[t] < Len(Loops) /\ loop' = [loop EXCEPT ![t] = loop[t] + 1]
            /\ pc' = [pc EXCEPT ![t] = "init"]
         \/ /\ loop[t] = Len(Loops) /\ loop' = loop
            /\ pc' = [pc EXCEPT ![t] = "done"]
  BY NodeReleasedIs DEF SyncInv
<1>2. loop[t] \in 1 .. Len(Loops) /\ Len(Loops) \in Nat
  BY ThreadTypes, LoopTypes DEF SyncInv
<1>3. pc'[t] \in {"init", "done"} /\ \A u \in Threads \ {t} : pc'[u] = pc[u] /\ loop'[u] = loop[u]
  BY <1>1 DEF SyncInv, Types
<1>4. pc'[t] = IF loop[t] < Len(Loops) THEN "init" ELSE "done"
  BY <1>1, <1>2 DEF SyncInv, Types
<1>5. Cur(t)' = Cur(t) /\ Cur(t) = loop[t] + 1
  BY <1>1, <1>2, <1>3, <1>4 DEF Cur, Freed, SyncInv, Types
<1> QED
  BY <1>1, <1>3, <1>4, <1>5 DEF Freed

\* It comes outside again.
LEMMA NodeReleasedSync ==
  ASSUME NoProbes, SyncInv, NEW t \in Threads, NodeReleased(t)
  PROVE  SyncInv'
<1>1. Types'
  BY TypesSync
<1>2. /\ Outside(t) /\ pc'[t] \in WorkPCs /\ Cur(t)' = Cur(t)
      /\ \A u \in Threads \ {t} : pc'[u] = pc[u] /\ loop'[u] = loop[u]
  BY NodeReleasedControl DEF Outside, WorkPCs
<1>3. UNCHANGED sync
  BY NodeReleasedIs DEF SyncInv
<1> QED
  BY <1>1, <1>2, <1>3, WorkStep

\* Every step keeps the synchronisation.
LEMMA StepSync ==
  ASSUME NoProbes, SyncInv, NEW t \in Threads, Steps(t)
  PROVE  SyncInv'
<1>1. CASE Works(t)
  BY <1>1, WorksSync
<1>2. CASE SelectLeader(t)
  BY <1>2, SelectLeaderSync, TypesSync
<1>3. CASE FinishNode(t)
  BY <1>3, FinishNodeSync, TypesSync
<1>4. CASE SelectGlobalLeader(t)
  BY <1>4, SelectGlobalLeaderSync, TypesSync
<1>5. CASE FinishGlobal(t)
  BY <1>5, FinishGlobalSync, TypesSync
<1>6. CASE GlobalBarrier(t)
  BY <1>6, GlobalBarrierSync, TypesSync
<1>7. CASE GlobalReleased(t)
  BY <1>7, GlobalReleasedSync, TypesSync
<1>8. CASE Cleanup(t)
  BY <1>8, CleanupSync, TypesSync
<1>9. CASE NodeBarrier(t)
  BY <1>9, NodeBarrierSync, TypesSync
<1>10. CASE NodeReleased(t)
  BY <1>10, NodeReleasedSync
<1> QED
  BY <1>1, <1>2, <1>3, <1>4, <1>5, <1>6, <1>7, <1>8, <1>9, <1>10 DEF Steps, Works

\* A step that changes nothing.
LEMMA StutterSync ==
  ASSUME SyncInv, UNCHANGED vars
  PROVE  SyncInv'
<1> USE DEF vars, shares, rates, sync, progress
<1>1. Types'
  BY DEF SyncInv, Types, LoopIds
<1>2. NodeSync'
  BY SMTT(60) DEF SyncInv, NodeSync, NodeCount, OneComesLast, LeaderAlone, InStep, Closed, AwayFrom, OutsideOf,
     Outside, Leading, Parked, Freed, Cur
<1>3. GlobalSync'
  BY DEF SyncInv, GlobalSync, GlobalCounts, OneNodeLeads, GlobalClosed, NodeParked, NodeArrives,
     NodeSelected, GParked
<1> QED
  BY <1>1, <1>2, <1>3 DEF SyncInv

\* And so does every step of the system.
LEMMA NextSync ==
  ASSUME NoProbes, SyncInv, [Next]_vars
  PROVE  SyncInv'
<1>1. CASE UNCHANGED vars
  BY <1>1, StutterSync
<1>2. ASSUME NEW t \in Threads, ThreadStep(t) PROVE SyncInv'
  BY <1>2, OnlySteps, StepSync DEF SyncInv
<1> QED
  BY <1>1, <1>2 DEF Next, Done

\* The synchronisation that ends a loop: in every state the counters count who
\* has not come, one thread leads a node and one node all, and the threads of
\* a node are in the same loop.
THEOREM Synchronised == Spec => [](NoProbes => SyncInv)
<1>1. Init => (NoProbes => SyncInv)
  BY InitSync
<1>2. (NoProbes => SyncInv) /\ [Next]_vars => (NoProbes => SyncInv)'
  BY NextSync, SameProbes
<1> QED
  BY <1>1, <1>2, PTL DEF Spec


-----------------------------------------------------------------------------
(* The locks: who has initialised a work share for which loop              *)

\* The threads of n are through with the loop: with a dynamic one the threads
\* of all nodes are.
Past(n) == Closed(n) \/ \E t \in ThreadsOf(n) : pc[t] = "cleanup" \/ GFreed(t)
Ended(t, k) == k < Cur(t) \/ (k = Cur(t) /\ Past(NodeOf[t]))
Dynamic(l) == l \in LoopIds /\ Sched(l) = "dynamic"

\* A dynamic loop ends for all threads at once.
Together == \A t, u \in Threads, k \in LoopIds : Dynamic(k) => (Ended(t, k) <=> Ended(u, k))

\* The leader of n has finalised the work share; nobody has begun the loop.
Finished(n) == Closed(n) \/ \E t \in ThreadsOf(n) : Leading(t) /\ pc[t] # "leading"
Between(t) == pc[t] \in {"init", "done"} \/ Freed(t)
Unstarted(n) == \A t \in ThreadsOf(n) : Between(t)
Owner(t) == pc[t] \in {"initglobal", "setglobal", "setnode"}

\* Only threads of dynamic loops come to the global level.
Kind(t) ==
  /\ pc[t] = "static" => Sched(loop[t]) = "static"
  /\ pc[t] \in {"initglobal", "setglobal", "next", "add", "cas", "last",
                "gend", "gleading", "gbar", "gwait"} => Sched(loop[t]) = "dynamic"

\* A node's work share is armed from the first thread that begins a loop to the
\* leader that ends it, and has one owner while it is initialised.
NodeLock(n) ==
  /\ wsLock[n] = "null" <=> Finished(n) \/ Unstarted(n)
  /\ wsLock[n] = "owned" => \E t \in ThreadsOf(n) : Owner(t)
  /\ \A t \in ThreadsOf(n) : Owner(t) =>
       wsLock[n] = "owned" /\ \A u \in ThreadsOf(n) \ {t} : Between(u)
NodeShareOf(t) ==
  wsLock[NodeOf[t]] # "null" =>
    /\ Cur(t) \in LoopIds
    /\ ws[NodeOf[t]].sched = Sched(Cur(t)) /\ ws[NodeOf[t]].chunk = Loops[Cur(t)].chunk
Mutex(t) == pc[t] \in {"add", "cas"} <=> mutex[NodeOf[t]] = t

GlobalLock ==
  /\ \A t \in Threads : pc[t] = "setglobal" =>
       gwsLock = "owned" /\ \A u \in Threads : pc[u] = "setglobal" => u = t
  /\ gwsLock = "owned" => \E t \in Threads : pc[t] = "setglobal"
  /\ GlobalClosed => gwsLock = "null"

\* g is the dynamic loop that is next to end.
Is(g) ==
  /\ Dynamic(g)
  /\ \A t \in Threads : ~Ended(t, g) /\ \A k \in LoopIds : k < g /\ Dynamic(k) => Ended(t, k)
GlobalShare ==
  gwsLock # "null" =>
    \E g \in LoopIds : Is(g) /\ gws.end = Loops[g].end /\ gws.sched = "dynamic"
Started(t) == wsLock[NodeOf[t]] = "set" \/ pc[t] = "setnode" \/ Finished(NodeOf[t])
GlobalSet ==
  \A t \in Threads :
    Dynamic(Cur(t)) /\ Started(t) /\ ~Past(NodeOf[t]) /\ ~GlobalClosed => gwsLock = "set"

Locks == /\ Together /\ (\A n \in Nodes : NodeLock(n)) /\ (\A t \in Threads : NodeShareOf(t))
         /\ GlobalLock /\ GlobalShare /\ GlobalSet
LockInv == Locks /\ \A t \in Threads : Kind(t) /\ Mutex(t)

\* What LockInv says of a thread that works or leads.
LEMMA OutsideFacts ==
  ASSUME SyncInv, NEW t \in Threads, Outside(t)
  PROVE  /\ ~Closed(NodeOf[t]) /\ ~Finished(NodeOf[t]) /\ ~Past(NodeOf[t])
         /\ ~NodeArrives(NodeOf[t]) /\ ~GlobalClosed
         /\ \A u \in ThreadsOf(NodeOf[t]) : ~Leading(u)
<1> DEFINE n == NodeOf[t]
<1>1. n \in Nodes /\ t \in ThreadsOf(n) /\ pc[t] # "bar" /\ ~Parked(t) /\ ~Leading(t)
  BY ThreadTypes, Places DEF SyncInv
<1>2. \A u \in ThreadsOf(n) : ~Leading(u)
  <2> SUFFICES ASSUME NEW u \in ThreadsOf(n), Leading(u) PROVE FALSE
    OBVIOUS
  <2>1. u \in Threads /\ NodeOf[u] = n /\ u # t
    BY <1>1 DEF ThreadsOf
  <2>2. LeaderAlone(u)
    BY <2>1 DEF SyncInv, NodeSync
  <2> QED
    BY <1>1, <2>1, <2>2 DEF LeaderAlone
<1>3. ~Closed(n)
  BY <1>1 DEF Closed
<1>4. ~NodeArrives(n) /\ ~Finished(n) /\ ~Past(n)
  BY <1>2, <1>3 DEF NodeArrives, Finished, Past, Leading, LeaderPCs, GParked, GFreed
<1> QED
  BY <1>1, <1>2, <1>3, <1>4 DEF GlobalClosed

\* What LockInv says of a node that has a leader.
LEMMA LeaderFacts ==
  ASSUME SyncInv, NEW t \in Threads, Leading(t)
  PROVE  /\ ~Closed(NodeOf[t]) /\ ~Unstarted(NodeOf[t])
         /\ Finished(NodeOf[t]) <=> pc[t] # "leading"
         /\ Past(NodeOf[t]) <=> pc[t] = "cleanup" \/ GFreed(t)
         /\ \A u \in ThreadsOf(NodeOf[t]) \ {t} :
              /\ ~Leading(u) /\ ~Outside(u) /\ ~Between(u) /\ pc[u] \in {"bar", "wait"}
              /\ ~Freed(u)
         /\ Cur(t) = loop[t] /\ ~Between(t)
<1> DEFINE n == NodeOf[t]
<1>1. n \in Nodes /\ t \in ThreadsOf(n) /\ pc[t] # "bar" /\ ~Parked(t) /\ ~Outside(t)
  BY ThreadTypes, Places DEF SyncInv
<1>2. LeaderAlone(t)
  BY DEF SyncInv, NodeSync
<1>3. \A u \in ThreadsOf(n) \ {t} : /\ ~Leading(u) /\ ~Outside(u) /\ pc[u] \in {"bar", "wait"}
                                    /\ ~Freed(u) /\ ~Between(u)
  BY <1>2 DEF LeaderAlone, Leading, LeaderPCs, Outside, WorkPCs, Parked, Freed, Between
<1>4. Cur(t) = loop[t] /\ ~Between(t)
  BY DEF Cur, Between, Leading, LeaderPCs, Freed
<1>5. ~Closed(n) /\ ~Unstarted(n)
  BY <1>1, <1>4 DEF Closed, Unstarted
<1>6. Finished(n) <=> pc[t] # "leading"
  BY <1>1, <1>3, <1>5 DEF Finished
<1>7. Past(n) <=> pc[t] = "cleanup" \/ GFreed(t)
  BY <1>1, <1>3, <1>5 DEF Past, GFreed
<1> QED
  BY <1>3, <1>4, <1>5, <1>6, <1>7

\* A step of t leaves the other nodes as they are.
LEMMA OtherNodes ==
  ASSUME Types, NEW t \in Threads,
         \A u \in Threads \ {t} : pc'[u] = pc[u] /\ loop'[u] = loop[u] /\ gen'[u] = gen[u],
         \A m \in Nodes \ {NodeOf[t]} : bar'[m] = bar[m],
         gbar'.generation = gbar.generation
  PROVE  /\ \A m \in Nodes \ {NodeOf[t]} :
              /\ Closed(m)' <=> Closed(m)
              /\ Finished(m)' <=> Finished(m)
              /\ Past(m)' <=> Past(m)
              /\ NodeArrives(m)' <=> NodeArrives(m)
              /\ Unstarted(m)' <=> Unstarted(m)
         /\ \A u \in Threads : NodeOf[u] # NodeOf[t] =>
              /\ Cur(u)' = Cur(u)
              /\ Between(u)' <=> Between(u)
              /\ Owner(u)' <=> Owner(u)
              /\ pc'[u] = pc[u] /\ u # t
<1>1. ASSUME NEW u \in Threads, NodeOf[u] # NodeOf[t]
      PROVE  /\ Cur(u)' = Cur(u)
             /\ Between(u)' <=> Between(u)
             /\ Owner(u)' <=> Owner(u)
             /\ Parked(u)' <=> Parked(u)
             /\ Leading(u)' <=> Leading(u)
             /\ GFreed(u)' <=> GFreed(u)
             /\ GParked(u)' <=> GParked(u)
             /\ pc'[u] = pc[u] /\ u # t
  <2>1. u # t /\ NodeOf[u] \in Nodes \ {NodeOf[t]}
    BY <1>1, ThreadTypes
  <2> QED
    BY <2>1 DEF Cur, Between, Owner, Parked, Freed, Leading, GFreed, GParked
<1>2. ASSUME NEW m \in Nodes \ {NodeOf[t]}
      PROVE  /\ Closed(m)' <=> Closed(m)
             /\ Finished(m)' <=> Finished(m)
             /\ Past(m)' <=> Past(m)
             /\ NodeArrives(m)' <=> NodeArrives(m)
             /\ Unstarted(m)' <=> Unstarted(m)
  <2>1. \A u \in ThreadsOf(m) : u \in Threads /\ NodeOf[u] # NodeOf[t]
    BY DEF ThreadsOf
  <2>2. (Closed(m)' <=> Closed(m)) /\ (Unstarted(m)' <=> Unstarted(m))
    BY <2>1, <1>1 DEF Closed, Unstarted
  <2> QED
    BY <2>1, <2>2, <1>1 DEF Finished, Past, NodeArrives
<1> QED
  BY <1>1, <1>2

\* The loops that have ended stay the same.
LEMMA EndedKept ==
  ASSUME Types, Loops' = Loops, \A u \in Threads : Cur(u)' = Cur(u),
         \A n \in Nodes : Past(n)' <=> Past(n)
  PROVE  /\ \A u \in Threads : \A k \in LoopIds : Ended(u, k)' <=> Ended(u, k)
         /\ Together => Together'
         /\ \A g \in LoopIds : (Is(g)' <=> Is(g)) /\ (Dynamic(g)' <=> Dynamic(g))
<1>1. LoopIds' = LoopIds /\ \A k \in LoopIds : Dynamic(k)' <=> Dynamic(k)
  BY DEF LoopIds, Dynamic, Sched
<1>2. \A u \in Threads : \A k \in LoopIds : Ended(u, k)' <=> Ended(u, k)
  BY ThreadTypes DEF Ended
<1> QED
  BY <1>1, <1>2 DEF Together, Is

\* A step at which no dynamic loop ends and no node begins or leaves a loop.
EndsKept ==
  /\ Loops' = Loops
  /\ \A u \in Threads : Cur(u)' = Cur(u)
  /\ \A n \in Nodes : Unstarted(n)' <=> Unstarted(n)
  /\ \A u \in Threads, k \in LoopIds : Dynamic(k) => (Ended(u, k)' <=> Ended(u, k))
LoopsKept == EndsKept /\ (GlobalClosed' <=> GlobalClosed)

\* A step that leaves the locks, and what they depend on, as they are.
LEMMA LocksKept ==
  ASSUME Types, Locks, UNCHANGED <<Loops, wsLock, gwsLock>>,
         \A n \in Nodes : ws'[n].sched = ws[n].sched /\ ws'[n].chunk = ws[n].chunk,
         gws'.sched = gws.sched, gws'.end = gws.end,
         \A u \in Threads : /\ Cur(u)' = Cur(u)
                            /\ Between(u)' <=> Between(u)
                            /\ Owner(u)' <=> Owner(u)
                            /\ pc'[u] = "setnode" <=> pc[u] = "setnode"
                            /\ pc'[u] = "setglobal" <=> pc[u] = "setglobal",
         \A n \in Nodes : (Finished(n)' <=> Finished(n)) /\ (Past(n)' <=> Past(n)),
         GlobalClosed' <=> GlobalClosed
  PROVE  Locks' /\ LoopsKept
<1>1. /\ Together'
      /\ \A g \in LoopIds : (Is(g)' <=> Is(g)) /\ (Dynamic(g)' <=> Dynamic(g))
  BY EndedKept DEF Locks
<1>2. \A n \in Nodes : ThreadsOf(n) \subseteq Threads
  BY DEF ThreadsOf
<1>8. LoopsKept
  <2>1. \A n \in Nodes : Unstarted(n)' <=> Unstarted(n)
    BY <1>2 DEF Unstarted
  <2>2. \A u \in Threads : \A k \in LoopIds : Ended(u, k)' <=> Ended(u, k)
    BY EndedKept
  <2> QED
    BY <2>1, <2>2 DEF LoopsKept, EndsKept
<1>3. \A n \in Nodes : NodeLock(n)'
  <2> SUFFICES ASSUME NEW n \in Nodes PROVE NodeLock(n)'
    OBVIOUS
  <2>1. Unstarted(n)' <=> Unstarted(n)
    BY <1>2 DEF Unstarted
  <2>2. NodeLock(n)
    BY DEF Locks
  <2> QED
    BY <2>1, <2>2, <1>2 DEF NodeLock
<1>4. \A u \in Threads : NodeShareOf(u)'
  <2> SUFFICES ASSUME NEW u \in Threads PROVE NodeShareOf(u)'
    OBVIOUS
  <2>1. NodeShareOf(u) /\ NodeOf[u] \in Nodes
    BY ThreadTypes DEF Locks
  <2> QED
    BY <2>1 DEF NodeShareOf, LoopIds, Sched
<1>5. GlobalLock'
  BY DEF Locks, GlobalLock
<1>6. GlobalShare'
  BY <1>1 DEF Locks, GlobalShare, LoopIds
<1>7. GlobalSet'
  <2> SUFFICES ASSUME NEW u \in Threads,
                      Dynamic(Cur(u))', Started(u)', ~Past(NodeOf[u])', ~GlobalClosed'
               PROVE  gwsLock' = "set"
    BY DEF GlobalSet
  <2>1. Dynamic(Cur(u)) /\ Started(u) /\ ~Past(NodeOf[u]) /\ ~GlobalClosed
    BY ThreadTypes DEF Dynamic, Started, LoopIds, Sched
  <2> QED
    BY <2>1 DEF Locks, GlobalSet
<1> QED
  BY <1>1, <1>3, <1>4, <1>5, <1>6, <1>7, <1>8 DEF Locks


-----------------------------------------------------------------------------
(* The steps of a thread at work: Locks                                    *)

\* What no step of a thread at work changes.
LEMMA WorkFrame ==
  ASSUME NoProbes, SyncInv, NEW t \in Threads, Works(t)
  PROVE  /\ UNCHANGED <<Loops, loop, gen, bar, gbar>>
         /\ \A u \in Threads \ {t} : pc'[u] = pc[u]
         /\ \A u \in Threads : Cur(u)' = Cur(u)
         /\ \A u \in Threads \ {t} : (Between(u)' <=> Between(u)) /\ (Owner(u)' <=> Owner(u))
         /\ \A n \in Nodes : (Finished(n)' <=> Finished(n)) /\ (Past(n)' <=> Past(n))
         /\ \A n \in Nodes \ {NodeOf[t]} : Unstarted(n)' <=> Unstarted(n)
         /\ ~GlobalClosed /\ ~GlobalClosed' /\ ~Between(t)' /\ Cur(t) = loop[t]
         /\ ~Finished(NodeOf[t]) /\ ~Past(NodeOf[t])
<1> DEFINE n == NodeOf[t]
<1>1. /\ pc[t] \in AtWork \ {"end"} /\ UNCHANGED <<Loops, loop, gen, bar, gbar>>
      /\ pc'[t] \in AtWork \ {"init"} /\ \A u \in Threads \ {t} : pc'[u] = pc[u]
  BY WorkControl DEF SyncInv, sync, Types
<1>2. Outside(t) /\ ~Between(t)' /\ Cur(t) = loop[t] /\ Cur(t)' = loop[t]
  BY <1>1 DEF Outside, Between, Freed, Cur, AtWork, WorkPCs
<1>3. \A u \in Threads \ {t} : /\ Between(u)' <=> Between(u)
                               /\ Owner(u)' <=> Owner(u)
                               /\ Cur(u)' = Cur(u)
                               /\ Leading(u)' <=> Leading(u)
  BY <1>1 DEF Between, Owner, Cur, Freed, Leading
<1>4. /\ ~Finished(n) /\ ~Past(n) /\ ~NodeArrives(n) /\ ~GlobalClosed
      /\ \A u \in ThreadsOf(n) : ~Leading(u)
  BY <1>2, OutsideFacts
<1>5. n \in Nodes /\ t \in ThreadsOf(n) /\ ThreadsOf(n) \subseteq Threads
  BY ThreadTypes DEF SyncInv
<1>6. ~Leading(t)' /\ pc'[t] # "bar" /\ ~Parked(t)'
  BY <1>1 DEF Leading, LeaderPCs, Parked, AtWork, WorkPCs
<1>7. \A u \in ThreadsOf(n) : ~Leading(u)'
  BY <1>3, <1>4, <1>5, <1>6
<1>8. ~Closed(n)'
  BY <1>5, <1>6 DEF Closed
<1>9. ~Finished(n)' /\ ~Past(n)' /\ ~NodeArrives(n)'
  BY <1>7, <1>8 DEF Finished, Past, NodeArrives, Leading, LeaderPCs, GFreed, GParked
<1>10. \A m \in Nodes \ {n} : /\ Finished(m)' <=> Finished(m)
                              /\ Past(m)' <=> Past(m)
                              /\ Unstarted(m)' <=> Unstarted(m)
  BY <1>1, OtherNodes DEF SyncInv
<1>11. ~GlobalClosed'
  BY <1>5, <1>9 DEF GlobalClosed
<1> QED
  BY <1>1, <1>2, <1>3, <1>4, <1>5, <1>9, <1>10, <1>11

\* The steps at which the locks stay as they are.
LEMMA PlainLocks ==
  ASSUME NoProbes, SyncInv, Locks, NEW t \in Threads, Works(t),
         pc[t] \notin {"init", "initglobal", "setglobal", "setnode"},
         pc'[t] \notin {"init", "initglobal", "setglobal", "setnode"},
         UNCHANGED <<wsLock, gwsLock>>, gws'.sched = gws.sched, gws'.end = gws.end,
         \A n \in Nodes : ws'[n].sched = ws[n].sched /\ ws'[n].chunk = ws[n].chunk
  PROVE  Locks'
<1>1. pc[t] \in AtWork
  BY WorkControl DEF SyncInv
<1>2. ~Between(t) /\ ~Owner(t) /\ ~Owner(t)'
  BY <1>1 DEF Between, Freed, Owner, AtWork, WorkPCs
<1>3. /\ Loops' = Loops
      /\ \A u \in Threads : /\ Cur(u)' = Cur(u)
                            /\ Between(u)' <=> Between(u)
                            /\ Owner(u)' <=> Owner(u)
                            /\ pc'[u] = "setnode" <=> pc[u] = "setnode"
                            /\ pc'[u] = "setglobal" <=> pc[u] = "setglobal"
      /\ \A n \in Nodes : (Finished(n)' <=> Finished(n)) /\ (Past(n)' <=> Past(n))
      /\ GlobalClosed' <=> GlobalClosed
  BY <1>2, WorkFrame
<1> QED
  BY <1>3, LocksKept DEF SyncInv

\* The first thread of a node to begin a loop becomes the owner of its work
\* share.
LEMMA InitNodeLocks ==
  ASSUME NoProbes, SyncInv, Locks, NEW t \in Threads, InitNode(t)
  PROVE  Locks'
<1> DEFINE n == NodeOf[t]
<1>0. Types /\ Works(t) /\ n \in Nodes /\ t \in ThreadsOf(n) /\ ThreadsOf(n) \subseteq Threads
      /\ loop[t] \in LoopIds
  BY ThreadTypes DEF SyncInv, Works
<1>1. /\ pc[t] = "init" /\ wsLock[n] = "null" /\ UNCHANGED <<gwsLock, gws>>
      /\ wsLock'[n] = "owned" /\ \A m \in Nodes \ {n} : wsLock'[m] = wsLock[m] /\ ws'[m] = ws[m]
      /\ ws'[n] = NodeShare(n, loop[t])
      /\ pc'[t] = IF NodeShare(n, loop[t]).sched = "static" THEN "setnode" ELSE "initglobal"
  BY <1>0 DEF InitNode, Types, Goto
<1>2. ws'[n].sched = Sched(loop[t]) /\ ws'[n].chunk = Loops[loop[t]].chunk
      /\ NodeShare(n, loop[t]).sched = Sched(loop[t])
  BY <1>0, <1>1, NodeShareIs
<1>3. /\ Loops' = Loops /\ \A u \in Threads \ {t} : pc'[u] = pc[u]
      /\ \A u \in Threads : Cur(u)' = Cur(u)
      /\ \A u \in Threads \ {t} : (Between(u)' <=> Between(u)) /\ (Owner(u)' <=> Owner(u))
      /\ \A m \in Nodes : (Finished(m)' <=> Finished(m)) /\ (Past(m)' <=> Past(m))
      /\ \A m \in Nodes \ {n} : Unstarted(m)' <=> Unstarted(m)
      /\ ~GlobalClosed /\ ~GlobalClosed' /\ ~Between(t)' /\ Cur(t) = loop[t]
      /\ ~Finished(n) /\ ~Past(n)
  BY <1>0, WorkFrame
<1>4. NodeLock(n) /\ \A u \in ThreadsOf(n) : Between(u) /\ ~Owner(u)
  <2>1. NodeLock(n)
    BY <1>0 DEF Locks
  <2>2. Unstarted(n)
    BY <2>1, <1>1, <1>3 DEF NodeLock
  <2> QED
    BY <2>1, <2>2, <1>1 DEF Unstarted, NodeLock
<1>5. /\ Together'
      /\ \A g \in LoopIds : (Is(g)' <=> Is(g)) /\ (Dynamic(g)' <=> Dynamic(g))
      /\ LoopIds' = LoopIds
  BY <1>0, <1>3, EndedKept DEF Locks, LoopIds
<1>6. ASSUME NEW m \in Nodes PROVE NodeLock(m)'
  <2>1. CASE m # n
    <3>1. NodeLock(m) /\ \A u \in ThreadsOf(m) : u \in Threads \ {t}
      BY <2>1 DEF Locks, ThreadsOf
    <3> QED
      BY <3>1, <2>1, <1>1, <1>3 DEF NodeLock
  <2>2. CASE m = n
    <3>1. ~Unstarted(n)' /\ Owner(t)'
      BY <1>0, <1>1, <1>3 DEF Unstarted, Owner
    <3> QED
      BY <3>1, <2>2, <1>0, <1>1, <1>3, <1>4 DEF NodeLock
  <2> QED
    BY <2>1, <2>2
<1>7. ASSUME NEW u \in Threads PROVE NodeShareOf(u)'
  <2>1. CASE NodeOf[u] # n
    <3>1. NodeShareOf(u) /\ NodeOf[u] \in Nodes
      BY <1>0, ThreadTypes DEF Locks
    <3> QED
      BY <3>1, <2>1, <1>1, <1>3, <1>5 DEF NodeShareOf, Sched
  <2>2. CASE NodeOf[u] = n
    <3>1. Cur(u) = loop[t]
      BY <2>2, <1>3 DEF SyncInv, NodeSync, InStep
    <3> QED
      BY <3>1, <2>2, <1>0, <1>1, <1>2, <1>3, <1>5 DEF NodeShareOf, Sched
  <2> QED
    BY <2>1, <2>2
<1>8. GlobalLock'
  BY <1>1, <1>3 DEF Locks, GlobalLock
<1>9. GlobalShare'
  BY <1>1, <1>3, <1>5 DEF Locks, GlobalShare
<1>10. GlobalSet'
  <2> SUFFICES ASSUME NEW u \in Threads, Dynamic(Cur(u))', Started(u)', ~Past(NodeOf[u])'
               PROVE  gwsLock' = "set"
    BY DEF GlobalSet
  <2>1. Dynamic(Cur(u)) /\ ~Past(NodeOf[u]) /\ NodeOf[u] \in Nodes
    BY <1>0, <1>3, <1>5, ThreadTypes DEF Dynamic, Sched
  <2>2. CASE NodeOf[u] # n
    <3>1. Started(u)
      BY <2>1, <2>2, <1>1, <1>3 DEF Started
    <3> QED
      BY <2>1, <3>1, <1>1, <1>3 DEF Locks, GlobalSet
  <2>3. CASE NodeOf[u] = n
    <3>1. Cur(u) = loop[t] /\ u \in ThreadsOf(n)
      BY <2>3, <1>3 DEF SyncInv, NodeSync, InStep, ThreadsOf
    <3>2. pc'[u] # "setnode"
      BY <2>1, <3>1, <1>1, <1>2, <1>3, <1>4 DEF Dynamic, Owner
    <3> QED
      BY <3>2, <2>3, <1>0, <1>1, <1>3 DEF Started
  <2> QED
    BY <2>2, <2>3
<1> QED
  BY <1>5, <1>6, <1>7, <1>8, <1>9, <1>10 DEF Locks

\* A step from one place of the owner of a node's work share to another.
LEMMA OwnerLocks ==
  ASSUME NoProbes, SyncInv, Locks, NEW t \in Threads, Works(t),
         Owner(t), Owner(t)', UNCHANGED <<wsLock, ws>>
  PROVE  /\ Together' /\ (\A n \in Nodes : NodeLock(n)') /\ (\A u \in Threads : NodeShareOf(u)')
         /\ \A g \in LoopIds : (Is(g)' <=> Is(g)) /\ (Dynamic(g)' <=> Dynamic(g))
         /\ LoopIds' = LoopIds
<1>1. /\ Loops' = Loops /\ \A u \in Threads \ {t} : pc'[u] = pc[u]
      /\ \A u \in Threads : Cur(u)' = Cur(u)
      /\ \A u \in Threads \ {t} : (Between(u)' <=> Between(u)) /\ (Owner(u)' <=> Owner(u))
      /\ \A m \in Nodes : (Finished(m)' <=> Finished(m)) /\ (Past(m)' <=> Past(m))
      /\ ~Between(t)'
  BY WorkFrame
<1>2. ~Between(t)
  BY DEF Owner, Between, Freed
<1>3. /\ Together'
      /\ \A g \in LoopIds : (Is(g)' <=> Is(g)) /\ (Dynamic(g)' <=> Dynamic(g))
      /\ LoopIds' = LoopIds
  BY <1>1, EndedKept DEF Locks, LoopIds, SyncInv
<1>4. ASSUME NEW n \in Nodes PROVE NodeLock(n)'
  <2>1. NodeLock(n) /\ ThreadsOf(n) \subseteq Threads
    BY DEF Locks, ThreadsOf
  <2>2. Unstarted(n)' <=> Unstarted(n)
    BY <2>1, <1>1, <1>2 DEF Unstarted
  <2> QED
    BY <2>1, <2>2, <1>1, <1>2 DEF NodeLock
<1>5. ASSUME NEW u \in Threads PROVE NodeShareOf(u)'
  BY <1>1, <1>3 DEF Locks, NodeShareOf, Sched
<1> QED
  BY <1>3, <1>4, <1>5

\* The first owner of a dynamic loop initialises the global work share.
LEMMA InitGlobalLocks ==
  ASSUME NoProbes, SyncInv, Locks, NEW t \in Threads, InitGlobal(t)
  PROVE  Locks'
<1> DEFINE l == loop[t]
           n == NodeOf[t]
<1>0. Types /\ Works(t) /\ l \in LoopIds /\ n \in Nodes
  BY ThreadTypes DEF SyncInv, Works
<1>1. /\ pc[t] = "initglobal" /\ gwsLock = "null" /\ gwsLock' = "owned" /\ Sched(l) = "dynamic"
      /\ gws'.end = Loops[l].end /\ gws'.sched = "dynamic" /\ pc'[t] = "setglobal"
      /\ UNCHANGED <<wsLock, ws>>
  BY <1>0 DEF InitGlobal, Types, Goto
<1>2. Owner(t) /\ Owner(t)'
  BY <1>1 DEF Owner
<1>3. /\ Together' /\ (\A m \in Nodes : NodeLock(m)') /\ (\A u \in Threads : NodeShareOf(u)')
      /\ \A g \in LoopIds : (Is(g)' <=> Is(g)) /\ (Dynamic(g)' <=> Dynamic(g))
      /\ LoopIds' = LoopIds
  BY <1>0, <1>1, <1>2, OwnerLocks
<1>4. /\ Loops' = Loops /\ \A u \in Threads \ {t} : pc'[u] = pc[u]
      /\ \A u \in Threads : Cur(u)' = Cur(u)
      /\ \A m \in Nodes : (Finished(m)' <=> Finished(m)) /\ (Past(m)' <=> Past(m))
      /\ ~GlobalClosed /\ ~GlobalClosed' /\ Cur(t) = l /\ ~Past(n)
  BY <1>0, WorkFrame
<1>5. Is(l)
  <2>1. ~Ended(t, l) /\ \A k \in LoopIds : k < l => Ended(t, k)
    BY <1>0, <1>4, LoopTypes DEF Ended
  <2> QED
    BY <2>1, <1>0, <1>1 DEF Is, Dynamic, Locks, Together
<1>6. GlobalShare'
  BY <1>0, <1>1, <1>3, <1>4, <1>5 DEF GlobalShare
<1>7. GlobalLock'
  <2>1. \A u \in Threads : pc[u] # "setglobal"
    BY <1>1 DEF Locks, GlobalLock
  <2> QED
    BY <2>1, <1>1, <1>4 DEF GlobalLock
<1>8. GlobalSet'
  <2> SUFFICES ASSUME NEW u \in Threads, Dynamic(Cur(u))', Started(u)', ~Past(NodeOf[u])'
               PROVE  FALSE
    BY DEF GlobalSet
  <2>1. Dynamic(Cur(u)) /\ ~Past(NodeOf[u]) /\ NodeOf[u] \in Nodes
    BY <1>0, <1>3, <1>4, ThreadTypes DEF Dynamic, Sched
  <2>2. Started(u)
    BY <2>1, <1>1, <1>4 DEF Started
  <2> QED
    BY <2>1, <2>2, <1>1, <1>4 DEF Locks, GlobalSet
<1> QED
  BY <1>3, <1>6, <1>7, <1>8 DEF Locks

\* The same when the global work share is, or becomes, ready.
LEMMA GlobalReadyLocks ==
  ASSUME NoProbes, SyncInv, Locks, NEW t \in Threads, FoundGlobal(t) \/ SetGlobal(t)
  PROVE  Locks'
<1>0. Types /\ Works(t) /\ Owner(t)
  BY DEF SyncInv, Works, Owner, FoundGlobal, SetGlobal
<1>1. /\ gwsLock' = "set" /\ gwsLock # "null" /\ pc'[t] = "setnode" /\ UNCHANGED <<wsLock, ws, gws>>
      /\ gwsLock = "owned" => pc[t] = "setglobal"
  BY <1>0 DEF FoundGlobal, SetGlobal, Types, Goto, shares, Locks, GlobalLock
<1>2. /\ Together' /\ (\A m \in Nodes : NodeLock(m)') /\ (\A u \in Threads : NodeShareOf(u)')
      /\ \A g \in LoopIds : (Is(g)' <=> Is(g)) /\ (Dynamic(g)' <=> Dynamic(g))
      /\ LoopIds' = LoopIds
  BY <1>0, <1>1, OwnerLocks DEF Owner
<1>3. /\ Loops' = Loops /\ \A u \in Threads \ {t} : pc'[u] = pc[u]
      /\ ~GlobalClosed'
  BY <1>0, WorkFrame
<1>4. GlobalShare'
  BY <1>1, <1>2, <1>3 DEF Locks, GlobalShare
<1>5. GlobalLock'
  BY <1>1, <1>3 DEF Locks, GlobalLock
<1>6. GlobalSet'
  BY <1>1 DEF GlobalSet
<1> QED
  BY <1>2, <1>4, <1>5, <1>6 DEF Locks

\* The first step of the loop's work, after the initialisation or in its place.
LEMMA NodeReadyLocks ==
  ASSUME NoProbes, SyncInv, Locks, NEW t \in Threads, SetNode(t) \/ FoundNode(t)
  PROVE  Locks'
<1> DEFINE n == NodeOf[t]
<1>0. Types /\ Works(t) /\ n \in Nodes /\ t \in ThreadsOf(n) /\ ThreadsOf(n) \subseteq Threads
  BY ThreadTypes DEF SyncInv, Works
<1>1. /\ wsLock'[n] = "set" /\ wsLock[n] # "null" /\ UNCHANGED <<ws, gws, gwsLock>>
      /\ \A m \in Nodes \ {n} : wsLock'[m] = wsLock[m]
      /\ pc'[t] \in {"static", "next"}
      /\ (pc[t] = "init" /\ wsLock[n] = "set") \/ pc[t] = "setnode"
  <2>1. CASE SetNode(t)
    <3>1. /\ pc[t] = "setnode" /\ wsLock' = [wsLock EXCEPT ![n] = "set"]
          /\ pc' = [pc EXCEPT ![t] = IF ws[n].sched = "static" THEN "static" ELSE "next"]
          /\ UNCHANGED <<ws, gws, gwsLock>>
      BY <1>0, <2>1, SetNodeIs
    <3>2. wsLock[n] = "owned"
      BY <3>1, <1>0 DEF Locks, NodeLock, Owner
    <3> QED
      BY <3>1, <3>2, <1>0 DEF Types
  <2>2. CASE FoundNode(t)
    <3>1. Begin(t, ws[n].sched) /\ ws[n].sched \in {"static", "dynamic"}
      BY <1>0, <2>2, ThreadTypes DEF FoundNode
    <3>2. pc' = [pc EXCEPT ![t] = IF ws[n].sched = "static" THEN "static" ELSE "next"]
      BY <3>1, BeginIs
    <3> QED
      BY <3>2, <2>2, <1>0 DEF FoundNode, Types, shares
  <2> QED
    BY <2>1, <2>2
<1>2. /\ Loops' = Loops /\ \A u \in Threads \ {t} : pc'[u] = pc[u]
      /\ \A u \in Threads : Cur(u)' = Cur(u)
      /\ \A u \in Threads \ {t} : (Between(u)' <=> Between(u)) /\ (Owner(u)' <=> Owner(u))
      /\ \A m \in Nodes : (Finished(m)' <=> Finished(m)) /\ (Past(m)' <=> Past(m))
      /\ \A m \in Nodes \ {n} : Unstarted(m)' <=> Unstarted(m)
      /\ ~GlobalClosed /\ ~GlobalClosed' /\ ~Between(t)' /\ Cur(t) = loop[t]
      /\ ~Finished(n) /\ ~Past(n)
  BY <1>0, WorkFrame
<1>3. /\ Together'
      /\ \A g \in LoopIds : (Is(g)' <=> Is(g)) /\ (Dynamic(g)' <=> Dynamic(g))
      /\ LoopIds' = LoopIds
  BY <1>0, <1>2, EndedKept DEF Locks, LoopIds
<1>4. \A u \in ThreadsOf(n) : ~Owner(u)'
  <2> SUFFICES ASSUME NEW u \in ThreadsOf(n), Owner(u)' PROVE FALSE
    OBVIOUS
  <2>1. u # t /\ Owner(u)
    BY <1>0, <1>1, <1>2 DEF Owner
  <2>2. NodeLock(n)
    BY <1>0 DEF Locks
  <2>3. wsLock[n] = "owned" /\ Between(t)
    BY <2>1, <2>2, <1>0 DEF NodeLock
  <2> QED
    BY <2>3, <1>1 DEF Between, Freed
<1>5. ASSUME NEW m \in Nodes PROVE NodeLock(m)'
  <2>1. CASE m # n
    <3>1. NodeLock(m) /\ \A u \in ThreadsOf(m) : u \in Threads \ {t}
      BY <2>1 DEF Locks, ThreadsOf
    <3> QED
      BY <3>1, <2>1, <1>1, <1>2 DEF NodeLock
  <2>2. CASE m = n
    <3>1. ~Unstarted(n)'
      BY <1>0, <1>2 DEF Unstarted
    <3> QED
      BY <3>1, <2>2, <1>0, <1>1, <1>2, <1>4 DEF NodeLock
  <2> QED
    BY <2>1, <2>2
<1>6. ASSUME NEW u \in Threads PROVE NodeShareOf(u)'
  <2>1. NodeShareOf(u) /\ NodeOf[u] \in Nodes
    BY <1>0, ThreadTypes DEF Locks
  <2> QED
    BY <2>1, <1>1, <1>2, <1>3 DEF NodeShareOf, Sched
<1>7. GlobalLock'
  BY <1>1, <1>2 DEF Locks, GlobalLock
<1>8. GlobalShare'
  BY <1>1, <1>2, <1>3 DEF Locks, GlobalShare
<1>9. GlobalSet'
  <2> SUFFICES ASSUME NEW u \in Threads, Dynamic(Cur(u))', Started(u)', ~Past(NodeOf[u])'
               PROVE  gwsLock = "set"
    BY <1>1 DEF GlobalSet
  <2>1. Dynamic(Cur(u)) /\ ~Past(NodeOf[u]) /\ NodeOf[u] \in Nodes
    BY <1>0, <1>2, <1>3, ThreadTypes DEF Dynamic, Sched
  <2>2. CASE NodeOf[u] # n
    <3>1. Started(u)
      BY <2>1, <2>2, <1>1, <1>2 DEF Started
    <3> QED
      BY <2>1, <3>1, <1>2 DEF Locks, GlobalSet
  <2>3. CASE NodeOf[u] = n
    <3>1. Cur(t) = Cur(u)
      BY <2>3 DEF SyncInv, NodeSync, InStep
    <3>2. Started(t)
      BY <1>1 DEF Started
    <3> QED
      BY <2>1, <2>3, <3>1, <3>2, <1>2 DEF Locks, GlobalSet
  <2> QED
    BY <2>2, <2>3
<1> QED
  BY <1>3, <1>5, <1>6, <1>7, <1>8, <1>9 DEF Locks


-----------------------------------------------------------------------------
(* The steps of the synchronisation: Locks                                 *)

\* What a leader's step at the global level changes.
LEMMA LeaderFrame ==
  ASSUME SyncInv, NEW t \in Threads,
         pc[t] \in LeaderPCs \ {"leading"}, pc'[t] \in LeaderPCs \ {"leading"},
         \A u \in Threads \ {t} : pc'[u] = pc[u] /\ gen'[u] = gen[u],
         UNCHANGED <<Loops, loop, bar>>, gbar'.generation = gbar.generation
  PROVE  /\ \A u \in Threads : /\ Cur(u)' = Cur(u)
                               /\ Between(u)' <=> Between(u)
                               /\ Owner(u)' <=> Owner(u)
                               /\ pc'[u] = "setnode" <=> pc[u] = "setnode"
                               /\ pc'[u] = "setglobal" <=> pc[u] = "setglobal"
         /\ \A m \in Nodes : Finished(m)' <=> Finished(m)
         /\ \A m \in Nodes \ {NodeOf[t]} :
              (Past(m)' <=> Past(m)) /\ (NodeArrives(m)' <=> NodeArrives(m))
         /\ Past(NodeOf[t])' <=> pc'[t] = "cleanup" \/ GFreed(t)'
         /\ NodeArrives(NodeOf[t])' <=> pc'[t] = "gbar" \/ GParked(t)'
<1> DEFINE n == NodeOf[t]
<1>0. n \in Nodes /\ t \in ThreadsOf(n) /\ ThreadsOf(n) \subseteq Threads
  BY ThreadTypes DEF SyncInv
<1>1. Leading(t) /\ Leading(t)'
  BY DEF Leading
<1>2. \A u \in Threads : /\ Cur(u)' = Cur(u)
                         /\ Between(u)' <=> Between(u)
                         /\ Owner(u)' <=> Owner(u)
                         /\ pc'[u] = "setnode" <=> pc[u] = "setnode"
                         /\ pc'[u] = "setglobal" <=> pc[u] = "setglobal"
  BY <1>0 DEF Cur, Between, Owner, Freed, LeaderPCs
<1>3. \A m \in Nodes \ {n} : /\ Finished(m)' <=> Finished(m)
                             /\ Past(m)' <=> Past(m)
                             /\ NodeArrives(m)' <=> NodeArrives(m)
  BY OtherNodes DEF SyncInv
<1>4. /\ Finished(n) <=> pc[t] # "leading"
      /\ \A u \in ThreadsOf(n) \ {t} : ~Leading(u) /\ pc[u] \in {"bar", "wait"}
  BY <1>1, LeaderFacts
<1>5. Finished(n)' /\ ~Closed(n)'
  BY <1>0, <1>1 DEF Finished, Closed, Leading, LeaderPCs, Parked
<1>6. \A u \in ThreadsOf(n) \ {t} : pc'[u] \in {"bar", "wait"}
  BY <1>0, <1>4
<1>7. Past(n)' <=> pc'[t] = "cleanup" \/ GFreed(t)'
  BY <1>0, <1>5, <1>6 DEF Past, GFreed
<1>8. NodeArrives(n)' <=> pc'[t] = "gbar" \/ GParked(t)'
  <2>1. \A u \in ThreadsOf(n) \ {t} : ~(pc[u] = "gbar" \/ GParked(u))'
    BY <1>6 DEF GParked
  <2> QED
    BY <2>1, <1>0 DEF NodeArrives
<1> QED
  BY <1>2, <1>3, <1>4, <1>5, <1>7, <1>8

\* A thread that is through with the loop leaves the work shares armed.
LEMMA SelectLeaderLocks ==
  ASSUME SyncInv, Locks, NEW t \in Threads, SelectLeader(t)
  PROVE  Locks' /\ LoopsKept
<1> DEFINE n == NodeOf[t]
<1>0. /\ pc[t] = "end" /\ UNCHANGED <<Loops, shares, bar, gbar, gen, loop>>
      /\ pc'[t] = (IF remaining[n] = 1 THEN "leading" ELSE "bar")
      /\ \A u \in Threads \ {t} : pc'[u] = pc[u]
      /\ Types /\ n \in Nodes /\ t \in ThreadsOf(n) /\ ThreadsOf(n) \subseteq Threads
  BY ThreadTypes DEF SelectLeader, Goto, SyncInv, Types
<1>1. /\ Outside(t) /\ (remaining[n] = 1 <=> OutsideOf(n) = {t})
      /\ \A u \in ThreadsOf(n) : ~Leading(u)
  BY <1>0, SelectLeaderFacts
<1>2. ~Finished(n) /\ ~Past(n) /\ ~NodeArrives(n) /\ ~GlobalClosed
  BY <1>1, OutsideFacts
<1>3. ~Closed(n)'
  <2>1. CASE remaining[n] = 1
    BY <2>1, <1>0 DEF Closed, Parked
  <2>2. CASE remaining[n] # 1
    <3>1. PICK u \in OutsideOf(n) : u # t
      BY <2>2, <1>0, <1>1 DEF OutsideOf
    <3>2. u \in ThreadsOf(n) /\ Outside(u) /\ u \in Threads
      BY <3>1, <1>0 DEF OutsideOf
    <3>3. pc'[u] # "bar" /\ ~Parked(u)'
      BY <3>1, <3>2, <1>0 DEF Outside, Parked, Freed, WorkPCs
    <3> QED
      BY <3>2, <3>3 DEF Closed
  <2> QED
    BY <2>1, <2>2
<1>4. \A u \in ThreadsOf(n) : Leading(u)' => pc'[u] = "leading"
  BY <1>0, <1>1 DEF Leading, LeaderPCs
<1>5. ~Finished(n)' /\ ~Past(n)' /\ ~NodeArrives(n)'
  BY <1>3, <1>4 DEF Finished, Past, NodeArrives, Leading, LeaderPCs, GFreed, GParked
<1>6. \A m \in Nodes \ {n} : (Finished(m)' <=> Finished(m)) /\ (Past(m)' <=> Past(m))
  BY <1>0, OtherNodes
<1>7. ~GlobalClosed'
  BY <1>0, <1>5 DEF GlobalClosed
<1>8. \A u \in Threads : /\ Cur(u)' = Cur(u)
                         /\ Between(u)' <=> Between(u)
                         /\ Owner(u)' <=> Owner(u)
                         /\ pc'[u] = "setnode" <=> pc[u] = "setnode"
                         /\ pc'[u] = "setglobal" <=> pc[u] = "setglobal"
  BY <1>0 DEF Cur, Between, Owner, Freed
<1>9. /\ Loops' = Loops /\ wsLock' = wsLock /\ gwsLock' = gwsLock /\ ws' = ws /\ gws' = gws
  BY <1>0 DEF shares
<1> QED
  BY <1>0, <1>2, <1>5, <1>6, <1>7, <1>8, <1>9, LocksKept

\* The leader finalises the work share of its node, when no thread uses it.
LEMMA FinishNodeLocks ==
  ASSUME SyncInv, Locks, NEW t \in Threads, FinishNode(t)
  PROVE  Locks' /\ LoopsKept /\ ws[NodeOf[t]].sched = Sched(loop[t])
<1> DEFINE n == NodeOf[t]
<1>0. /\ Types /\ n \in Nodes /\ t \in ThreadsOf(n) /\ ThreadsOf(n) \subseteq Threads
      /\ loop[t] \in LoopIds
  BY ThreadTypes DEF SyncInv
<1>1. /\ pc[t] = "leading" /\ wsLock'[n] = "null" /\ \A m \in Nodes \ {n} : wsLock'[m] = wsLock[m]
      /\ UNCHANGED <<Loops, loop, gen, bar, gbar, gwsLock, ws, gws>>
      /\ pc'[t] = (IF ws[n].sched # "static" THEN "gend" ELSE "cleanup")
      /\ \A u \in Threads \ {t} : pc'[u] = pc[u]
  BY <1>0, FinishNodeIs DEF Types, sync
<1>2. /\ ~Closed(n) /\ ~Unstarted(n) /\ ~Finished(n) /\ ~Past(n) /\ Cur(t) = loop[t]
      /\ \A u \in ThreadsOf(n) \ {t} : pc[u] \in {"bar", "wait"} /\ ~Owner(u) /\ ~Between(u)
  BY <1>1, LeaderFacts DEF Leading, LeaderPCs, GFreed, Owner
<1>3. wsLock[n] = "set"
  <2>1. NodeLock(n) /\ wsLock[n] \in LockStates
    BY <1>0 DEF Locks, Types
  <2>2. wsLock[n] # "owned"
    BY <2>1, <1>0, <1>1, <1>2 DEF NodeLock, Owner
  <2> QED
    BY <2>1, <2>2, <1>2 DEF NodeLock, LockStates
<1>4. ws[n].sched = Sched(loop[t])
  BY <1>2, <1>3 DEF Locks, NodeShareOf
<1>5. /\ \A u \in Threads : /\ Cur(u)' = Cur(u)
                            /\ Between(u)' <=> Between(u)
                            /\ Owner(u)' <=> Owner(u)
                            /\ pc'[u] = "setnode" <=> pc[u] = "setnode"
                            /\ pc'[u] = "setglobal" <=> pc[u] = "setglobal"
  BY <1>1 DEF Cur, Between, Owner, Freed
<1>6. \A m \in Nodes \ {n} : /\ Finished(m)' <=> Finished(m)
                             /\ Past(m)' <=> Past(m)
                             /\ NodeArrives(m)' <=> NodeArrives(m)
                             /\ Unstarted(m)' <=> Unstarted(m)
  BY <1>0, <1>1, OtherNodes
<1>7. Finished(n)' /\ ~NodeArrives(n) /\ ~NodeArrives(n)'
  BY <1>0, <1>1, <1>2 DEF Finished, NodeArrives, GParked, Leading, LeaderPCs
<1>8. GlobalClosed' <=> GlobalClosed
  BY <1>0, <1>6, <1>7 DEF GlobalClosed
<1>9. LoopIds' = LoopIds /\ \A k \in LoopIds : Dynamic(k)' <=> Dynamic(k)
  BY <1>1 DEF LoopIds, Dynamic, Sched
<1>10. ASSUME NEW u \in Threads, NEW k \in LoopIds, Dynamic(k) PROVE Ended(u, k)' <=> Ended(u, k)
  <2>1. CASE NodeOf[u] = n
    <3>1. Cur(u) = loop[t]
      BY <2>1, <1>2 DEF SyncInv, NodeSync, InStep
    <3>2. CASE ws[n].sched = "static"
      BY <3>1, <3>2, <1>4, <1>5, <1>10 DEF Ended, Dynamic
    <3>3. CASE ws[n].sched # "static"
      <4>1. ~Past(n)'
        <5>1. pc'[t] = "gend" /\ \A v \in ThreadsOf(n) \ {t} : pc'[v] \in {"bar", "wait"}
          BY <3>3, <1>0, <1>1, <1>2
        <5> QED
          BY <5>1, <1>0 DEF Past, Closed, GFreed, Parked
      <4> QED
        BY <4>1, <2>1, <1>2, <1>5 DEF Ended
    <3> QED
      BY <3>2, <3>3
  <2>2. CASE NodeOf[u] # n
    BY <2>2, <1>0, <1>5, <1>6, ThreadTypes DEF Ended
  <2> QED
    BY <2>1, <2>2
<1>11. Together' /\ \A g \in LoopIds : Is(g)' <=> Is(g)
  BY <1>9, <1>10 DEF Together, Is, Locks
<1>12. ASSUME NEW m \in Nodes PROVE NodeLock(m)'
  <2>1. CASE m # n
    <3>1. NodeLock(m) /\ \A u \in ThreadsOf(m) : u \in Threads \ {t}
      BY <2>1 DEF Locks, ThreadsOf
    <3> QED
      BY <3>1, <2>1, <1>1, <1>5, <1>6 DEF NodeLock
  <2>2. CASE m = n
    <3>1. \A u \in ThreadsOf(n) : ~Owner(u)'
      BY <1>0, <1>1, <1>2, <1>5 DEF Owner
    <3> QED
      BY <3>1, <2>2, <1>1, <1>7 DEF NodeLock
  <2> QED
    BY <2>1, <2>2
<1>13. ASSUME NEW u \in Threads PROVE NodeShareOf(u)'
  <2>1. NodeShareOf(u) /\ NodeOf[u] \in Nodes
    BY <1>0, ThreadTypes DEF Locks
  <2>2. CASE NodeOf[u] = n
    BY <2>2, <1>1 DEF NodeShareOf
  <2>3. CASE NodeOf[u] # n
    BY <2>1, <2>3, <1>1, <1>5, <1>9 DEF NodeShareOf, Sched
  <2> QED
    BY <2>2, <2>3
<1>14. GlobalLock'
  BY <1>1, <1>5, <1>8 DEF Locks, GlobalLock
<1>15. GlobalShare'
  BY <1>1, <1>9, <1>11 DEF Locks, GlobalShare
<1>16. GlobalSet'
  <2> SUFFICES ASSUME NEW u \in Threads,
                      Dynamic(Cur(u))', Started(u)', ~Past(NodeOf[u])', ~GlobalClosed'
               PROVE  gwsLock = "set"
    BY <1>1 DEF GlobalSet
  <2>1. Dynamic(Cur(u)) /\ ~GlobalClosed /\ NodeOf[u] \in Nodes
    BY <1>0, <1>1, <1>5, <1>8, ThreadTypes DEF Dynamic, Sched, LoopIds
  <2>2. CASE NodeOf[u] # n
    <3>1. Started(u) /\ ~Past(NodeOf[u])
      BY <2>1, <2>2, <1>1, <1>5, <1>6 DEF Started
    <3> QED
      BY <2>1, <3>1 DEF Locks, GlobalSet
  <2>3. CASE NodeOf[u] = n
    BY <2>1, <2>3, <1>2, <1>3 DEF Locks, GlobalSet, Started
  <2> QED
    BY <2>2, <2>3
<1>17. LoopsKept
  <2>1. \A m \in Nodes : Unstarted(m)' <=> Unstarted(m)
    BY <1>5 DEF Unstarted, ThreadsOf
  <2> QED
    BY <2>1, <1>1, <1>5, <1>8, <1>10 DEF LoopsKept, EndsKept
<1> QED
  BY <1>4, <1>11, <1>12, <1>13, <1>14, <1>15, <1>16, <1>17 DEF Locks

\* A leader enters the global selection.
LEMMA SelectGlobalLeaderLocks ==
  ASSUME SyncInv, Locks, NEW t \in Threads, SelectGlobalLeader(t)
  PROVE  Locks' /\ LoopsKept
<1> DEFINE n == NodeOf[t]
<1>0. /\ pc[t] = "gend" /\ UNCHANGED <<Loops, shares, bar, gbar, gen, loop>>
      /\ pc'[t] = (IF gremaining = 1 THEN "gleading" ELSE "gbar")
      /\ \A u \in Threads \ {t} : pc'[u] = pc[u]
      /\ Types /\ n \in Nodes
  BY ThreadTypes DEF SelectGlobalLeader, Goto, SyncInv, Types
<1>1. /\ \A u \in Threads : /\ Cur(u)' = Cur(u)
                            /\ Between(u)' <=> Between(u)
                            /\ Owner(u)' <=> Owner(u)
                            /\ pc'[u] = "setnode" <=> pc[u] = "setnode"
                            /\ pc'[u] = "setglobal" <=> pc[u] = "setglobal"
      /\ \A m \in Nodes : Finished(m)' <=> Finished(m)
      /\ \A m \in Nodes \ {n} : (Past(m)' <=> Past(m)) /\ (NodeArrives(m)' <=> NodeArrives(m))
      /\ Past(n)' <=> pc'[t] = "cleanup" \/ GFreed(t)'
      /\ NodeArrives(n)' <=> pc'[t] = "gbar" \/ GParked(t)'
  <2>1. pc[t] \in LeaderPCs \ {"leading"} /\ pc'[t] \in LeaderPCs \ {"leading"}
    BY <1>0 DEF LeaderPCs
  <2> QED
    BY <2>1, <1>0, LeaderFrame
<1>2. ~Past(n) /\ ~Past(n)'
  BY <1>0, <1>1, LeaderFacts DEF Leading, LeaderPCs, GFreed
<1>3. ~GlobalClosed /\ ~GlobalClosed'
  <2> DEFINE open == {m \in Nodes : ~NodeSelected(m)}
  <2>1. ~GlobalClosed /\ (gremaining = 1 <=> open = {n}) /\ n \in open
    BY <1>0, SelectGlobalLeaderFacts
  <2>2. CASE gremaining = 1
    BY <2>1, <2>2, <1>0, <1>1 DEF GlobalClosed, GParked
  <2>3. CASE gremaining # 1
    <3>1. PICK m \in open : m # n
      BY <2>1, <2>3
    <3>2. m \in Nodes \ {n} /\ ~NodeArrives(m)
      BY <3>1 DEF NodeSelected
    <3> QED
      BY <2>1, <3>2, <1>1 DEF GlobalClosed
  <2> QED
    BY <2>2, <2>3
<1>4. /\ Loops' = Loops /\ wsLock' = wsLock /\ gwsLock' = gwsLock /\ ws' = ws /\ gws' = gws
  BY <1>0 DEF shares
<1> QED
  BY <1>0, <1>1, <1>2, <1>3, <1>4, LocksKept

\* When all nodes have come every thread is in the synchronisation.
LEMMA NobodyWorks ==
  ASSUME SyncInv, \A n \in Nodes : \E t \in ThreadsOf(n) : Leading(t), NEW u \in Threads
  PROVE  ~Outside(u)
<1>1. PICK t \in ThreadsOf(NodeOf[u]) : Leading(t)
  BY ThreadTypes DEF SyncInv
<1>2. t \in Threads /\ NodeOf[t] = NodeOf[u] /\ u \in ThreadsOf(NodeOf[t])
  BY <1>1 DEF ThreadsOf
<1>3. ~Outside(t)
  BY <1>1, <1>2, Places DEF SyncInv
<1> QED
  BY <1>1, <1>2, <1>3, LeaderFacts

\* The global leader finalises the global work share, when nobody uses it.
LEMMA FinishGlobalLocks ==
  ASSUME SyncInv, Locks, NEW t \in Threads, FinishGlobal(t)
  PROVE  Locks' /\ EndsKept /\ GlobalClosed'
<1> DEFINE n == NodeOf[t]
<1>0. /\ pc[t] = "gleading" /\ UNCHANGED <<Loops, wsLock, ws, gws, bar, gbar, gen, loop>>
      /\ gwsLock' = "null" /\ pc'[t] = "gbar"
      /\ \A u \in Threads \ {t} : pc'[u] = pc[u]
      /\ Types /\ n \in Nodes /\ t \in ThreadsOf(n)
  BY ThreadTypes DEF FinishGlobal, Goto, SyncInv, Types
<1>1. /\ \A u \in Threads : /\ Cur(u)' = Cur(u)
                            /\ Between(u)' <=> Between(u)
                            /\ Owner(u)' <=> Owner(u)
                            /\ pc'[u] = "setglobal" <=> pc[u] = "setglobal"
      /\ \A m \in Nodes : Finished(m)' <=> Finished(m)
      /\ \A m \in Nodes \ {n} : (Past(m)' <=> Past(m)) /\ (NodeArrives(m)' <=> NodeArrives(m))
      /\ Past(n)' <=> pc'[t] = "cleanup" \/ GFreed(t)'
      /\ NodeArrives(n)' <=> pc'[t] = "gbar" \/ GParked(t)'
  <2>1. pc[t] \in LeaderPCs \ {"leading"} /\ pc'[t] \in LeaderPCs \ {"leading"}
    BY <1>0 DEF LeaderPCs
  <2> QED
    BY <2>1, <1>0, LeaderFrame
<1>2. ~Past(n) /\ ~Past(n)'
  BY <1>0, <1>1, LeaderFacts DEF Leading, LeaderPCs, GFreed
<1>3. \A m \in Nodes \ {n} : NodeArrives(m)
  BY <1>0 DEF SyncInv, GlobalSync, OneNodeLeads
<1>4. GlobalClosed'
  BY <1>0, <1>1, <1>3 DEF GlobalClosed
<1>5. \A u \in Threads : pc[u] # "setglobal"
  <2>1. \A m \in Nodes : \E v \in ThreadsOf(m) : Leading(v)
    BY <1>0, <1>3 DEF NodeArrives, GParked, Leading, LeaderPCs
  <2>2. \A u \in Threads : ~Outside(u)
    BY <2>1, NobodyWorks
  <2> QED
    BY <2>2 DEF Outside, WorkPCs
<1>6. /\ Together'
      /\ \A g \in LoopIds : (Is(g)' <=> Is(g)) /\ (Dynamic(g)' <=> Dynamic(g))
      /\ LoopIds' = LoopIds
  BY <1>0, <1>1, <1>2, EndedKept DEF Locks, LoopIds
<1>7. ASSUME NEW m \in Nodes PROVE NodeLock(m)'
  <2>1. NodeLock(m) /\ ThreadsOf(m) \subseteq Threads
    BY DEF Locks, ThreadsOf
  <2>2. Unstarted(m)' <=> Unstarted(m)
    BY <2>1, <1>1 DEF Unstarted
  <2> QED
    BY <2>1, <2>2, <1>0, <1>1 DEF NodeLock
<1>8. ASSUME NEW u \in Threads PROVE NodeShareOf(u)'
  BY <1>0, <1>1, <1>6 DEF Locks, NodeShareOf, Sched
<1>9. GlobalLock' /\ GlobalShare' /\ GlobalSet'
  BY <1>0, <1>1, <1>4, <1>5 DEF GlobalLock, GlobalShare, GlobalSet
<1>10. EndsKept
  <2>1. \A m \in Nodes : Unstarted(m)' <=> Unstarted(m)
    BY <1>1 DEF Unstarted, ThreadsOf
  <2>2. \A u \in Threads : \A k \in LoopIds : Ended(u, k)' <=> Ended(u, k)
    BY <1>0, <1>1, <1>2, EndedKept
  <2> QED
    BY <2>1, <2>2, <1>0, <1>1 DEF EndsKept
<1> QED
  BY <1>4, <1>6, <1>7, <1>8, <1>9, <1>10 DEF Locks


\* All nodes leave the global barrier in the same loop.
LEMMA SameLoop ==
  ASSUME NoProbes, SyncInv, LockInv,
         \A m \in Nodes : ~Past(m) /\ \E v \in ThreadsOf(m) : pc[v] \in {"gleading", "gbar", "gwait"}
  PROVE  /\ \A u, v \in Threads : Cur(u) = Cur(v)
         /\ \A u \in Threads : Dynamic(Cur(u))
<1>1. ASSUME NEW u \in Threads PROVE Dynamic(Cur(u)) /\ Cur(u) \in Int
  <2>1. NodeOf[u] \in Nodes
    BY ThreadTypes DEF SyncInv
  <2>2. PICK v \in ThreadsOf(NodeOf[u]) : pc[v] \in {"gleading", "gbar", "gwait"}
    BY <2>1
  <2>3. v \in Threads /\ NodeOf[v] = NodeOf[u] /\ Cur(v) = loop[v] /\ loop[v] \in LoopIds
    BY <2>2, ThreadTypes DEF ThreadsOf, SyncInv, Cur, Freed
  <2>4. Cur(u) = Cur(v) /\ Sched(loop[v]) = "dynamic"
    BY <2>2, <2>3 DEF SyncInv, NodeSync, InStep, LockInv, Kind
  <2> QED
    BY <2>3, <2>4, LoopTypes DEF Dynamic, SyncInv
<1>2. ASSUME NEW u \in Threads, NEW v \in Threads PROVE ~(Cur(u) < Cur(v))
  <2> SUFFICES ASSUME Cur(u) < Cur(v) PROVE FALSE
    OBVIOUS
  <2>1. Ended(v, Cur(u)) /\ Dynamic(Cur(u)) /\ Cur(u) \in LoopIds
    BY <1>1 DEF Ended, Dynamic
  <2>2. ~Ended(u, Cur(u))
    <3>1. ~Past(NodeOf[u]) /\ Cur(u) \in Int
      BY <1>1, ThreadTypes DEF SyncInv
    <3> QED
      BY <3>1 DEF Ended
  <2> QED
    BY <2>1, <2>2 DEF LockInv, Locks, Together
<1> QED
  BY <1>1, <1>2

\* The last leader arrives: the loop ends for all threads.
LEMMA GlobalBarrierLast ==
  ASSUME NoProbes, SyncInv, LockInv, NEW t \in Threads, GlobalBarrier(t), gbar.awaited = 1
  PROVE  /\ GlobalClosed /\ gwsLock = "null"
         /\ \A m \in Nodes : ~Past(m) /\ Past(m)' /\ Finished(m) /\ Finished(m)'
         /\ \A u, v \in Threads : Cur(u) = Cur(v)
         /\ \A u \in Threads : Dynamic(Cur(u))
         /\ \A u \in Threads : /\ Cur(u)' = Cur(u)
                               /\ Between(u)' <=> Between(u)
                               /\ Owner(u)' <=> Owner(u)
                               /\ pc'[u] = "setglobal" <=> pc[u] = "setglobal"
<1> DEFINE n == NodeOf[t]
<1>0. /\ pc[t] = "gbar" /\ UNCHANGED <<Loops, shares, bar, loop>> /\ pc'[t] = "gwait"
      /\ gbar' = Arrived(gbar, Cardinality(Nodes))
      /\ \A u \in Threads \ {t} : pc'[u] = pc[u] /\ gen'[u] = gen[u]
      /\ gen'[t] = gbar.generation /\ gbar.generation \in Nat /\ gbar.awaited \in Nat
      /\ Types /\ Locks /\ n \in Nodes /\ t \in ThreadsOf(n)
  BY ThreadTypes DEF GlobalBarrier, Goto, SyncInv, Types, LockInv
<1>12. ~Past(n) /\ NodeArrives(n)
  BY <1>0, LeaderFacts, Represents DEF Leading, LeaderPCs, GFreed
<1>1. \A m \in Nodes \ {n} : NodeParked(m)
  BY <1>0, LastNode
<1>2. gbar'.generation = gbar.generation + 1
  BY <1>0 DEF Arrived
<1>3. GlobalClosed /\ gwsLock = "null"
  BY <1>1, <1>0, <1>12 DEF GlobalClosed, NodeParked, NodeArrives, Locks, GlobalLock
<1>4. ASSUME NEW m \in Nodes
      PROVE  \E v \in ThreadsOf(m) : pc[v] \in {"gbar", "gwait"} /\ ~GFreed(v) /\ GFreed(v)'
  <2>1. CASE m = n
    BY <2>1, <1>2, <1>0 DEF GFreed
  <2>2. CASE m # n
    <3>1. PICK v \in ThreadsOf(m) : GParked(v)
      BY <2>2, <1>1 DEF NodeParked
    <3>2. v \in Threads \ {t}
      BY <3>1, <1>0 DEF ThreadsOf, GParked
    <3> QED
      BY <3>1, <3>2, <1>2, <1>0 DEF GParked, GFreed
  <2> QED
    BY <2>1, <2>2
<1>5. ASSUME NEW m \in Nodes PROVE ~Past(m) /\ Past(m)' /\ Finished(m) /\ Finished(m)'
  <2>1. PICK v \in ThreadsOf(m) : pc[v] \in {"gbar", "gwait"} /\ ~GFreed(v) /\ GFreed(v)'
    BY <1>4
  <2>2. v \in Threads /\ NodeOf[v] = m /\ Leading(v) /\ Leading(v)' /\ pc'[v] = "gwait"
    BY <2>1 DEF ThreadsOf, Leading, LeaderPCs, GFreed
  <2>3. ~Past(m) /\ Finished(m)
    BY <2>1, <2>2, LeaderFacts
  <2> QED
    BY <2>1, <2>2, <2>3 DEF Past, Finished
<1>6. (\A u, v \in Threads : Cur(u) = Cur(v)) /\ \A u \in Threads : Dynamic(Cur(u))
  BY <1>4, <1>5, SameLoop
<1>7. \A u \in Threads : /\ Cur(u)' = Cur(u)
                         /\ Between(u)' <=> Between(u)
                         /\ Owner(u)' <=> Owner(u)
                         /\ pc'[u] = "setglobal" <=> pc[u] = "setglobal"
  BY <1>0 DEF Cur, Between, Owner, Freed
<1> QED
  BY <1>3, <1>5, <1>6, <1>7

\* A leader arrives at the global barrier.
LEMMA GlobalBarrierLocks ==
  ASSUME NoProbes, SyncInv, LockInv, NEW t \in Threads, GlobalBarrier(t)
  PROVE  Locks' /\ (gbar.awaited # 1 => LoopsKept)
<1> DEFINE n == NodeOf[t]
<1>0. /\ pc[t] = "gbar" /\ UNCHANGED <<Loops, shares, bar, loop>> /\ pc'[t] = "gwait"
      /\ gbar' = Arrived(gbar, Cardinality(Nodes))
      /\ \A u \in Threads \ {t} : pc'[u] = pc[u] /\ gen'[u] = gen[u]
      /\ gen'[t] = gbar.generation /\ gbar.generation \in Nat /\ gbar.awaited \in Nat
      /\ Types /\ Locks /\ n \in Nodes /\ t \in ThreadsOf(n)
  BY ThreadTypes DEF GlobalBarrier, Goto, SyncInv, Types, LockInv
<1>1. pc[t] \in LeaderPCs \ {"leading"} /\ pc'[t] \in LeaderPCs \ {"leading"}
  BY <1>0 DEF LeaderPCs
<1>2. ~Past(n) /\ NodeArrives(n)
  BY <1>0, <1>1, LeaderFacts, Represents DEF Leading, GFreed
<1>3. /\ Loops' = Loops /\ wsLock' = wsLock /\ gwsLock' = gwsLock /\ ws' = ws /\ gws' = gws
  BY <1>0 DEF shares
<1>4. CASE gbar.awaited # 1
  <2>1. gbar'.generation = gbar.generation
    BY <1>0, <1>4 DEF Arrived, SyncInv, Types
  <2>2. /\ \A u \in Threads : /\ Cur(u)' = Cur(u)
                              /\ Between(u)' <=> Between(u)
                              /\ Owner(u)' <=> Owner(u)
                              /\ pc'[u] = "setnode" <=> pc[u] = "setnode"
                              /\ pc'[u] = "setglobal" <=> pc[u] = "setglobal"
        /\ \A m \in Nodes : Finished(m)' <=> Finished(m)
        /\ \A m \in Nodes \ {n} : (Past(m)' <=> Past(m)) /\ (NodeArrives(m)' <=> NodeArrives(m))
        /\ Past(n)' <=> pc'[t] = "cleanup" \/ GFreed(t)'
        /\ NodeArrives(n)' <=> pc'[t] = "gbar" \/ GParked(t)'
    BY <2>1, <1>0, <1>1, LeaderFrame
  <2>3. ~Past(n)' /\ NodeArrives(n)'
    BY <2>1, <2>2, <1>0 DEF GFreed, GParked
  <2>4. /\ \A m \in Nodes : (Finished(m)' <=> Finished(m)) /\ (Past(m)' <=> Past(m))
        /\ GlobalClosed' <=> GlobalClosed
    BY <2>2, <2>3, <1>2 DEF GlobalClosed
  <2> QED
    BY <2>2, <2>4, <1>0, <1>3, LocksKept
<1>5. CASE gbar.awaited = 1
  <2>1. gwsLock = "null"
    BY <1>5, GlobalBarrierLast
  <2>2. \A m \in Nodes : ~Past(m) /\ Past(m)' /\ Finished(m) /\ Finished(m)'
    BY <1>5, GlobalBarrierLast
  <2>3. \A u, v \in Threads : Cur(u) = Cur(v)
    BY <1>5, GlobalBarrierLast
  <2>4. \A u \in Threads : /\ Cur(u)' = Cur(u)
                           /\ Between(u)' <=> Between(u)
                           /\ Owner(u)' <=> Owner(u)
                           /\ pc'[u] = "setglobal" <=> pc[u] = "setglobal"
    BY <1>5, GlobalBarrierLast
  <2>8. Together'
    <3>1. LoopIds' = LoopIds /\ \A u \in Threads : Past(NodeOf[u])'
      BY <2>2, <1>0, ThreadTypes DEF LoopIds
    <3>2. \A u \in Threads, k \in LoopIds : Ended(u, k)' <=> k < Cur(u) \/ k = Cur(u)
      BY <2>4, <3>1 DEF Ended
    <3>3. SUFFICES ASSUME NEW u \in Threads, NEW v \in Threads, NEW k \in LoopIds
                   PROVE  Ended(u, k)' <=> Ended(v, k)'
      BY <3>1 DEF Together
    <3> QED
      BY <2>3, <3>2
  <2>9. ASSUME NEW m \in Nodes PROVE NodeLock(m)'
    <3>1. NodeLock(m) /\ ThreadsOf(m) \subseteq Threads
      BY <1>0 DEF Locks, ThreadsOf
    <3>2. Unstarted(m)' <=> Unstarted(m)
      BY <3>1, <2>4 DEF Unstarted
    <3> QED
      BY <3>1, <3>2, <2>2, <2>4, <1>3 DEF NodeLock
  <2>10. ASSUME NEW u \in Threads PROVE NodeShareOf(u)'
    <3>1. NodeShareOf(u)
      BY <1>0 DEF Locks
    <3> QED
      BY <3>1, <2>4, <1>3 DEF NodeShareOf, Sched, LoopIds
  <2>11. GlobalLock' /\ GlobalShare' /\ GlobalSet'
    <3>1. GlobalLock' /\ GlobalShare'
      BY <2>1, <2>4, <1>0, <1>3 DEF Locks, GlobalLock, GlobalShare
    <3>2. GlobalSet'
      BY <2>2, <1>0, ThreadTypes DEF GlobalSet
    <3> QED
      BY <3>1, <3>2
  <2> QED
    BY <2>8, <2>9, <2>10, <2>11, <1>5 DEF Locks
<1> QED
  BY <1>4, <1>5

\* A leader leaves the global barrier.
LEMMA GlobalReleasedLocks ==
  ASSUME SyncInv, Locks, NEW t \in Threads, GlobalReleased(t)
  PROVE  Locks' /\ LoopsKept
<1> DEFINE n == NodeOf[t]
<1>0. /\ pc[t] = "gwait" /\ gbar.generation = gen[t] + 1 /\ gen[t] \in Nat
      /\ UNCHANGED <<Loops, shares, bar, gbar, gen, loop>> /\ pc'[t] = "cleanup"
      /\ \A u \in Threads \ {t} : pc'[u] = pc[u]
      /\ Types /\ n \in Nodes
  BY ThreadTypes DEF GlobalReleased, Goto, SyncInv, Types, sync
<1>1. /\ \A u \in Threads : /\ Cur(u)' = Cur(u)
                            /\ Between(u)' <=> Between(u)
                            /\ Owner(u)' <=> Owner(u)
                            /\ pc'[u] = "setnode" <=> pc[u] = "setnode"
                            /\ pc'[u] = "setglobal" <=> pc[u] = "setglobal"
      /\ \A m \in Nodes : Finished(m)' <=> Finished(m)
      /\ \A m \in Nodes \ {n} : (Past(m)' <=> Past(m)) /\ (NodeArrives(m)' <=> NodeArrives(m))
      /\ Past(n)' <=> pc'[t] = "cleanup" \/ GFreed(t)'
      /\ NodeArrives(n)' <=> pc'[t] = "gbar" \/ GParked(t)'
  <2>1. pc[t] \in LeaderPCs \ {"leading"} /\ pc'[t] \in LeaderPCs \ {"leading"}
    BY <1>0 DEF LeaderPCs
  <2> QED
    BY <2>1, <1>0, LeaderFrame
<1>2. GFreed(t) /\ ~GParked(t) /\ ~GParked(t)'
  BY <1>0 DEF GFreed, GParked
<1>3. Past(n) /\ Past(n)' /\ ~NodeArrives(n) /\ ~NodeArrives(n)'
  BY <1>0, <1>1, <1>2, LeaderFacts, Represents DEF Leading, LeaderPCs
<1>4. /\ \A m \in Nodes : (Finished(m)' <=> Finished(m)) /\ (Past(m)' <=> Past(m))
      /\ GlobalClosed' <=> GlobalClosed
  BY <1>0, <1>1, <1>3 DEF GlobalClosed
<1>5. /\ Loops' = Loops /\ wsLock' = wsLock /\ gwsLock' = gwsLock /\ ws' = ws /\ gws' = gws
  BY <1>0 DEF shares
<1> QED
  BY <1>0, <1>1, <1>4, <1>5, LocksKept


\* A leader lets its node go to the barrier.
LEMMA CleanupLocks ==
  ASSUME SyncInv, Locks, NEW t \in Threads, Cleanup(t)
  PROVE  Locks' /\ LoopsKept
<1> DEFINE n == NodeOf[t]
<1>0. /\ pc[t] = "cleanup" /\ UNCHANGED <<Loops, shares, bar, gbar, gen, loop>> /\ pc'[t] = "bar"
      /\ \A u \in Threads \ {t} : pc'[u] = pc[u]
      /\ Types /\ n \in Nodes /\ t \in ThreadsOf(n) /\ ThreadsOf(n) \subseteq Threads
  BY ThreadTypes DEF Cleanup, Goto, SyncInv, Types
<1>1. \A u \in ThreadsOf(n) \ {t} : Parked(u)
  BY <1>0, GlobalLeader
<1>2. Past(n) /\ Finished(n) /\ ~NodeArrives(n)
  BY <1>0, LeaderFacts, Represents DEF Leading, LeaderPCs, GParked
<1>3. Closed(n)' /\ Past(n)' /\ Finished(n)'
  <2>1. \A u \in ThreadsOf(n) : pc'[u] = "bar" \/ Parked(u)'
    BY <1>0, <1>1 DEF Parked
  <2> QED
    BY <2>1 DEF Closed, Past, Finished
<1>4. ~NodeArrives(n)'
  <2>1. \A u \in ThreadsOf(n) : pc'[u] \in {"bar", "wait"}
    BY <1>0, <1>1 DEF Parked
  <2> QED
    BY <2>1 DEF NodeArrives, GParked
<1>5. \A m \in Nodes \ {n} : /\ Finished(m)' <=> Finished(m)
                             /\ Past(m)' <=> Past(m)
                             /\ NodeArrives(m)' <=> NodeArrives(m)
  BY <1>0, OtherNodes
<1>6. /\ \A m \in Nodes : (Finished(m)' <=> Finished(m)) /\ (Past(m)' <=> Past(m))
      /\ GlobalClosed' <=> GlobalClosed
  BY <1>0, <1>2, <1>3, <1>4, <1>5 DEF GlobalClosed
<1>7. \A u \in Threads : /\ Cur(u)' = Cur(u)
                         /\ Between(u)' <=> Between(u)
                         /\ Owner(u)' <=> Owner(u)
                         /\ pc'[u] = "setnode" <=> pc[u] = "setnode"
                         /\ pc'[u] = "setglobal" <=> pc[u] = "setglobal"
  BY <1>0 DEF Cur, Between, Owner, Freed
<1>8. /\ Loops' = Loops /\ wsLock' = wsLock /\ gwsLock' = gwsLock /\ ws' = ws /\ gws' = gws
  BY <1>0 DEF shares
<1> QED
  BY <1>0, <1>6, <1>7, <1>8, LocksKept

\* The last thread of a node arrives: its threads are freed into the next loop.
LEMMA NodeBarrierLast ==
  ASSUME NoProbes, SyncInv, Locks, NEW t \in Threads, NodeBarrier(t), bar[NodeOf[t]].awaited = 1
  PROVE  /\ Finished(NodeOf[t]) /\ Past(NodeOf[t]) /\ wsLock[NodeOf[t]] = "null"
         /\ Unstarted(NodeOf[t])' /\ ~Finished(NodeOf[t])' /\ ~Past(NodeOf[t])'
         /\ ~GlobalClosed /\ ~GlobalClosed'
         /\ \A u \in ThreadsOf(NodeOf[t]) :
              /\ Freed(u)' /\ pc'[u] = "wait" /\ pc[u] \in {"bar", "wait"} /\ ~Outside(u)
              /\ Cur(u) = loop[u] /\ Cur(u)' = loop[u] + 1
         /\ \A u \in Threads : \A k \in LoopIds : Ended(u, k)' <=> Ended(u, k)
<1> DEFINE n == NodeOf[t]
<1>0. /\ pc[t] = "bar" /\ UNCHANGED <<Loops, shares, gbar, loop>> /\ pc'[t] = "wait"
      /\ bar'[n] = Arrived(bar[n], ThreadsPerNode(n))
      /\ \A m \in Nodes \ {n} : bar'[m] = bar[m]
      /\ \A u \in Threads \ {t} : pc'[u] = pc[u] /\ gen'[u] = gen[u]
      /\ gen'[t] = bar[n].generation /\ bar[n] \in [awaited : Nat, generation : Nat]
      /\ Types /\ n \in Nodes /\ t \in ThreadsOf(n) /\ ThreadsOf(n) \subseteq Threads
  BY ThreadTypes DEF NodeBarrier, Goto, SyncInv, Types
<1>1. ~Parked(t) /\ ~Freed(t) /\ ~Leading(t) /\ Cur(t) = loop[t] /\ ~Between(t)
  BY <1>0 DEF Parked, Freed, Leading, LeaderPCs, Cur, Between
<1>2. /\ Loops' = Loops /\ wsLock' = wsLock /\ gwsLock' = gwsLock /\ ws' = ws /\ gws' = gws
      /\ LoopIds' = LoopIds
  BY <1>0 DEF shares, LoopIds
<1>3. /\ \A m \in Nodes \ {n} : /\ Finished(m)' <=> Finished(m)
                                /\ Past(m)' <=> Past(m)
                                /\ NodeArrives(m)' <=> NodeArrives(m)
                                /\ Unstarted(m)' <=> Unstarted(m)
      /\ \A u \in Threads : NodeOf[u] # n =>
           /\ Cur(u)' = Cur(u)
           /\ Between(u)' <=> Between(u)
           /\ Owner(u)' <=> Owner(u)
  BY <1>0, OtherNodes
<1>11. \A u \in ThreadsOf(n) \ {t} : Parked(u)
  BY <1>0, <1>1, LastToArrive
<1>12. Closed(n) /\ Finished(n) /\ Past(n) /\ wsLock[n] = "null"
  <2>1. Closed(n)
    BY <1>11, <1>0 DEF Closed
  <2> QED
    BY <2>1, <1>0 DEF Finished, Past, Locks, NodeLock
<1>13. bar'[n].generation = bar[n].generation + 1
  BY <1>0 DEF Arrived
<1>14. \A u \in ThreadsOf(n) : Freed(u)' /\ pc'[u] = "wait" /\ ~Parked(u)'
  <2> SUFFICES ASSUME NEW u \in ThreadsOf(n)
               PROVE  pc'[u] = "wait" /\ gen'[u] # bar'[n].generation /\ NodeOf[u] = n
    BY DEF Freed, Parked
  <2>1. gen'[u] = bar[n].generation /\ pc'[u] = "wait" /\ NodeOf[u] = n
    BY <1>11, <1>0 DEF Parked, ThreadsOf
  <2> QED
    BY <2>1, <1>13, <1>0
<1>15. Unstarted(n)' /\ ~Finished(n)' /\ ~Past(n)' /\ ~NodeArrives(n)'
  BY <1>14, <1>0 DEF Unstarted, Between, Finished, Closed, Past, NodeArrives, Leading, LeaderPCs,
     GFreed, GParked
<1>16. ~NodeArrives(n)
  BY <1>11, <1>0 DEF NodeArrives, Parked, GParked
<1>17. ~GlobalClosed /\ ~GlobalClosed'
  BY <1>15, <1>16, <1>0 DEF GlobalClosed
<1>18. \A u \in ThreadsOf(n) : Cur(u) = loop[u] /\ Cur(u)' = loop[u] + 1
  BY <1>11, <1>14, <1>0, <1>1 DEF Cur, Parked, Freed
<1>19. \A k \in LoopIds : Dynamic(k)' <=> Dynamic(k)
  BY <1>2 DEF Dynamic, Sched
<1>20. ASSUME NEW u \in Threads, NEW k \in LoopIds PROVE Ended(u, k)' <=> Ended(u, k)
  <2>1. CASE NodeOf[u] = n
    <3>1. u \in ThreadsOf(n) /\ loop[u] \in LoopIds
      BY <2>1, <1>0, ThreadTypes DEF ThreadsOf
    <3>2. Cur(u) = loop[u] /\ Cur(u)' = loop[u] + 1
      BY <3>1, <1>18
    <3>3. Ended(u, k) <=> k < loop[u] \/ k = loop[u]
      BY <3>2, <2>1, <1>12 DEF Ended
    <3>4. Ended(u, k)' <=> k < loop[u] + 1
      BY <3>2, <2>1, <1>15 DEF Ended
    <3>5. k \in Int /\ loop[u] \in Int
      BY <3>1, <1>0, LoopTypes
    <3> QED
      BY <3>3, <3>4, <3>5
  <2>2. CASE NodeOf[u] # n
    BY <2>2, <1>0, <1>3, ThreadTypes DEF Ended
  <2> QED
    BY <2>1, <2>2
<1>21. \A u \in ThreadsOf(n) : pc[u] \in {"bar", "wait"} /\ ~Outside(u)
  BY <1>11, <1>0, <1>1 DEF Parked, Outside, Freed, WorkPCs
<1> QED
  BY <1>12, <1>14, <1>15, <1>17, <1>18, <1>20, <1>21

\* A thread arrives at its node's barrier.
LEMMA NodeBarrierLocks ==
  ASSUME NoProbes, SyncInv, Locks, NEW t \in Threads, NodeBarrier(t)
  PROVE  Locks' /\ (bar[NodeOf[t]].awaited # 1 => LoopsKept)
<1> DEFINE n == NodeOf[t]
<1>0. /\ pc[t] = "bar" /\ UNCHANGED <<Loops, shares, gbar, loop>> /\ pc'[t] = "wait"
      /\ bar'[n] = Arrived(bar[n], ThreadsPerNode(n))
      /\ \A m \in Nodes \ {n} : bar'[m] = bar[m]
      /\ \A u \in Threads \ {t} : pc'[u] = pc[u] /\ gen'[u] = gen[u]
      /\ gen'[t] = bar[n].generation /\ bar[n] \in [awaited : Nat, generation : Nat]
      /\ Types /\ n \in Nodes /\ t \in ThreadsOf(n) /\ ThreadsOf(n) \subseteq Threads
  BY ThreadTypes DEF NodeBarrier, Goto, SyncInv, Types
<1>1. ~Parked(t) /\ ~Freed(t) /\ ~Leading(t) /\ Cur(t) = loop[t] /\ ~Between(t)
  BY <1>0 DEF Parked, Freed, Leading, LeaderPCs, Cur, Between
<1>2. /\ Loops' = Loops /\ wsLock' = wsLock /\ gwsLock' = gwsLock /\ ws' = ws /\ gws' = gws
      /\ LoopIds' = LoopIds
  BY <1>0 DEF shares, LoopIds
<1>3. /\ \A m \in Nodes \ {n} : /\ Finished(m)' <=> Finished(m)
                                /\ Past(m)' <=> Past(m)
                                /\ NodeArrives(m)' <=> NodeArrives(m)
                                /\ Unstarted(m)' <=> Unstarted(m)
      /\ \A u \in Threads : NodeOf[u] # n =>
           /\ Cur(u)' = Cur(u)
           /\ Between(u)' <=> Between(u)
           /\ Owner(u)' <=> Owner(u)
  BY <1>0, OtherNodes
<1>4. \A u \in Threads : /\ pc'[u] = "setnode" <=> pc[u] = "setnode"
                         /\ pc'[u] = "setglobal" <=> pc[u] = "setglobal"
                         /\ Owner(u)' <=> Owner(u)
  BY <1>0 DEF Owner
<1>5. CASE bar[n].awaited # 1
  <2>1. bar'[n].generation = bar[n].generation
    BY <1>0, <1>5 DEF Arrived
  <2>2. \A u \in ThreadsOf(n) \ {t} : /\ Parked(u)' <=> Parked(u)
                                      /\ Freed(u)' <=> Freed(u)
                                      /\ pc'[u] = pc[u] /\ loop'[u] = loop[u]
    BY <2>1, <1>0 DEF Parked, Freed, ThreadsOf
  <2>3. Parked(t)' /\ ~Freed(t)'
    BY <2>1, <1>0 DEF Parked, Freed
  <2>4. \A u \in ThreadsOf(n) : /\ Cur(u)' = Cur(u)
                                /\ Between(u)' <=> Between(u)
                                /\ Leading(u)' <=> Leading(u)
    BY <2>2, <2>3, <1>0, <1>1 DEF Cur, Between, Leading, LeaderPCs
  <2>5. ~Closed(n)
    <3> SUFFICES ASSUME Closed(n) PROVE FALSE
      OBVIOUS
    <3>1. PICK u \in ThreadsOf(n) : pc[u] = "bar" /\ \A v \in ThreadsOf(n) \ {u} : Parked(v)
      BY <1>0 DEF SyncInv, NodeSync, OneComesLast
    <3>2. u = t
      BY <3>1, <1>0, <1>1
    <3>3. AwayFrom(n) = {t}
      BY <3>1, <3>2, <1>0, <1>1 DEF AwayFrom
    <3>4. NodeCount(n)
      BY <1>0 DEF SyncInv, NodeSync
    <3> QED
      BY <3>3, <3>4, <1>5, FS_Singleton DEF NodeCount
  <2>6. ~Closed(n)'
    BY <2>2, <2>5, <1>0 DEF Closed
  <2>7. Finished(n)' <=> Finished(n)
    BY <2>2, <2>4, <2>5, <2>6, <1>0, <1>1 DEF Finished
  <2>8. (Past(n)' <=> Past(n)) /\ (NodeArrives(n)' <=> NodeArrives(n))
    <3>1. \A u \in ThreadsOf(n) : /\ pc'[u] = "cleanup" <=> pc[u] = "cleanup"
                                  /\ pc'[u] = "gbar" <=> pc[u] = "gbar"
                                  /\ GFreed(u)' <=> GFreed(u)
                                  /\ GParked(u)' <=> GParked(u)
      BY <1>0 DEF GFreed, GParked
    <3> QED
      BY <3>1, <2>5, <2>6 DEF Past, NodeArrives
  <2>9. /\ \A m \in Nodes : (Finished(m)' <=> Finished(m)) /\ (Past(m)' <=> Past(m))
        /\ GlobalClosed' <=> GlobalClosed
    BY <2>7, <2>8, <1>3 DEF GlobalClosed
  <2>10. \A u \in Threads : Cur(u)' = Cur(u) /\ (Between(u)' <=> Between(u))
    BY <2>4, <1>3 DEF ThreadsOf
  <2> QED
    BY <2>9, <2>10, <1>0, <1>2, <1>4, LocksKept
<1>6. CASE bar[n].awaited = 1
  <2>2. Finished(n) /\ Past(n) /\ wsLock[n] = "null"
    BY <1>6, NodeBarrierLast
  <2>4. \A u \in ThreadsOf(n) : Freed(u)' /\ pc'[u] = "wait"
    BY <1>6, NodeBarrierLast
  <2>5. Unstarted(n)' /\ ~Finished(n)' /\ ~Past(n)'
    BY <1>6, NodeBarrierLast
  <2>7. ~GlobalClosed /\ ~GlobalClosed'
    BY <1>6, NodeBarrierLast
  <2>9. \A k \in LoopIds : Dynamic(k)' <=> Dynamic(k)
    BY <1>2 DEF Dynamic, Sched
  <2>10. \A u \in Threads : \A k \in LoopIds : Ended(u, k)' <=> Ended(u, k)
    BY <1>6, NodeBarrierLast
  <2>11. Together' /\ \A g \in LoopIds : Is(g)' <=> Is(g)
    BY <2>9, <2>10, <1>2 DEF Together, Is, Locks
  <2>12. ASSUME NEW m \in Nodes PROVE NodeLock(m)'
    <3>1. CASE m # n
      <4>1. NodeLock(m) /\ \A u \in ThreadsOf(m) : u \in Threads /\ NodeOf[u] # n
        BY <3>1 DEF Locks, ThreadsOf
      <4> QED
        BY <4>1, <3>1, <1>2, <1>3 DEF NodeLock
    <3>2. CASE m = n
      <4>1. \A u \in ThreadsOf(n) : ~Owner(u)'
        BY <2>4 DEF Owner
      <4> QED
        BY <4>1, <3>2, <2>2, <2>5, <1>2 DEF NodeLock
    <3> QED
      BY <3>1, <3>2
  <2>13. ASSUME NEW u \in Threads PROVE NodeShareOf(u)'
    <3>1. CASE NodeOf[u] = n
      BY <3>1, <2>2, <1>2 DEF NodeShareOf
    <3>2. CASE NodeOf[u] # n
      <4>1. NodeShareOf(u)
        BY DEF Locks
      <4> QED
        BY <4>1, <3>2, <1>2, <1>3 DEF NodeShareOf, Sched
    <3> QED
      BY <3>1, <3>2
  <2>14. GlobalLock'
    BY <2>7, <1>2, <1>4 DEF Locks, GlobalLock
  <2>15. GlobalShare'
    BY <2>11, <1>2 DEF Locks, GlobalShare
  <2>16. GlobalSet'
    <3> SUFFICES ASSUME NEW u \in Threads, Dynamic(Cur(u))', Started(u)', ~Past(NodeOf[u])'
                 PROVE  gwsLock = "set"
      BY <1>2 DEF GlobalSet
    <3>1. NodeOf[u] # n
      <4> SUFFICES ASSUME NodeOf[u] = n PROVE FALSE
        OBVIOUS
      <4>1. pc'[u] = "wait"
        BY <2>4 DEF ThreadsOf
      <4> QED
        BY <4>1, <2>2, <2>5, <1>2 DEF Started
    <3>2. Dynamic(Cur(u)) /\ Started(u) /\ ~Past(NodeOf[u])
      BY <3>1, <1>0, <1>2, <1>3, <1>4, ThreadTypes DEF Started, Dynamic, Sched
    <3> QED
      BY <3>2, <2>7 DEF Locks, GlobalSet
  <2> QED
    BY <1>6, <2>11, <2>12, <2>13, <2>14, <2>15, <2>16 DEF Locks
<1> QED
  BY <1>5, <1>6

\* A thread leaves it for the next loop.
LEMMA NodeReleasedLocks ==
  ASSUME NoProbes, SyncInv, Locks, NEW t \in Threads, NodeReleased(t)
  PROVE  Locks' /\ LoopsKept
<1> DEFINE n == NodeOf[t]
<1>0. /\ Types /\ n \in Nodes /\ t \in ThreadsOf(n) /\ ThreadsOf(n) \subseteq Threads
      /\ Freed(t) /\ ~Freed(t)' /\ Cur(t)' = Cur(t) /\ pc'[t] \in {"init", "done"}
      /\ \A u \in Threads \ {t} : pc'[u] = pc[u] /\ loop'[u] = loop[u]
      /\ UNCHANGED <<Loops, gen, bar, gbar>>
  BY NodeReleasedControl, NodeReleasedIs, ThreadTypes DEF SyncInv, sync
<1>1. /\ ~Finished(n) /\ ~Past(n) /\ ~NodeArrives(n) /\ ~GlobalClosed
      /\ \A u \in ThreadsOf(n) : ~Leading(u)
  BY <1>0, OutsideFacts DEF Outside
<1>2. \A u \in Threads : /\ Cur(u)' = Cur(u)
                         /\ Between(u)' <=> Between(u)
                         /\ Owner(u)' <=> Owner(u)
                         /\ pc'[u] = "setnode" <=> pc[u] = "setnode"
                         /\ pc'[u] = "setglobal" <=> pc[u] = "setglobal"
  BY <1>0 DEF Cur, Between, Owner, Freed
<1>3. \A u \in ThreadsOf(n) : ~Leading(u)'
  BY <1>0, <1>1 DEF Leading, LeaderPCs
<1>4. ~Finished(n)' /\ ~Past(n)' /\ ~NodeArrives(n)'
  <2>1. ~Closed(n)'
    BY <1>0 DEF Closed, Parked
  <2> QED
    BY <2>1, <1>3 DEF Finished, Past, NodeArrives, Leading, LeaderPCs, GFreed, GParked
<1>5. \A m \in Nodes \ {n} : (Finished(m)' <=> Finished(m)) /\ (Past(m)' <=> Past(m))
  BY <1>0, OtherNodes
<1>6. /\ \A m \in Nodes : (Finished(m)' <=> Finished(m)) /\ (Past(m)' <=> Past(m))
      /\ GlobalClosed' <=> GlobalClosed
  BY <1>0, <1>1, <1>4, <1>5 DEF GlobalClosed
<1>7. /\ Loops' = Loops /\ wsLock' = wsLock /\ gwsLock' = gwsLock /\ ws' = ws /\ gws' = gws
  BY <1>0, NodeReleasedIs DEF shares
<1> QED
  BY <1>0, <1>2, <1>6, <1>7, LocksKept



-----------------------------------------------------------------------------
(* The steps that take iterations, and those of the whole system           *)

Takes(t) ==
  \/ NextLocal(t) \/ NextExhausted(t) \/ NextRefill(t) \/ AddNext(t) \/ CasNext(t)
  \/ Last(t) \/ StaticNext(t)

\* They keep the schedule and the chunk size of a node's work share.
SameShares ==
  \A n \in Nodes : ws'[n].sched = ws[n].sched /\ ws'[n].chunk = ws[n].chunk

\* Taking iterations from a work share keeps its schedule and chunk size.
LEMMA TakeFromShares ==
  ASSUME Types, NEW t \in Threads, NEW from \in Int, NEW to \in Int,
         TakeFrom(t, [ws[NodeOf[t]] EXCEPT !.next = from, !.end = to])
  PROVE  SameShares /\ pc'[t] = "last" /\ pc' = [pc EXCEPT ![t] = "last"]
<1> DEFINE n == NodeOf[t]
           w == [ws[n] EXCEPT !.next = from, !.end = to]
           Share == [sched : {"static", "dynamic"}, next : Int, end : Int, chunk : Int,
                     completed : BOOLEAN]
<1>1. w \in Share /\ ws[n] \in Share
  BY ShareType, ThreadTypes
<1>2. w.sched = ws[n].sched /\ w.chunk = ws[n].chunk
  BY <1>1
<1>3. TakeFrom(t, w)
  OBVIOUS
<1> HIDE DEF w
<1>4. PICK a \in Int : /\ ws' = [ws EXCEPT ![n] = [w EXCEPT !.next = a]]
                       /\ pc' = [pc EXCEPT ![t] = "last"]
  <2>1. \E a \in Int :
           /\ a = Long(w.next + (IF w.chunk > Long(w.end - w.next) THEN Long(w.end - w.next)
                                                                   ELSE w.chunk))
           /\ ws' = [ws EXCEPT ![NodeOf[t]] = [w EXCEPT !.next = a]]
           /\ Give(loop[t], w.next, a)
           /\ batch' = [batch EXCEPT ![t] = a]
           /\ pc' = [pc EXCEPT ![t] = "last"]
    BY <1>1, <1>3, TakeFromIs
  <2> QED
    BY <2>1
<1>5. [w EXCEPT !.next = a].sched = w.sched /\ [w EXCEPT !.next = a].chunk = w.chunk
  BY <1>1
<1> QED
  BY <1>2, <1>4, <1>5 DEF SameShares, Types

\* And so does marking it as completed.
LEMMA NothingLeftShares ==
  ASSUME Types, NEW t \in Threads, NothingLeft(t)
  PROVE  SameShares /\ pc'[t] = "end" /\ pc' = [pc EXCEPT ![t] = "end"]
<1>1. /\ ws' = [ws EXCEPT ![NodeOf[t]] = [ws[NodeOf[t]] EXCEPT !.completed = TRUE]]
      /\ pc' = [pc EXCEPT ![t] = "end"]
  BY DEF NothingLeft, Goto
<1>2. /\ [ws[NodeOf[t]] EXCEPT !.completed = TRUE].sched = ws[NodeOf[t]].sched
      /\ [ws[NodeOf[t]] EXCEPT !.completed = TRUE].chunk = ws[NodeOf[t]].chunk
  BY ThreadTypes
<1> QED
  BY <1>1, <1>2 DEF SameShares, Types

\* What these steps leave as it is, and what they do to the lock of the node.
LEMMA TakesFrame ==
  ASSUME NoProbes, SyncInv, NEW t \in Threads, Mutex(t), Takes(t)
  PROVE  /\ pc[t] \in {"next", "add", "cas", "last", "static"}
         /\ pc'[t] \in {"next", "add", "cas", "last", "end"}
         /\ pc[t] = "static" => pc'[t] = "end"
         /\ UNCHANGED <<wsLock, gwsLock>> /\ gws'.sched = gws.sched /\ gws'.end = gws.end
         /\ SameShares
         /\ \/ mutex' = mutex /\ (pc'[t] \in {"add", "cas"} <=> pc[t] \in {"add", "cas"})
            \/ /\ mutex[NodeOf[t]] = None /\ mutex' = [mutex EXCEPT ![NodeOf[t]] = t]
               /\ pc'[t] \in {"add", "cas"}
            \/ /\ mutex[NodeOf[t]] = t /\ mutex' = [mutex EXCEPT ![NodeOf[t]] = None]
               /\ pc'[t] \notin {"add", "cas"}
<1> DEFINE n == NodeOf[t]
<1>0. Types /\ n \in Nodes
  BY ThreadTypes DEF SyncInv
<1>1. CASE NextLocal(t)
  <2> DEFINE w == ws[n]
  <2>1. TakeFrom(t, [w EXCEPT !.next = w.next, !.end = w.end]) /\ w.next \in Int /\ w.end \in Int
    <3>1. [w EXCEPT !.next = w.next, !.end = w.end] = w
      BY <1>0, ThreadTypes
    <3> QED
      BY <3>1, <1>0, <1>1, ThreadTypes DEF NextLocal
  <2>2. SameShares /\ pc'[t] = "last"
    BY <2>1, <1>0, TakeFromShares
  <2> QED
    BY <2>2, <1>1 DEF NextLocal
<1>2. CASE NextExhausted(t)
  BY <1>0, <1>2 DEF NextExhausted, Types, Goto, shares, SameShares
<1>3. CASE NextRefill(t)
  BY <1>0, <1>3 DEF NextRefill, Types, Goto, SameShares
<1>4. CASE AddNext(t)
  <2> DEFINE nend == Long(gws.next + NodeChunk(t))
             to == IF nend > gws.end THEN gws.end ELSE nend
  <2>1. nend \in Int /\ to \in Int /\ gws.next \in Int
    BY <1>0, NodeChunkType, LongType DEF Types
  <2>2. NothingLeft(t) \/ Refilled(t, gws.next, to)
    BY <1>4 DEF AddNext
  <2>3. /\ pc[t] = "add" /\ UNCHANGED <<wsLock, gwsLock>>
        /\ gws' = [gws EXCEPT !.next = nend]
    BY <1>4 DEF AddNext
  <2> HIDE DEF nend, to
  <2>4. SameShares /\ pc'[t] \in {"last", "end"} /\ mutex' = [mutex EXCEPT ![n] = None]
    BY <2>1, <2>2, <1>0, TakeFromShares, NothingLeftShares DEF Refilled, NothingLeft
  <2>5. gws'.sched = gws.sched /\ gws'.end = gws.end
    BY <2>3, <1>0 DEF Types
  <2> QED
    BY <2>3, <2>4, <2>5 DEF Mutex
<1>5. CASE CasNext(t)
  <2> DEFINE left == Long(gws.end - start[t])
             take == IF NodeChunk(t) > left THEN left ELSE NodeChunk(t)
             nend == Long(start[t] + take)
  <2>1. start[t] \in Int /\ nend \in Int
    <3>1. start[t] \in Int /\ left \in Int /\ NodeChunk(t) \in Int
      BY <1>0, ThreadTypes, NodeChunkType, LongType DEF Types
    <3>2. take \in Int
      BY <3>1
    <3> HIDE DEF take
    <3> QED
      BY <3>1, <3>2, LongType
  <2>2. /\ pc[t] = "cas" /\ UNCHANGED <<wsLock, gwsLock>>
        /\ \/ NothingLeft(t) /\ UNCHANGED <<gws, start>>
           \/ gws' = [gws EXCEPT !.next = nend] /\ Refilled(t, start[t], nend) /\ UNCHANGED start
           \/ UNCHANGED <<pc, gws, ws, mutex>>
    BY <1>5 DEF CasNext
  <2> HIDE DEF nend
  <2>3. gws'.sched = gws.sched /\ gws'.end = gws.end
    BY <2>2, <1>0 DEF Types
  <2>4. CASE UNCHANGED <<pc, gws, ws, mutex>>
    BY <2>2, <2>3, <2>4, <1>0 DEF SameShares
  <2>5. CASE NothingLeft(t) \/ Refilled(t, start[t], nend)
    <3>1. SameShares /\ pc'[t] \in {"last", "end"} /\ mutex' = [mutex EXCEPT ![n] = None]
      BY <2>1, <2>5, <1>0, TakeFromShares, NothingLeftShares DEF Refilled, NothingLeft
    <3> QED
      BY <2>2, <2>3, <3>1 DEF Mutex
  <2> QED
    BY <2>2, <2>4, <2>5
<1>6. CASE Last(t)
  <2>1. pc[t] = "last" /\ pc'[t] = "next" /\ UNCHANGED shares
    BY <1>0, <1>6, ThreadTypes DEF Last, Goto, Types
  <2> QED
    BY <2>1, <1>0 DEF SameShares, shares
<1>7. CASE StaticNext(t)
  BY <1>0, <1>7 DEF StaticNext, Types, Goto, shares, SameShares
<1> QED
  BY <1>1, <1>2, <1>3, <1>4, <1>5, <1>6, <1>7 DEF Takes

\* Taking iterations leaves the locks alone.
LEMMA TakesLocks ==
  ASSUME NoProbes, SyncInv, LockInv, NEW t \in Threads, Takes(t)
  PROVE  Locks'
<1>1. Works(t) /\ Locks /\ Mutex(t)
  BY DEF Takes, Works, LockInv
<1> QED
  BY <1>1, TakesFrame, PlainLocks DEF SameShares

\* Every step keeps the locks.
LEMMA StepLocks ==
  ASSUME NoProbes, SyncInv, LockInv, NEW t \in Threads, Steps(t)
  PROVE  Locks'
<1>0. Locks
  BY DEF LockInv
<1>1. CASE Takes(t)
  BY <1>1, TakesLocks
<1>2. CASE InitNode(t)
  BY <1>0, <1>2, InitNodeLocks
<1>3. CASE InitGlobal(t)
  BY <1>0, <1>3, InitGlobalLocks
<1>4. CASE FoundGlobal(t) \/ SetGlobal(t)
  BY <1>0, <1>4, GlobalReadyLocks
<1>5. CASE SetNode(t) \/ FoundNode(t)
  BY <1>0, <1>5, NodeReadyLocks
<1>6. CASE SelectLeader(t)
  BY <1>0, <1>6, SelectLeaderLocks
<1>7. CASE FinishNode(t)
  BY <1>0, <1>7, FinishNodeLocks
<1>8. CASE SelectGlobalLeader(t)
  BY <1>0, <1>8, SelectGlobalLeaderLocks
<1>9. CASE FinishGlobal(t)
  BY <1>0, <1>9, FinishGlobalLocks
<1>10. CASE GlobalBarrier(t)
  BY <1>0, <1>10, GlobalBarrierLocks
<1>11. CASE GlobalReleased(t)
  BY <1>0, <1>11, GlobalReleasedLocks
<1>12. CASE Cleanup(t)
  BY <1>0, <1>12, CleanupLocks
<1>13. CASE NodeBarrier(t)
  BY <1>0, <1>13, NodeBarrierLocks
<1>14. CASE NodeReleased(t)
  BY <1>0, <1>14, NodeReleasedLocks
<1> QED
  BY <1>1, <1>2, <1>3, <1>4, <1>5, <1>6, <1>7, <1>8, <1>9, <1>10, <1>11, <1>12, <1>13, <1>14
     DEF Steps, Takes

\* The steps of the synchronisation: the thread's place, and no node's lock.
LEMMA SyncControl ==
  ASSUME NoProbes, SyncInv, NEW t \in Threads,
         \/ SelectLeader(t) \/ FinishNode(t) \/ SelectGlobalLeader(t) \/ FinishGlobal(t)
         \/ GlobalBarrier(t) \/ GlobalReleased(t) \/ Cleanup(t) \/ NodeBarrier(t)
         \/ NodeReleased(t)
  PROVE  /\ \A u \in Threads \ {t} : pc'[u] = pc[u] /\ loop'[u] = loop[u]
         /\ Loops' = Loops /\ mutex' = mutex
         /\ pc[t] \notin {"add", "cas"} /\ pc'[t] \notin {"add", "cas"}
         /\ \/ pc'[t] \in {"bar", "leading", "cleanup", "wait", "init", "done"}
            \/ FinishNode(t) /\ ws[NodeOf[t]].sched = "dynamic" /\ loop' = loop
            \/ pc[t] \in {"gend", "gleading", "gbar"} /\ loop' = loop
               /\ pc'[t] \in {"gleading", "gbar", "gwait"}
<1>0. Types /\ NodeOf[t] \in Nodes
      /\ ws[NodeOf[t]].sched \in {"static", "dynamic"}
  BY ThreadTypes DEF SyncInv
<1>1. CASE SelectLeader(t)
  BY <1>0, <1>1 DEF SelectLeader, Goto, Types, shares
<1>2. CASE FinishNode(t)
  BY <1>0, <1>2, FinishNodeIs DEF Types
<1>3. CASE SelectGlobalLeader(t)
  BY <1>0, <1>3 DEF SelectGlobalLeader, Goto, Types, shares
<1>4. CASE FinishGlobal(t)
  BY <1>0, <1>4 DEF FinishGlobal, Goto, Types
<1>5. CASE GlobalBarrier(t)
  BY <1>0, <1>5 DEF GlobalBarrier, Goto, Types, shares
<1>6. CASE GlobalReleased(t)
  BY <1>0, <1>6 DEF GlobalReleased, Goto, Types, shares
<1>7. CASE Cleanup(t)
  BY <1>0, <1>7 DEF Cleanup, Goto, Types, shares
<1>8. CASE NodeBarrier(t)
  BY <1>0, <1>8 DEF NodeBarrier, Goto, Types, shares
<1>9. CASE NodeReleased(t)
  <2>1. /\ \A u \in Threads \ {t} : pc'[u] = pc[u] /\ loop'[u] = loop[u]
        /\ pc[t] = "wait" /\ pc'[t] \in {"init", "done"}
    BY <1>9, NodeReleasedControl DEF Freed
  <2>2. Loops' = Loops /\ mutex' = mutex
    BY <1>0, <1>9, NodeReleasedIs DEF shares
  <2> QED
    BY <2>1, <2>2
<1> QED
  BY <1>1, <1>2, <1>3, <1>4, <1>5, <1>6, <1>7, <1>8, <1>9


\* Kind and Mutex, for the steps of the work in a loop.
LEMMA WorksKind ==
  ASSUME NoProbes, SyncInv, LockInv, NEW t \in Threads, Works(t)
  PROVE  Kind(t)' /\ \A u \in Threads : Mutex(u)'
<1> DEFINE n == NodeOf[t]
<1>0. /\ Types /\ Locks /\ Kind(t) /\ n \in Nodes /\ loop[t] \in LoopIds
      /\ ws[n].sched \in {"static", "dynamic"} /\ NodeShareOf(t)
      /\ Sched(loop[t]) \in {"static", "dynamic"}
  BY ThreadTypes, LoopTypes DEF SyncInv, LockInv, Locks
<1>1. /\ UNCHANGED <<Loops, loop>> /\ \A u \in Threads \ {t} : pc'[u] = pc[u]
      /\ Cur(t) = loop[t] /\ Sched(loop[t])' = Sched(loop[t])
  BY WorkFrame DEF Sched
<1>2. \A u \in Threads : Mutex(u) /\ NodeOf[u] \in Nodes /\ u # None
  BY <1>0, ThreadTypes, WorkshareAssumption DEF LockInv
<1>3. CASE Takes(t)
  <2>1. /\ pc[t] \in {"next", "add", "cas", "last", "static"}
        /\ pc'[t] \in {"next", "add", "cas", "last", "end"}
        /\ pc[t] = "static" => pc'[t] = "end"
        /\ \/ mutex' = mutex /\ (pc'[t] \in {"add", "cas"} <=> pc[t] \in {"add", "cas"})
           \/ /\ mutex[n] = None /\ mutex' = [mutex EXCEPT ![n] = t]
              /\ pc'[t] \in {"add", "cas"}
           \/ /\ mutex[n] = t /\ mutex' = [mutex EXCEPT ![n] = None]
              /\ pc'[t] \notin {"add", "cas"}
    BY <1>2, <1>3, TakesFrame
  <2>2. Kind(t)'
    BY <2>1, <1>0, <1>1 DEF Kind
  <2>3. ASSUME NEW u \in Threads PROVE Mutex(u)'
    BY <2>1, <1>0, <1>1, <1>2 DEF Mutex, Types
  <2> QED
    BY <2>2, <2>3
<1>4. CASE InitNode(t) \/ InitGlobal(t) \/ FoundGlobal(t) \/ SetGlobal(t)
  <2>1. /\ mutex' = mutex /\ pc[t] \in {"init", "initglobal", "setglobal"}
        /\ \/ pc'[t] = "setnode"
           \/ pc'[t] \in {"initglobal", "setglobal"} /\ Sched(loop[t]) = "dynamic"
    <3>1. CASE InitNode(t)
      <4>1. NodeShare(n, loop[t]).sched = Sched(loop[t])
        BY <1>0, NodeShareIs
      <4> QED
        BY <3>1, <4>1, <1>0 DEF InitNode, Goto, Types
    <3>2. CASE InitGlobal(t) \/ FoundGlobal(t) \/ SetGlobal(t)
      BY <3>2, <1>0 DEF InitGlobal, FoundGlobal, SetGlobal, Goto, Types, shares
    <3> QED
      BY <3>1, <3>2, <1>4
  <2>2. Kind(t)'
    BY <2>1, <1>1 DEF Kind
  <2>3. ASSUME NEW u \in Threads PROVE Mutex(u)'
    BY <2>1, <1>1, <1>2 DEF Mutex
  <2> QED
    BY <2>2, <2>3
<1>5. CASE SetNode(t) \/ FoundNode(t)
  <2>1. /\ mutex' = mutex /\ pc[t] \in {"init", "setnode"}
        /\ pc'[t] = (IF ws[n].sched = "static" THEN "static" ELSE "next")
        /\ wsLock[n] # "null"
    <3>1. CASE SetNode(t)
      <4>1. NodeLock(n) /\ t \in ThreadsOf(n) /\ Owner(t)
        BY <3>1, <1>0, SetNodeIs, ThreadTypes DEF Locks, Owner
      <4> QED
        BY <3>1, <4>1, <1>0, SetNodeIs DEF Types, NodeLock
    <3>2. CASE FoundNode(t)
      <4>1. pc' = [pc EXCEPT ![t] = IF ws[n].sched = "static" THEN "static" ELSE "next"]
        BY <3>2, <1>0, BeginIs DEF FoundNode
      <4> QED
        BY <3>2, <4>1, <1>0 DEF FoundNode, Types, shares
    <3> QED
      BY <3>1, <3>2, <1>5
  <2>2. ws[n].sched = Sched(loop[t])
    BY <2>1, <1>0, <1>1 DEF NodeShareOf
  <2>3. Kind(t)'
    BY <2>1, <2>2, <1>0, <1>1 DEF Kind
  <2>4. ASSUME NEW u \in Threads PROVE Mutex(u)'
    BY <2>1, <1>1, <1>2 DEF Mutex
  <2> QED
    BY <2>3, <2>4
<1> QED
  BY <1>3, <1>4, <1>5 DEF Works, Takes

\* Kind and Mutex, for the steps that end a loop.
LEMMA SyncKind ==
  ASSUME NoProbes, SyncInv, LockInv, NEW t \in Threads,
         \/ SelectLeader(t) \/ FinishNode(t) \/ SelectGlobalLeader(t) \/ FinishGlobal(t)
         \/ GlobalBarrier(t) \/ GlobalReleased(t) \/ Cleanup(t) \/ NodeBarrier(t)
         \/ NodeReleased(t)
  PROVE  Kind(t)' /\ \A u \in Threads : Mutex(u)'
<1>1. /\ \A u \in Threads \ {t} : pc'[u] = pc[u] /\ loop'[u] = loop[u]
      /\ Loops' = Loops /\ mutex' = mutex
      /\ pc[t] \notin {"add", "cas"} /\ pc'[t] \notin {"add", "cas"}
      /\ \/ pc'[t] \in {"bar", "leading", "cleanup", "wait", "init", "done"}
         \/ FinishNode(t) /\ ws[NodeOf[t]].sched = "dynamic" /\ loop' = loop
         \/ pc[t] \in {"gend", "gleading", "gbar"} /\ loop' = loop
            /\ pc'[t] \in {"gleading", "gbar", "gwait"}
  BY SyncControl
<1>2. Kind(t)'
  <2>1. CASE pc'[t] \in {"bar", "leading", "cleanup", "wait", "init", "done"}
    BY <2>1 DEF Kind
  <2>2. CASE FinishNode(t) /\ ws[NodeOf[t]].sched = "dynamic" /\ loop' = loop
    <3>1. Sched(loop[t]) = "dynamic"
      BY <2>2, FinishNodeLocks DEF LockInv
    <3>2. Sched(loop[t])' = "dynamic"
      BY <3>1, <2>2, <1>1 DEF Sched
    <3>3. pc'[t] = "gend"
      BY <2>2, FinishNodeIs DEF SyncInv, Types
    <3> QED
      BY <3>2, <3>3 DEF Kind
  <2>3. CASE pc[t] \in {"gend", "gleading", "gbar"} /\ loop' = loop
             /\ pc'[t] \in {"gleading", "gbar", "gwait"}
    BY <2>3, <1>1 DEF Kind, LockInv, Sched
  <2> QED
    BY <1>1, <2>1, <2>2, <2>3
<1>3. ASSUME NEW u \in Threads PROVE Mutex(u)'
  <2>1. Mutex(u)
    BY DEF LockInv
  <2> QED
    BY <2>1, <1>1 DEF Mutex
<1> QED
  BY <1>2, <1>3

\* Every step keeps the whole of LockInv.
LEMMA StepLockInv ==
  ASSUME NoProbes, SyncInv, LockInv, NEW t \in Threads, Steps(t)
  PROVE  LockInv'
<1>1. Locks'
  BY StepLocks
<1>2. Kind(t)' /\ \A u \in Threads : Mutex(u)'
  BY WorksKind, SyncKind DEF Steps, Works
<1>3. \A u \in Threads \ {t} : pc'[u] = pc[u] /\ loop'[u] = loop[u] /\ Loops' = Loops
  <2>1. CASE Works(t)
    BY <2>1, WorkFrame
  <2>2. CASE ~Works(t)
    BY <2>2, SyncControl DEF Steps, Works
  <2> QED
    BY <2>1, <2>2
<1>4. ASSUME NEW u \in Threads \ {t} PROVE Kind(u)'
  <2>1. Kind(u)
    BY DEF LockInv
  <2> QED
    BY <2>1, <1>3 DEF Kind, Sched
<1> QED
  BY <1>1, <1>2, <1>4 DEF LockInv

\* At the start no work share is armed.
LEMMA InitLockInv ==
  ASSUME NoProbes, Init
  PROVE  LockInv
<1>1. /\ pc = [t \in Threads |-> "init"] /\ loop = [t \in Threads |-> 1]
      /\ wsLock = [n \in Nodes |-> "null"] /\ gwsLock = "null"
      /\ mutex = [n \in Nodes |-> None]
  BY DEF Init
<1>2. /\ \A n \in Nodes : ThreadsOf(n) # {} /\ ThreadsOf(n) \subseteq Threads
      /\ Nodes # {} /\ None \notin Threads /\ \A t \in Threads : NodeOf[t] \in Nodes
  BY WorkshareAssumption DEF ThreadsOf
<1>3. \A t \in Threads : /\ Cur(t) = 1 /\ Between(t) /\ ~Owner(t) /\ ~Leading(t)
                         /\ pc[t] = "init" /\ ~Parked(t)
  BY <1>1 DEF Cur, Freed, Between, Owner, Leading, LeaderPCs, Parked
<1>4. \A n \in Nodes : /\ ~Closed(n) /\ Unstarted(n) /\ ~Finished(n) /\ ~Past(n) /\ ~NodeArrives(n)
                       /\ wsLock[n] = "null"
  BY <1>1, <1>2, <1>3 DEF Closed, Unstarted, Finished, Past, NodeArrives, GFreed, GParked
<1>5. ~GlobalClosed
  BY <1>2, <1>4 DEF GlobalClosed
<1>6. Together
  BY <1>2, <1>3, <1>4 DEF Together, Ended
<1>7. \A n \in Nodes : NodeLock(n)
  BY <1>2, <1>3, <1>4 DEF NodeLock
<1>8. \A t \in Threads : NodeShareOf(t) /\ Kind(t) /\ Mutex(t)
  BY <1>1, <1>2, <1>3, <1>4 DEF NodeShareOf, Kind, Mutex
<1>9. GlobalLock /\ GlobalShare
  BY <1>1, <1>3, <1>5 DEF GlobalLock, GlobalShare
<1>10. GlobalSet
  <2>1. \A t \in Threads : ~Started(t)
    BY <1>2, <1>3, <1>4 DEF Started
  <2> QED
    BY <2>1 DEF GlobalSet
<1> QED
  BY <1>6, <1>7, <1>8, <1>9, <1>10 DEF LockInv, Locks

\* A step that changes nothing.
LEMMA StutterLockInv ==
  ASSUME SyncInv, LockInv, UNCHANGED vars
  PROVE  LockInv'
<1>0. Types /\ Locks
  BY DEF SyncInv, LockInv
<1>1. /\ UNCHANGED <<Loops, wsLock, gwsLock, ws, gws, mutex, bar, gbar, gen, pc, loop>>
      /\ LoopIds' = LoopIds
  BY DEF vars, shares, sync, LoopIds
<1>2. \A u \in Threads : /\ Cur(u)' = Cur(u)
                         /\ Between(u)' <=> Between(u)
                         /\ Owner(u)' <=> Owner(u)
                         /\ Parked(u)' <=> Parked(u)
                         /\ Leading(u)' <=> Leading(u)
                         /\ GFreed(u)' <=> GFreed(u)
                         /\ GParked(u)' <=> GParked(u)
  BY <1>1 DEF Cur, Between, Owner, Parked, Freed, Leading, GFreed, GParked
<1>3. \A n \in Nodes : /\ Finished(n)' <=> Finished(n)
                       /\ Past(n)' <=> Past(n)
                       /\ NodeArrives(n)' <=> NodeArrives(n)
  BY <1>1, <1>2 DEF Finished, Past, NodeArrives, Closed, ThreadsOf
<1>4. Locks'
  <2>1. GlobalClosed' <=> GlobalClosed
    BY <1>3 DEF GlobalClosed
  <2> QED
    BY <2>1, <1>0, <1>1, <1>2, <1>3, LocksKept
<1>5. \A t \in Threads : Kind(t)' /\ Mutex(t)'
  BY <1>1 DEF LockInv, Kind, Mutex, Sched
<1> QED
  BY <1>4, <1>5 DEF LockInv

\* The work shares: in every state the one of a node is armed from the first
\* thread that begins the loop to the leader that ends it and has one owner
\* while it is initialised, the global one is armed for the one dynamic loop
\* that all threads are next to end, and a dynamic loop ends for all threads
\* at once.
THEOREM WorkSharesArmed == Spec => [](NoProbes => SyncInv /\ LockInv)
<1>1. Init => (NoProbes => SyncInv /\ LockInv)
  BY InitSync, InitLockInv
<1>2. (NoProbes => SyncInv /\ LockInv) /\ [Next]_vars => (NoProbes => SyncInv /\ LockInv)'
  <2> SUFFICES ASSUME NoProbes, SyncInv, LockInv, [Next]_vars PROVE LockInv'
    BY NextSync, SameProbes
  <2>1. CASE UNCHANGED vars
    BY <2>1, StutterLockInv
  <2>2. ASSUME NEW t \in Threads, ThreadStep(t) PROVE LockInv'
    BY <2>2, OnlySteps, StepLockInv DEF SyncInv
  <2> QED
    BY <2>1, <2>2 DEF Next, Done
<1> QED
  BY <1>1, <1>2, PTL DEF Spec


\* The work share of a thread that takes iterations: its node's is ready and
\* for the loop the thread is in, and so is the global one of a dynamic loop.
LEMMA InUseFacts ==
  ASSUME NoProbes, SyncInv, LockInv, NEW t \in Threads, InUse(t)
  PROVE  /\ pc[t] # "setnode" => wsLock[NodeOf[t]] = "set"
         /\ wsLock[NodeOf[t]] # "null" /\ Cur(t) = loop[t] /\ Outside(t)
         /\ Dynamic(loop[t]) =>
              /\ gwsLock = "set" /\ gws.end = Loops[loop[t]].end /\ gws.sched = "dynamic"
              /\ Is(loop[t])
<1> DEFINE n == NodeOf[t]
<1>0. /\ Types /\ Locks /\ n \in Nodes /\ t \in ThreadsOf(n) /\ loop[t] \in LoopIds
      /\ NodeLock(n) /\ wsLock[n] \in LockStates
  BY ThreadTypes DEF SyncInv, LockInv, Locks, Types
<1>1. Outside(t) /\ ~Between(t) /\ Cur(t) = loop[t]
  <2>1. pc[t] # "probe"
    BY <1>0, ThreadTypes DEF WorkPCs, LeaderPCs
  <2> QED
    BY <2>1 DEF InUse, Outside, WorkPCs, Between, Freed, Cur
<1>2. ~Finished(n) /\ ~Past(n) /\ ~GlobalClosed
  BY <1>1, OutsideFacts
<1>3. wsLock[n] # "null"
  BY <1>0, <1>1, <1>2 DEF NodeLock, Unstarted
<1>4. pc[t] # "setnode" => wsLock[n] = "set"
  <2> SUFFICES ASSUME pc[t] # "setnode", wsLock[n] # "set" PROVE FALSE
    OBVIOUS
  <2>1. ~Owner(t)
    BY DEF Owner, InUse
  <2>2. PICK u \in ThreadsOf(n) : Owner(u)
    BY <1>0, <1>3 DEF NodeLock, LockStates
  <2>3. Between(t)
    BY <2>1, <2>2, <1>0 DEF NodeLock
  <2> QED
    BY <2>3, <1>1
<1>5. ASSUME Dynamic(loop[t])
      PROVE  /\ gwsLock = "set" /\ gws.end = Loops[loop[t]].end /\ gws.sched = "dynamic"
             /\ Is(loop[t])
  <2>1. gwsLock = "set"
    BY <1>0, <1>1, <1>2, <1>4, <1>5 DEF Started, Locks, GlobalSet
  <2>2. PICK g \in LoopIds : Is(g) /\ gws.end = Loops[g].end /\ gws.sched = "dynamic"
    BY <2>1, <1>0 DEF Locks, GlobalShare
  <2>3. ~Ended(t, g) /\ ~Ended(t, loop[t])
    BY <2>2, <1>0, <1>1, <1>2, LoopTypes DEF Is, Ended
  <2>4. ~(g < loop[t]) /\ ~(loop[t] < g)
    BY <2>2, <2>3, <1>0, <1>1, <1>5 DEF Is, Ended
  <2>5. g = loop[t]
    BY <2>4, <1>0, LoopTypes
  <2> QED
    BY <2>1, <2>2, <2>5
<1> QED
  BY <1>1, <1>3, <1>4, <1>5

\* No work share is finalised under a thread that still takes iterations from
\* it, and no thread works with one left over from another loop.
THEOREM WorkSharesInUse == Spec => [](NoProbes => InitialisedInUse)
<1>1. (NoProbes => SyncInv /\ LockInv) => (NoProbes => InitialisedInUse)
  <2> SUFFICES ASSUME NoProbes, SyncInv, LockInv, NEW t \in Threads, InUse(t)
               PROVE  /\ pc[t] # "setnode" => wsLock[NodeOf[t]] = "set"
                      /\ IsShared(loop[t]) => gwsLock = "set" /\ gws.end = Loops[loop[t]].end
    BY DEF InitialisedInUse
  <2>1. loop[t] \in LoopIds /\ (IsShared(loop[t]) => Dynamic(loop[t]))
    BY ThreadTypes, LoopTypes DEF SyncInv, Dynamic
  <2> QED
    BY <2>1, InUseFacts
<1> QED
  BY <1>1, WorkSharesArmed, PTL
=============================================================================
