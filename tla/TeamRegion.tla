----------------------------- MODULE TeamRegion -----------------------------
(***************************************************************************)
(* The life of a thread team of lib/libopenpop spread over Popcorn nodes:  *)
(* starting regions (gomp_team_start), docking and releasing pooled        *)
(* threads (gomp_thread_start), per-node initialization of the threads by  *)
(* a node leader (hierarchy_init_thread), the hybrid barriers of the       *)
(* region body and the end-of-region barrier, whose structures the main    *)
(* thread re-initializes for the next region, the switch to a preferred    *)
(* node (__kmpc_fork_call), and the shutdown of the pool.                  *)
(*                                                                         *)
(* Thread 0 is the main thread.  A function pointer is the number of the   *)
(* region it implements, NULL is 0.  A last arriver's re-arming of the     *)
(* counters and its publishing of the generation are one step here;        *)
(* HybridBarrier separates them.  The team is distributed, not nested, and *)
(* uses hybrid barriers; tasks and cancellation are left out.              *)
(***************************************************************************)
EXTENDS Integers, Sequences, FiniteSets, FiniteSetsExt

CONSTANTS
  NodeCount,         \* nodes are 0 .. NodeCount - 1, node 0 is the origin
  Places,            \* node_places as configured at startup, by node
  TeamSizes,         \* threads the program asks for, region by region
  InRegionBarriers,  \* barriers in the body of every region
  KillRegion,        \* region whose probing sets popcorn_killswitch
  Preferred          \* popcorn_preferred_node

Nodes   == 0 .. NodeCount - 1
Threads == 0 .. Max({TeamSizes[i] : i \in DOMAIN TeamSizes}) - 1
Main    == 0
Workers == Threads \ {Main}
Null    == 0
Regions == DOMAIN TeamSizes

ASSUME TeamAssumption ==
  /\ NodeCount \in Nat \ {0}
  /\ Places \in [Nodes -> Nat] /\ Places[0] > 0
  /\ TeamSizes \in Seq(Nat \ {0}) /\ \E i \in DOMAIN TeamSizes : TeamSizes[i] > 1
  /\ InRegionBarriers \in Nat
  /\ KillRegion \in Nat \ {0} /\ Preferred \in {0, 1}
  /\ KillRegion \in Regions => NodeCount = 2 \* kmp.c: hardcoded for 2 nodes
  \* Bound: a pool that shrank does not grow again, which would give a thread
  \* number to a second thread.
  /\ \A i, j, k \in DOMAIN TeamSizes :
       i < j /\ j < k /\ 1 < TeamSizes[j] /\ TeamSizes[j] < TeamSizes[i] =>
         TeamSizes[k] <= TeamSizes[j]

\* popcorn_node[n].bar, popcorn_global.bar and pool->threads_dock.
Global   == NodeCount
Dock     == NodeCount + 1
Barriers == Nodes \cup {Global, Dock}

VARIABLES
  region,    \* the region main is in or has last executed, 0 at first
  places,    \* popcorn_global.node_places
  nthreads,  \* the nthreads ICV set by the switch, 0 when never set
  used,      \* pool->threads_used
  finished,  \* popcorn_global.finished
  perNode,   \* popcorn_global.threads_per_node
  sync,      \* leader selection (num, remaining) of each node
  bar,       \* the gomp_barrier_t of each node, the global one and the dock
  ns,        \* node_init_t of each node: fn and the first team_id
  thr,       \* every thread: fields of its gomp_thread and its locals
  ran        \* history: the regions a thread has executed

vars == <<region, places, nthreads, used, finished, perNode, sync, bar, ns, thr, ran>>

-----------------------------------------------------------------------------
(* Placement of threads on nodes                                           *)

\* hierarchy_node_first_thread: places on the nodes before n.
NodeFirstThread(n) == MapThenSumSet(LAMBDA m : places[m], 0 .. n - 1)

\* hierarchy_assign_node: the node whose places cover the thread number, the
\* origin once the specification is exhausted.
AssignNode(tnum) ==
  LET covering == {n \in Nodes : tnum < NodeFirstThread(n + 1)}
  IN  IF covering = {} THEN 0 ELSE Min(covering)

ThreadsPerNode(size) ==
  [n \in Nodes |-> Cardinality({t \in 0 .. size - 1 : AssignNode(t) = n})]

\* Mutant of ReinitAll: gomp_barrier_init in its place.
ReinitGeneration(b, count) ==
  [total |-> count, awaited |-> count, awaitedFinal |-> count, generation |-> 0]

\* gomp_barrier_reinit_all: the generation stays.
ReinitAll(b, count) ==
  [b EXCEPT !.total = count, !.awaited = count, !.awaitedFinal = count]

\* gomp_barrier_reinit, which gomp_barrier_init equals on a zeroed barrier.
ReinitDock(b, count) == [b EXCEPT !.awaited = @ + count - b.total, !.total = count]

Unborn == [pc |-> "unborn", phase |-> "none", at |-> Dock, state |-> 0,
           fn |-> Null, job |-> Null, nid |-> 0, leader |-> FALSE,
           barriers |-> 0]

Init ==
  /\ region = 0 /\ used = 0 /\ finished = FALSE /\ nthreads = 0
  /\ places = Places
  /\ perNode = [n \in Nodes |-> 0]
  /\ sync = [n \in Nodes |-> [num |-> 0, remaining |-> 0]]
  /\ bar = [b \in Barriers |->
             [total |-> 0, awaited |-> 0, awaitedFinal |-> 0, generation |-> 0]]
  /\ ns = [n \in Nodes |-> [fn |-> Null, start |-> 0]]
  /\ thr = [t \in Threads |->
             IF t = Main THEN [Unborn EXCEPT !.pc = "serial"] ELSE Unborn]
  /\ ran = [t \in Threads |-> {}]

\* The record of a thread that goes on to wait on barrier b; phase names the
\* call it is in, and so where it returns to.
Waiting(th, b, phase) == [th EXCEPT !.pc = "load", !.at = b, !.phase = phase]

\* The record of a thread that enters leader selection on its node.
Selecting(th, phase) == [th EXCEPT !.pc = "select", !.at = th.nid, !.phase = phase]

-----------------------------------------------------------------------------
(* The main thread between regions                                         *)

TeamSize(r) == IF nthreads = 0 THEN TeamSizes[r] ELSE nthreads

\* The node and global structures as re-initialized for counts threads each.
ActiveNodes(counts) == {n \in Nodes : counts[n] > 0}

\* Mutant of ReinitSync: leader selection is left as the last region left it.
ReinitSyncNum(counts) ==
  [n \in Nodes |-> IF counts[n] > 0 /\ sync[n].num # counts[n]
                   THEN [num |-> counts[n], remaining |-> counts[n]] ELSE sync[n]]

ReinitSync(counts) ==
  [n \in Nodes |-> IF counts[n] > 0 THEN [num |-> counts[n], remaining |-> counts[n]]
                                    ELSE sync[n]]
ReinitBarriers(counts, dock) ==
  [b \in Barriers |->
    CASE b = Dock   -> dock
      [] b = Global -> ReinitAll(bar[b], Cardinality(ActiveNodes(counts)))
      [] OTHER        -> IF counts[b] > 0 THEN ReinitAll(bar[b], counts[b]) ELSE bar[b]]

\* gomp_team_start with one thread: no dock, no other thread is involved.
SerialTeamStart ==
  LET counts == ThreadsPerNode(1)
  IN  /\ thr[Main].pc = "serial" /\ region + 1 \in Regions
      /\ TeamSize(region + 1) = 1
      /\ region' = region + 1
      /\ perNode' = counts
      /\ sync' = ReinitSync(counts)
      /\ bar' = ReinitBarriers(counts, bar[Dock])
      /\ thr' = [thr EXCEPT ![Main].pc = "run", ![Main].job = region + 1]
      /\ UNCHANGED <<places, nthreads, used, finished, ns, ran>>

\* gomp_team_start up to the dock: hand the function to the pooled threads of
\* node 0 directly and to those of another node through its node_init_t, when
\* the node's first thread comes by; create the threads the pool lacks.
TeamStart ==
  LET size   == TeamSize(region + 1)
      counts == ThreadsPerNode(size)
      pooled == {t \in Workers : t < used /\ t < size}
      new    == {t \in Workers : used <= t /\ t < size}
      dock   == IF size > used THEN ReinitDock(bar[Dock], size) ELSE bar[Dock]
  IN  /\ thr[Main].pc = "serial" /\ region + 1 \in Regions /\ size > 1
      /\ region' = region + 1
      /\ used' = size
      /\ perNode' = counts
      /\ sync' = ReinitSync(counts)
      /\ bar' = ReinitBarriers(counts, dock)
      /\ ns' = [n \in Nodes |->
                 IF n # 0 /\ \E t \in pooled : AssignNode(t) = n /\ t = NodeFirstThread(n)
                 THEN [fn |-> region + 1, start |-> NodeFirstThread(n)] ELSE ns[n]]
      /\ thr' = [t \in Threads |->
                 CASE t = Main -> [Waiting(thr[t], Dock, "dock") EXCEPT !.job = region + 1]
                   [] t \in new -> [Waiting(Unborn, Dock, "create")
                                     EXCEPT !.job = region + 1, !.nid = AssignNode(t)]
                   [] t \in pooled /\ AssignNode(t) = 0 -> [thr[t] EXCEPT !.fn = region + 1]
                   [] OTHER -> thr[t]]
      /\ UNCHANGED <<places, nthreads, finished, ran>>

\* After the dock: it expects only the threads that remain.
ShrinkDock ==
  /\ thr[Main].pc = "docked"
  /\ bar' = [bar EXCEPT ![Dock] = ReinitDock(@, used)]
  /\ thr' = [thr EXCEPT ![Main].pc = "run"]
  /\ UNCHANGED <<region, places, nthreads, used, finished, perNode, sync, ns, ran>>

\* Mutant of SwitchSize: main is counted twice on the origin.
SwitchSizeAndMain == places[Preferred] + 1

\* omp_set_num_threads for the places of the preferred node, and main.
SwitchSize == IF Preferred = 0 THEN places[0] ELSE places[1] + 1

\* The rest of __kmpc_fork_call after the region: once probing has set the
\* switch, only the preferred node is to execute.
ForkReturn ==
  /\ thr[Main].pc = "joined"
  /\ thr' = [thr EXCEPT ![Main].pc = "serial"]
  /\ IF region < KillRegion THEN UNCHANGED <<places, nthreads, ns>>
     ELSE /\ nthreads' = SwitchSize
          /\ places' = IF Preferred = 0 THEN [places EXCEPT ![1] = 0]
                                        ELSE [places EXCEPT ![0] = 1]
          /\ ns' = [ns EXCEPT ![1 - Preferred].fn = Null]
  /\ UNCHANGED <<region, used, finished, perNode, sync, bar, ran>>

\* Mutant of Shutdown: main waits at the dock once only.
ShutdownAtOnce ==
  /\ thr[Main].pc = "serial" /\ region + 1 \notin Regions
  /\ thr' = [t \in Threads |->
              CASE t = Main -> Waiting(thr[t], Dock, "home")
                [] t # Main /\ t < used -> [thr[t] EXCEPT !.fn = Null]
                [] OTHER -> thr[t]]
  /\ finished' = TRUE
  /\ UNCHANGED <<region, places, nthreads, used, perNode, sync, bar, ns, ran>>

\* gomp_release_pool_threads_final: no more functions, break the threads out
\* of their loop.
Shutdown ==
  /\ thr[Main].pc = "serial" /\ region + 1 \notin Regions
  /\ thr' = [t \in Threads |->
              CASE t = Main -> Waiting(thr[t], Dock, "shutdown")
                [] t # Main /\ t < used -> [thr[t] EXCEPT !.fn = Null]
                [] OTHER -> thr[t]]
  /\ finished' = TRUE
  /\ UNCHANGED <<region, places, nthreads, used, perNode, sync, bar, ns, ran>>
-----------------------------------------------------------------------------
(* Waiting on a barrier                                                    *)

\* The counter a wait consumes: the end of a region has one of its own.
Counter(t) == IF thr[t].phase = "end" THEN bar[thr[t].at].awaitedFinal
                                      ELSE bar[thr[t].at].awaited

\* Where thread t goes when its wait is over.
Returned(t) ==
  LET th == thr[t]
  IN  CASE th.at = Global /\ th.phase = "body" -> [th EXCEPT !.pc = "cleanup"]
        [] th.at = Global /\ th.phase = "end"  -> [th EXCEPT !.pc = "finalLast"]
        [] th.at # Global /\ th.phase = "body" ->
             [th EXCEPT !.pc = "body", !.barriers = @ + 1, !.leader = FALSE]
        [] th.at # Global /\ th.phase = "end" ->
             IF t = Main THEN [th EXCEPT !.pc = "joined", !.leader = FALSE]
             ELSE Waiting([th EXCEPT !.leader = FALSE], Dock, "dock")
        [] th.phase = "init"     -> [th EXCEPT !.pc = "fetch", !.leader = FALSE]
        [] th.phase = "create"   -> [th EXCEPT !.pc = "run"]
        [] th.phase = "dock"     ->
             IF t = Main THEN [th EXCEPT !.pc = "docked"]
             ELSE [th EXCEPT !.pc = IF th.nid = 0 THEN "fetch" ELSE "init"]
        [] th.phase = "shutdown" -> Waiting(th, Dock, "home")
        [] th.phase = "home"     -> [th EXCEPT !.pc = "exited"]

\* gomp_barrier_wait_start and gomp_barrier_wait_final_start.
WaitStartLoad(t) ==
  /\ thr[t].pc = "load"
  /\ thr' = [thr EXCEPT ![t].pc = "decrement", ![t].state = bar[thr[t].at].generation]
  /\ UNCHANGED <<region, places, nthreads, used, finished, perNode, sync, bar, ns, ran>>

WaitStartDecrement(t) ==
  /\ thr[t].pc = "decrement"
  /\ bar' = IF thr[t].phase = "end" THEN [bar EXCEPT ![thr[t].at].awaitedFinal = @ - 1]
                                    ELSE [bar EXCEPT ![thr[t].at].awaited = @ - 1]
  /\ thr' = [thr EXCEPT ![t].pc = IF Counter(t) = 1 THEN "release" ELSE "wait"]
  /\ UNCHANGED <<region, places, nthreads, used, finished, perNode, sync, ns, ran>>

\* BAR_WAS_LAST: re-arm the counters; a team barrier publishes the generation
\* it loaded plus one, the dock increments the current one.
WaitEndLast(t) ==
  LET b == thr[t].at
  IN  /\ thr[t].pc = "release"
      /\ bar' = [bar EXCEPT
                  ![b].awaited = bar[b].total,
                  ![b].awaitedFinal = IF thr[t].phase = "end" THEN bar[b].total ELSE @,
                  ![b].generation = IF b = Dock THEN @ + 1 ELSE thr[t].state + 1]
      /\ thr' = [thr EXCEPT ![t] = Returned(t)]
      /\ UNCHANGED <<region, places, nthreads, used, finished, perNode, sync, ns, ran>>

\* The dock waits for a different generation, a team barrier for the next one.
Released(t) ==
  LET b == thr[t].at
  IN  IF b = Dock THEN bar[b].generation # thr[t].state
                    ELSE bar[b].generation = thr[t].state + 1

WaitEnd(t) ==
  /\ thr[t].pc = "wait" /\ Released(t)
  /\ thr' = [thr EXCEPT ![t] = Returned(t)]
  /\ UNCHANGED <<region, places, nthreads, used, finished, perNode, sync, bar, ns, ran>>

\* gomp_team_barrier_wait_final_last: the leader releases its node without
\* having been counted there.
FinalLast(t) ==
  LET n == thr[t].nid
  IN  /\ thr[t].pc = "finalLast"
      /\ bar' = [bar EXCEPT ![n].generation = @ + 1]
      /\ thr' = [thr EXCEPT ![t] = IF t = Main
                   THEN [thr[t] EXCEPT !.pc = "joined", !.leader = FALSE, !.at = n]
                   ELSE Waiting([thr[t] EXCEPT !.leader = FALSE], Dock, "dock")]
      /\ UNCHANGED <<region, places, nthreads, used, finished, perNode, sync, ns, ran>>
-----------------------------------------------------------------------------
(* Leader selection                                                        *)

\* The counter is unsigned in the code: once below zero it is not zero for
\* 2^64 more decrements, like the negative number here.
SelectLeaderSynchronous(t) ==
  LET rem == sync[thr[t].nid].remaining - 1
  IN  /\ thr[t].pc = "select"
      /\ sync' = [sync EXCEPT ![thr[t].nid].remaining = rem]
      /\ thr' = [thr EXCEPT ![t].leader = (rem = 0),
                            ![t].pc = IF rem = 0 THEN "spin" ELSE "load"]
      /\ UNCHANGED <<region, places, nthreads, used, finished, perNode, bar, ns, ran>>

\* Mutant of LeaderSpin: the leader does not wait for its node.
LeaderSpinEager(t) ==
  /\ thr[t].pc = "spin"
  /\ thr' = [thr EXCEPT ![t] = IF thr[t].phase = "init"
                                THEN [thr[t] EXCEPT !.pc = "handOut"]
                                ELSE Waiting(thr[t], Global, thr[t].phase)]
  /\ UNCHANGED <<region, places, nthreads, used, finished, perNode, sync, bar, ns, ran>>

\* Mutant of LeaderSpin: the leader skips the global barrier.
LeaderSpinLocal(t) ==
  /\ thr[t].pc = "spin" /\ Counter(t) = 1
  /\ thr' = [thr EXCEPT ![t].pc = CASE thr[t].phase = "init" -> "handOut"
                                     [] thr[t].phase = "body" -> "cleanup"
                                     [] thr[t].phase = "end"  -> "finalLast"]
  /\ UNCHANGED <<region, places, nthreads, used, finished, perNode, sync, bar, ns, ran>>

\* The leader waits for the non-leaders of its node to enter the barrier.
LeaderSpin(t) ==
  /\ thr[t].pc = "spin" /\ Counter(t) = 1
  /\ thr' = [thr EXCEPT ![t] = IF thr[t].phase = "init"
                                THEN [thr[t] EXCEPT !.pc = "handOut"]
                                ELSE Waiting(thr[t], Global, thr[t].phase)]
  /\ UNCHANGED <<region, places, nthreads, used, finished, perNode, sync, bar, ns, ran>>

LeaderCleanup(t) ==
  LET n == thr[t].nid
  IN  /\ thr[t].pc = "cleanup"
      /\ sync' = [sync EXCEPT ![n].remaining = sync[n].num]
      /\ thr' = [thr EXCEPT ![t] = Waiting(thr[t], n, thr[t].phase)]
      /\ UNCHANGED <<region, places, nthreads, used, finished, perNode, bar, ns, ran>>
-----------------------------------------------------------------------------
(* Threads of the pool                                                     *)

\* Entry of hierarchy_init_thread: the function is read once, a node without
\* one does not participate.
InitRead(t) ==
  LET n == thr[t].nid
  IN  /\ thr[t].pc = "init"
      /\ thr' = [thr EXCEPT ![t] = IF ns[n].fn = Null THEN [thr[t] EXCEPT !.pc = "fetch"]
                                    ELSE Selecting([thr[t] EXCEPT !.job = ns[n].fn], "init")]
      /\ UNCHANGED <<region, places, nthreads, used, finished, perNode, sync, bar, ns, ran>>

\* Mutant of Members: the leader leaves the last thread out.
MembersButLast(n) == ns[n].start .. ns[n].start + perNode[n] - 2

\* The threads a leader of node n initializes.
Members(n) == ns[n].start .. ns[n].start + perNode[n] - 1

\* The node leader hands the function it read to all threads of the node.
HandOut(t) ==
  LET n == thr[t].nid
  IN  /\ thr[t].pc = "handOut"
      /\ ns' = [ns EXCEPT ![n].fn = Null]
      /\ thr' = [u \in Threads |->
                  LET th == IF u \in Members(n) THEN [thr[u] EXCEPT !.fn = thr[t].job] ELSE thr[u]
                  IN  IF u = t THEN [th EXCEPT !.pc = "cleanup"] ELSE th]
      /\ UNCHANGED <<region, places, nthreads, used, finished, perNode, sync, bar, ran>>

\* local_fn = thr->fn; thr->fn = NULL; while (local_fn).
Fetch(t) ==
  /\ thr[t].pc = "fetch"
  /\ thr' = [thr EXCEPT ![t].job = thr[t].fn, ![t].fn = Null,
                        ![t].pc = IF thr[t].fn = Null THEN "leave" ELSE "run"]
  /\ UNCHANGED <<region, places, nthreads, used, finished, perNode, sync, bar, ns, ran>>

\* Out of the loop, back on the origin: at shutdown everybody meets again.
Leave(t) ==
  /\ thr[t].pc = "leave"
  /\ thr' = [thr EXCEPT ![t] = IF finished THEN Waiting(thr[t], Dock, "home")
                                ELSE [thr[t] EXCEPT !.pc = "exited"]]
  /\ UNCHANGED <<region, places, nthreads, used, finished, perNode, sync, bar, ns, ran>>

\* local_fn(local_data) begins.
Run(t) ==
  /\ thr[t].pc = "run"
  /\ ran' = [ran EXCEPT ![t] = @ \cup {thr[t].job}]
  /\ thr' = [thr EXCEPT ![t].pc = "body", ![t].barriers = 0]
  /\ UNCHANGED <<region, places, nthreads, used, finished, perNode, sync, bar, ns>>

\* The body runs into its next barrier, the last of which ends the region.
Body(t) ==
  /\ thr[t].pc = "body"
  /\ thr' = [thr EXCEPT ![t] =
              Selecting(thr[t], IF thr[t].barriers < InRegionBarriers THEN "body" ELSE "end")]
  /\ UNCHANGED <<region, places, nthreads, used, finished, perNode, sync, bar, ns, ran>>
-----------------------------------------------------------------------------
MainStep == SerialTeamStart \/ TeamStart \/ ShrinkDock \/ ForkReturn \/ Shutdown

ThreadStep(t) ==
  \/ WaitStartLoad(t) \/ WaitStartDecrement(t) \/ WaitEndLast(t) \/ WaitEnd(t)
  \/ FinalLast(t)
  \/ SelectLeaderSynchronous(t) \/ LeaderSpin(t) \/ LeaderCleanup(t)
  \/ InitRead(t) \/ HandOut(t) \/ Fetch(t) \/ Leave(t) \/ Run(t) \/ Body(t)

\* The process ends with its main thread.
Terminated == thr[Main].pc = "exited" /\ UNCHANGED vars

Next == Terminated \/ MainStep \/ \E t \in Threads : ThreadStep(t)

Spec == Init /\ [][Next]_vars

\* Every thread is a kernel thread of its own and is scheduled.
FairSpec == /\ Spec
            /\ WF_vars(MainStep \/ ThreadStep(Main))
            /\ \A t \in Workers : WF_vars(ThreadStep(t))

-----------------------------------------------------------------------------
(* Properties                                                              *)

\* The words of the shared structures and the threads' locals: no counter of
\* a barrier or of leader selection ever drops below zero.
TypeOK ==
  /\ region \in 0 .. Len(TeamSizes) /\ used \in Nat /\ finished \in BOOLEAN
  /\ perNode \in [Nodes -> Nat] /\ places \in [Nodes -> Nat] /\ nthreads \in Nat
  /\ sync \in [Nodes -> [num : Nat, remaining : Nat]]
  /\ bar \in [Barriers -> [total : Nat, awaited : Nat, awaitedFinal : Nat,
                           generation : Nat]]
  /\ ns \in [Nodes -> [fn : Regions \cup {Null}, start : Nat]]
  /\ ran \in [Threads -> SUBSET Regions]
  /\ \A t \in Threads : /\ thr[t].nid \in Nodes /\ thr[t].at \in Barriers
                        /\ {thr[t].fn, thr[t].job} \subseteq Regions \cup {Null}

\* gomp_team_start and gomp_team_end bracket a parallel region: when main has
\* joined a region, every thread of its team has executed the region's
\* function, and no thread outside of the team has.
EveryoneRuns ==
  thr[Main].pc = "joined" =>
    \A t \in Threads : region \in ran[t] <=> t < TeamSize(region)

InBody(t) == thr[t].pc = "body" \/ thr[t].phase = "body"

\* Two threads that are in a region's body at the same time are in the same
\* region, and none has left a barrier of it that the other has not entered,
\* however the last region's stragglers and the new team mix.
RegionSeparation ==
  \A t, u \in Threads : InBody(t) /\ InBody(u) =>
    /\ thr[t].job = thr[u].job
    /\ thr[t].barriers <= thr[u].barriers + IF thr[u].pc = "body" THEN 0 ELSE 1

\* A region is entered, executed and left by its whole team together, and by
\* nobody else.
RegionsInOrder == EveryoneRuns /\ RegionSeparation

\* hierarchy.c:117 claims that re-initialization does not disturb released
\* leaders which still read the generation: the generation a team barrier's
\* waiter sees is the one it waits in or the next, for which it tests exactly.
NoStrandedWaiter ==
  \A t \in Threads : thr[t].pc = "wait" /\ thr[t].at # Dock =>
    bar[thr[t].at].generation \in {thr[t].state, thr[t].state + 1}

\* team.c:554: the threads that are not part of the team will exit.  No other
\* worker leaves the pool before the program is finished.
OnlyExtrasExit ==
  \A t \in Workers : t < used /\ ~finished => thr[t].pc \notin {"leave", "exited"}

\* team.c:309: main passes the second dock only after everybody migrated back.
HomeBeforeExit ==
  thr[Main].pc = "exited" =>
    \A t \in Workers : thr[t].pc \in {"unborn", "exited"} \/ thr[t].phase = "home"

\* kmp.c:122: once probing chose a node, only threads on the preferred node
\* (and main) execute the regions that follow.
OnlyPreferredExecutes ==
  \A t \in Workers : InBody(t) /\ thr[t].job > KillRegion => thr[t].nid = Preferred

\* hierarchy.c:271: the structures are re-initialized with plain stores, so
\* no other thread may still consume one of their counters or be about to.
Touches(t) ==
  /\ thr[t].pc \in {"select", "spin", "load", "decrement", "release", "cleanup", "handOut"}
  /\ thr[t].at # Dock

QuiescentReinit ==
  [][region' # region => \A t \in Workers : ~Touches(t)]_vars

\* The program terminates: no wait at a barrier, in leader selection or at the
\* dock lasts for ever.
Termination == <>(thr[Main].pc = "exited")
=============================================================================
