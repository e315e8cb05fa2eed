--------------------------- MODULE HierWorkshare ---------------------------
(***************************************************************************)
(* The hierarchical work-sharing loops of lib/libopenpop (hierarchy.c) as  *)
(* the KMP layer drives them (kmp.c, __kmpc_dispatch): the threads of a    *)
(* team execute one loop after the other.  In a dynamic loop a thread      *)
(* takes iterations from its node's work share; when that is empty it      *)
(* fetches the node's next batch from the global work share.  In a static  *)
(* loop each thread takes its part of the loop.  In a hetprobe loop each   *)
(* thread first executes a probe; the times it takes rate the nodes, which *)
(* get shares of the rest in proportion.  A loop seen often enough uses    *)
(* the ratings without a probe, or has all work moved to one node.         *)
(* A loop ends at a two-level synchronisation that re-arms the work shares *)
(* for the next one.                                                       *)
(*                                                                         *)
(* Loops run from 0 with increment 1 (clang normalises them).  An          *)
(* arrival at a barrier (bar.c) and its release are one step each; module  *)
(* HybridBarrier has their interleavings.                                  *)
(***************************************************************************)
EXTENDS Integers, Sequences, FiniteSets, FiniteSetsExt

CONSTANTS
  Nodes,      \* the nodes that take part in the region, by number
  Threads,    \* the threads of the team
  NodeOf,     \* NodeOf[t]: popcorn_nid of t
  TeamId,     \* TeamId[t]: its number in the team
  Regions,    \* sequences of loops: schedule, end (exclusive), chunk, ident
  Part(_, _), \* Part(l, t): what StaticPartition gives t of static loop l
  PreferredPart(_, _), \* the same when only the preferred node has a rating
  Preferred,  \* popcorn_preferred_node
  MaxProbes,  \* popcorn_max_probes
  PrimeRegion,\* popcorn_prime_region
  Cache,      \* workshare_cache: what earlier regions left
  ProbeTimes, \* bound: times a probe takes
  LongBits,   \* bits of a long
  FloatBits,  \* bits of the mantissa of a float
  None        \* no thread

ThreadsOf(n) == {t \in Threads : NodeOf[t] = n}
ThreadsPerNode(n) == Cardinality(ThreadsOf(n))
Idents == DOMAIN Cache

LONG_MAX == 2^(LongBits - 1) - 1
\* A long wraps around.
Long(x) == ((x + 2^(LongBits - 1)) % 2^LongBits) - 2^(LongBits - 1)

\* A natural number as a float: to nearest, ties to even.
Float ==
  [x \in 0 .. 2^LongBits |->
     LET unit == Min({2^b : b \in {c \in 0 .. LongBits : x < 2^(FloatBits + c)}})
         q == x \div unit
         up == 2 * (x % unit) > unit \/ (2 * (x % unit) = unit /\ q % 2 = 1)
     IN  unit * (q + IF up THEN 1 ELSE 0)]

\* Ratings count in units of a RatingUnit-th.
RatingUnit == 4

\* kmp.c gives a loop that is shorter than four iterations per thread to the
\* static schedule, and sizes the probes to less than the whole loop.
ASSUME WorkshareAssumption ==
  /\ IsFiniteSet(Threads) /\ IsFiniteSet(Nodes) /\ Nodes \subseteq Nat
  /\ NodeOf \in [Threads -> Nodes]
  /\ \A n \in Nodes : ThreadsOf(n) # {}
  /\ {TeamId[t] : t \in Threads} = 0 .. Cardinality(Threads) - 1
  /\ LongBits \in Nat \ {0} /\ LongBits % 2 = 0 /\ FloatBits \in Nat \ {0}
  /\ Preferred \in Nodes /\ MaxProbes \in Nat /\ ProbeTimes \subseteq Nat \ {0}
  /\ \A region \in Regions :
       /\ region # <<>>
       /\ region \in Seq([sched : {"dynamic", "static", "hetprobe"}, end : 1 .. LONG_MAX,
                          chunk : 1 .. LONG_MAX, ident : Idents])
       /\ \A l \in {region[i] : i \in DOMAIN region} :
            /\ l.sched = "hetprobe" =>
                 4 * Cardinality(Threads) < l.end /\ l.chunk * Cardinality(Threads) < l.end
            /\ l.sched # "dynamic" =>
                 \A t, u \in Threads :
                   /\ UNION {Part(l, v) : v \in Threads} = 0 .. l.end - 1
                   /\ UNION {PreferredPart(l, v) : v \in Threads} = 0 .. l.end - 1
                   /\ t # u => /\ Part(l, t) \cap Part(l, u) = {}
                               /\ PreferredPart(l, t) \cap PreferredPart(l, u) = {}
  \* Arithmetic: what the proofs use of powers of two.
  /\ 2^(LongBits - 1) \in Nat \ {0} /\ 2^LongBits = 2 * 2^(LongBits - 1)
  /\ None \notin Threads

VARIABLES
  Loops,      \* the loops of the region
  wsLock,     \* popcorn_node[n].ws_lock: "null", "owned" or "set"
  gwsLock,    \* popcorn_global.ws_lock
  ws,         \* popcorn_node[n].ws: sched, next, end, chunk_size, threads_completed
  gws,        \* popcorn_global.ws: sched, next, end, mode
  mutex,      \* popcorn_node[n].ws.lock: the thread that holds it
  csr,        \* workshare_cache: trips, ratings, range, remaining iterations
  split,      \* popcorn_global.split
  killed,     \* the loop in which popcorn_killswitch was set; 0: it is not
  remaining,  \* popcorn_node[n].sync.remaining
  gremaining, \* popcorn_global.sync.remaining
  bar,        \* popcorn_node[n].bar: awaited, generation
  gbar,       \* popcorn_global.bar
  pc,         \* what the thread does next
  probing,    \* the thread is in the synchronisation that ends its probe
  loop,       \* the loop the thread is in
  gen,        \* the generation at which the thread arrived at a barrier
  start,      \* local `start` of gomp_iter_dynamic_next_raw
  batch,      \* end of the batch a thread was given last
  given,      \* given[l]: the iterations of l that were given to a thread
  twice,      \* twice[l]: those that were given more than once
  flagged     \* flagged[l]: the batches of l that were flagged the last

shares == <<wsLock, gwsLock, ws, gws, mutex>>
rates == <<csr, split, killed>>
sync == <<remaining, gremaining, bar, gbar, gen>>
progress == <<batch, given, twice, flagged>>
vars == <<Loops, shares, rates, sync, pc, probing, loop, start, progress>>

LoopIds == DOMAIN Loops
Sched(l) == Loops[l].sched
\* popcorn_killswitch is set when loop l starts.
Switched(l) == killed # 0 /\ killed < l
Iterations(l) == 0 .. Loops[l].end - 1
Fresh(count) == [awaited |-> count, generation |-> 0]

Init ==
  /\ Loops \in Regions
  /\ wsLock = [n \in Nodes |-> "null"] /\ gwsLock = "null"
  /\ ws = [n \in Nodes |-> [sched |-> "static", next |-> 0, end |-> 0, chunk |-> 0,
                            completed |-> FALSE]]
  /\ gws = [sched |-> "static", next |-> 0, end |-> 0, mode |-> FALSE]
  /\ mutex = [n \in Nodes |-> None]
  /\ csr = Cache
  /\ split = [i \in 0 .. Max(Nodes) + 1 |-> 0]
  /\ killed = 0
  /\ remaining = [n \in Nodes |-> ThreadsPerNode(n)]
  /\ gremaining = Cardinality(Nodes)
  /\ bar = [n \in Nodes |-> Fresh(ThreadsPerNode(n))]
  /\ gbar = Fresh(Cardinality(Nodes))
  /\ pc = [t \in Threads |-> "init"]
  /\ probing = [t \in Threads |-> FALSE]
  /\ loop = [t \in Threads |-> 1]
  /\ gen = [t \in Threads |-> 0]
  /\ start = [t \in Threads |-> 0]
  /\ batch = [t \in Threads |-> 0]
  /\ given = [l \in LoopIds |-> {}]
  /\ twice = [l \in LoopIds |-> {}]
  /\ flagged = [l \in LoopIds |-> 0]

Goto(t, label) == pc' = [pc EXCEPT ![t] = label]

-----------------------------------------------------------------------------
(* Shares of the nodes                                                     *)

\* calculate_splits: node n gets split[n] .. split[n+1] - 1 of the iterations
\* from next to end.  A node's share is added for the node after it.
CalculateSplits(entry, next, end) ==
  LET left == Float[end - next]
      Before(i) == MapThenSumSet(LAMBDA m : entry.rating[m] * ThreadsPerNode(m),
                                {m \in Nodes : m < i /\ m + 1 \in Nodes})
      From(i) ==
        IF i = 0 THEN next
        ELSE Float[Float[next] + Float[(Before(i) * left) \div entry.range]]
      Below(i) == Max({0} \cup {m \in Nodes : m <= i})
  IN  [i \in DOMAIN split |-> IF i > Max(Nodes) THEN end ELSE From(Below(i))]

\* init_workshare_from_splits, with calc_chunk_from_ratio.
FromSplits(n, entry, splits) ==
  [sched |-> "dynamic", next |-> splits[n], end |-> splits[n + 1],
   chunk |-> (entry.rating[n] * Float[entry.remaining] + entry.range - 1) \div entry.range,
   completed |-> FALSE]

-----------------------------------------------------------------------------
(* Starting a loop: the first thread of a node initialises its work share, *)
(* the first of those the global one.                                      *)

\* loop_init of a node's work share: a loop that is not static starts with an
\* empty one.  Once the switch is set a probing loop is static, and empty for
\* every node but the preferred one.
NodeShare(n, l) ==
  LET end == Loops[l].end
      switched == Sched(l) = "hetprobe" /\ Switched(l)
      sched == IF switched THEN "static" ELSE Sched(l)
  IN  [sched |-> sched,
       next |-> IF switched /\ n # Preferred THEN end + 1 ELSE 0,
       end |-> CASE sched # "static" -> 0
                 [] switched /\ n # Preferred -> end + 1
                 [] OTHER -> end,
       chunk |-> IF switched THEN 1 ELSE Loops[l].chunk, completed |-> FALSE]

InitNode(t) ==
  LET n == NodeOf[t]
      share == NodeShare(n, loop[t])
  IN  /\ pc[t] = "init" /\ wsLock[n] = "null"
      /\ wsLock' = [wsLock EXCEPT ![n] = "owned"]
      /\ ws' = [ws EXCEPT ![n] = share]
      /\ Goto(t, IF share.sched = "static" THEN "setnode" ELSE "initglobal")
      /\ UNCHANGED <<Loops, gwsLock, gws, mutex, rates, sync, probing, loop, start, progress>>

\* loop_init: is the next batch taken with an addition that cannot overflow?
Mode(n, l) ==
  LET nthreads == ThreadsPerNode(n)
      chunk == Loops[l].chunk
      half == 2^(LongBits \div 2 - 1)
  IN  /\ nthreads < half /\ chunk < half
      /\ Loops[l].end < LONG_MAX - (nthreads + 1) * chunk

InitGlobal(t) ==
  LET l == loop[t]
  IN  /\ pc[t] = "initglobal" /\ gwsLock = "null"
      /\ Sched(l) = "dynamic"
      /\ gwsLock' = "owned"
      /\ gws' = [sched |-> "dynamic", next |-> 0, end |-> Loops[l].end,
                 mode |-> Mode(NodeOf[t], l)]
      /\ Goto(t, "setglobal")
      /\ UNCHANGED <<Loops, wsLock, ws, mutex, rates, sync, probing, loop, start, progress>>

\* The same for a hetprobe loop: one seen often enough is split at once.
InitGlobalProbe(t) ==
  LET l == loop[t]
      end == Loops[l].end
      id == Loops[l].ident
      known == csr[id].seen /\ csr[id].trips >= MaxProbes
      entry == IF ~csr[id].seen THEN [csr[id] EXCEPT !.seen = TRUE]
               ELSE IF known THEN [csr[id] EXCEPT !.remaining = end]
               ELSE [csr[id] EXCEPT !.trips = @ + 1]
  IN  /\ pc[t] = "initglobal" /\ gwsLock = "null"
      /\ Sched(l) = "hetprobe"
      /\ gwsLock' = "owned"
      /\ gws' = [sched |-> IF known THEN "dynamic" ELSE "hetprobe",
                 next |-> IF known THEN end ELSE 0, end |-> end, mode |-> Mode(NodeOf[t], l)]
      /\ csr' = [csr EXCEPT ![id] = entry]
      /\ split' = IF known THEN CalculateSplits(entry, 0, end) ELSE split
      /\ Goto(t, "setglobal")
      /\ UNCHANGED <<Loops, wsLock, ws, mutex, killed, sync, probing, loop, start, progress>>

FoundGlobal(t) ==
  /\ pc[t] = "initglobal" /\ gwsLock = "set"
  /\ Goto(t, "setnode")
  /\ UNCHANGED <<Loops, shares, rates, sync, probing, loop, start, progress>>

SetGlobal(t) ==
  /\ pc[t] = "setglobal"
  /\ gwsLock' = "set"
  /\ Goto(t, "setnode")
  /\ UNCHANGED <<Loops, wsLock, ws, gws, mutex, rates, sync, probing, loop, start, progress>>

\* What __kmpc_dispatch_next does first for a work share of that schedule.
Begin(t, sched) ==
  Goto(t, CASE sched = "static" -> "static" [] sched = "dynamic" -> "next"
            [] sched = "hetprobe" -> "probe")

SetNode(t) ==
  LET n == NodeOf[t]
      id == Loops[loop[t]].ident
      share == IF ws[n].sched = "hetprobe" /\ gws.sched = "dynamic"
               THEN FromSplits(n, csr[id], split) ELSE ws[n]
  IN  /\ pc[t] = "setnode"
      /\ ws' = [ws EXCEPT ![n] = share]
      /\ wsLock' = [wsLock EXCEPT ![n] = "set"]
      /\ Begin(t, share.sched)
      /\ UNCHANGED <<Loops, gwsLock, gws, mutex, rates, sync, probing, loop, start, progress>>

FoundNode(t) ==
  /\ pc[t] = "init" /\ wsLock[NodeOf[t]] = "set"
  /\ Begin(t, ws[NodeOf[t]].sched)
  /\ UNCHANGED <<Loops, shares, rates, sync, probing, loop, start, progress>>

-----------------------------------------------------------------------------
(* Taking iterations                                                       *)

Give(l, from, to) ==
  LET b == from .. to - 1
  IN  /\ given' = [given EXCEPT ![l] = @ \cup b]
      /\ twice' = [twice EXCEPT ![l] = @ \cup (given[l] \cap b)]

\* gomp_iter_dynamic_next_locked_raw, when the work share w is not empty.
TakeFrom(t, w) ==
  LET n == NodeOf[t]
      left == Long(w.end - w.next)
      chunk == w.chunk
      end == Long(w.next + (IF chunk > left THEN left ELSE chunk))
  IN  /\ ws' = [ws EXCEPT ![n] = [w EXCEPT !.next = end]]
      /\ Give(loop[t], w.next, end)
      /\ batch' = [batch EXCEPT ![t] = end]
      /\ Goto(t, "last")

\* hierarchy_next_dynamic, the node has iterations left: under its lock.
NextLocal(t) ==
  LET n == NodeOf[t]
  IN  /\ pc[t] = "next" /\ mutex[n] = None
      /\ ws[n].next # ws[n].end
      /\ TakeFrom(t, ws[n])
      /\ UNCHANGED <<Loops, wsLock, gwsLock, gws, mutex, rates, sync, probing, loop, start, flagged>>

\* The node has none left and neither has the global work share.
NextExhausted(t) ==
  LET n == NodeOf[t]
  IN  /\ pc[t] = "next" /\ mutex[n] = None
      /\ ws[n].next = ws[n].end /\ ws[n].completed
      /\ Goto(t, "end")
      /\ UNCHANGED <<Loops, shares, rates, sync, probing, loop, start, progress>>

\* The node has none left: the thread turns to the global work share with
\* the lock held.
NextRefill(t) ==
  LET n == NodeOf[t]
  IN  /\ pc[t] = "next" /\ mutex[n] = None
      /\ ws[n].next = ws[n].end /\ ~ws[n].completed
      /\ mutex' = [mutex EXCEPT ![n] = t]
      /\ IF gws.mode
         THEN Goto(t, "add") /\ UNCHANGED start
         ELSE Goto(t, "cas") /\ start' = [start EXCEPT ![t] = gws.next]
      /\ UNCHANGED <<Loops, wsLock, gwsLock, ws, gws, rates, sync, probing, loop, progress>>

NodeChunk(t) == Long(ws[NodeOf[t]].chunk * ThreadsPerNode(NodeOf[t]))

\* gomp_iter_dynamic_next_raw returned a batch: the node's work share
\* becomes the batch, the thread takes its chunk of it and unlocks.
Refilled(t, from, to) ==
  /\ TakeFrom(t, [ws[NodeOf[t]] EXCEPT !.next = from, !.end = to])
  /\ mutex' = [mutex EXCEPT ![NodeOf[t]] = None]

\* Mutant of NothingLeft: returns with the lock held.
NothingLeftLocked(t) ==
  /\ ws' = [ws EXCEPT ![NodeOf[t]].completed = TRUE]
  /\ Goto(t, "end")
  /\ UNCHANGED <<mutex, batch, given, twice>>

\* It returned false.
NothingLeft(t) ==
  /\ ws' = [ws EXCEPT ![NodeOf[t]].completed = TRUE]
  /\ mutex' = [mutex EXCEPT ![NodeOf[t]] = None]
  /\ Goto(t, "end")
  /\ UNCHANGED <<batch, given, twice>>

\* ws->mode: one atomic addition.
AddNext(t) ==
  LET tmp == gws.next
      nend == Long(tmp + NodeChunk(t))
  IN  /\ pc[t] = "add"
      /\ gws' = [gws EXCEPT !.next = nend]
      /\ IF tmp >= gws.end
         THEN NothingLeft(t)
         ELSE Refilled(t, tmp, IF nend > gws.end THEN gws.end ELSE nend)
      /\ UNCHANGED <<Loops, wsLock, gwsLock, rates, sync, probing, loop, start, flagged>>

\* Mutant of CasNext: a plain store instead of compare-and-swap.
CasNextPlain(t) ==
  LET left == Long(gws.end - start[t])
      nend == Long(start[t] + (IF NodeChunk(t) > left THEN left ELSE NodeChunk(t)))
  IN  /\ pc[t] = "cas"
      /\ IF start[t] = gws.end
         THEN NothingLeft(t) /\ UNCHANGED <<gws, start>>
         ELSE Refilled(t, start[t], nend) /\ gws' = [gws EXCEPT !.next = nend] /\ UNCHANGED start
      /\ UNCHANGED <<Loops, wsLock, gwsLock, rates, sync, probing, loop, flagged>>

\* ~ws->mode: compare-and-swap, from the value read before.
CasNext(t) ==
  LET left == Long(gws.end - start[t])
      nend == Long(start[t] + (IF NodeChunk(t) > left THEN left ELSE NodeChunk(t)))
  IN  /\ pc[t] = "cas"
      /\ \/ /\ start[t] = gws.end
            /\ NothingLeft(t)
            /\ UNCHANGED <<gws, start>>
         \/ /\ start[t] # gws.end /\ gws.next = start[t]
            /\ gws' = [gws EXCEPT !.next = nend]
            /\ Refilled(t, start[t], nend)
            /\ UNCHANGED start
         \/ /\ start[t] # gws.end /\ gws.next # start[t]
            /\ start' = [start EXCEPT ![t] = gws.next]
            /\ UNCHANGED <<pc, gws, ws, mutex, batch, given, twice>>
      /\ UNCHANGED <<Loops, wsLock, gwsLock, rates, sync, probing, loop, flagged>>

\* Mutant of Last: the end of a batch is taken for inclusive.
LastInclusive(t) ==
  LET probe == ws[NodeOf[t]].sched = "hetprobe"
  IN  /\ pc[t] = "last"
      /\ flagged' = [flagged EXCEPT ![loop[t]] = IF batch[t] > gws.end THEN @ + 1 ELSE @]
      /\ probing' = [probing EXCEPT ![t] = probe]
      /\ Goto(t, IF probe THEN "end" ELSE "next")
      /\ UNCHANGED <<Loops, shares, rates, sync, loop, start, batch, given, twice>>

\* hierarchy_last, after the unlock; then the thread executes its batch.  When
\* it comes back from a probe it synchronises with the others.
Last(t) ==
  LET probe == ws[NodeOf[t]].sched = "hetprobe"
  IN  /\ pc[t] = "last"
      /\ flagged' = [flagged EXCEPT ![loop[t]] = IF batch[t] >= gws.end THEN @ + 1 ELSE @]
      /\ probing' = [probing EXCEPT ![t] = probe]
      /\ Goto(t, IF probe THEN "end" ELSE "next")
      /\ UNCHANGED <<Loops, shares, rates, sync, loop, start, batch, given, twice>>

\* hierarchy_next_hetprobe, the first call: the thread's probe.
Probe(t) ==
  LET w == ws[NodeOf[t]]
      from == Long(w.next + TeamId[t] * w.chunk)
      to == Long(from + w.chunk)
  IN  /\ pc[t] = "probe"
      /\ Give(loop[t], from, to)
      /\ batch' = [batch EXCEPT ![t] = to]
      /\ Goto(t, "last")
      /\ UNCHANGED <<Loops, shares, rates, sync, probing, loop, start, flagged>>

\* __kmpc_for_static_init: once the switch is set only the preferred node has
\* a rating.
StaticPart(l, t) ==
  IF Switched(l) THEN PreferredPart(Loops[l], t) ELSE Part(Loops[l], t)

\* __kmpc_dispatch_next of a static loop: the thread's part, the first time.
StaticNext(t) ==
  LET l == loop[t]
      mine == StaticPart(l, t)
  IN  /\ pc[t] = "static"
      /\ given' = [given EXCEPT ![l] = @ \cup mine]
      /\ twice' = [twice EXCEPT ![l] = @ \cup (given[l] \cap mine)]
      /\ Goto(t, "end")
      /\ UNCHANGED <<Loops, shares, rates, sync, probing, loop, start, batch, flagged>>

-----------------------------------------------------------------------------
(* The two-level synchronisation of hierarchy_loop_end and, when the thread  *)
(* is probing, of the second call of hierarchy_next_hetprobe.                *)

\* select_leader_synchronous: the last thread of the node leads.
SelectLeader(t) ==
  LET n == NodeOf[t]
  IN  /\ pc[t] = "end"
      /\ remaining' = [remaining EXCEPT ![n] = @ - 1]
      /\ Goto(t, IF remaining[n] = 1 THEN "leading" ELSE "bar")
      /\ UNCHANGED <<Loops, shares, rates, gremaining, bar, gbar, gen, probing, loop, start, progress>>

\* Mutant of FinishNode: a loop of any schedule ends like a static one (global = false).
FinishNodeLocal(t) ==
  LET n == NodeOf[t]
  IN  /\ pc[t] = "leading" /\ bar[n].awaited = 1
      /\ wsLock' = IF probing[t] THEN wsLock ELSE [wsLock EXCEPT ![n] = "null"]
      /\ Goto(t, IF probing[t] THEN "gend" ELSE "cleanup")
      /\ UNCHANGED <<Loops, gwsLock, ws, gws, mutex, rates, sync, probing, loop, start, progress>>

\* The rest of select_leader_synchronous, then the end of the node's work share
\* unless it is a probe that ends.
FinishNode(t) ==
  LET n == NodeOf[t]
  IN  /\ pc[t] = "leading" /\ bar[n].awaited = 1
      /\ wsLock' = IF probing[t] THEN wsLock ELSE [wsLock EXCEPT ![n] = "null"]
      /\ Goto(t, IF ws[n].sched # "static" THEN "gend" ELSE "cleanup")
      /\ UNCHANGED <<Loops, gwsLock, ws, gws, mutex, rates, sync, probing, loop, start, progress>>

SelectGlobalLeader(t) ==
  /\ pc[t] = "gend"
  /\ gremaining' = gremaining - 1
  /\ Goto(t, IF gremaining = 1 THEN "gleading" ELSE "gbar")
  /\ UNCHANGED <<Loops, shares, rates, remaining, bar, gbar, gen, probing, loop, start, progress>>

\* Mutant of FinishGlobal: the global work share is not re-armed.
FinishGlobalForgotten(t) ==
  /\ pc[t] = "gleading" /\ gbar.awaited = 1 /\ ~probing[t]
  /\ gremaining' = Cardinality(Nodes)
  /\ Goto(t, "gbar")
  /\ UNCHANGED <<Loops, shares, rates, remaining, bar, gbar, gen, probing, loop, start, progress>>

FinishGlobal(t) ==
  /\ pc[t] = "gleading" /\ gbar.awaited = 1 /\ ~probing[t]
  /\ gwsLock' = "null"
  /\ gremaining' = Cardinality(Nodes)
  /\ Goto(t, "gbar")
  /\ UNCHANGED <<Loops, wsLock, ws, gws, mutex, rates, remaining, bar, gbar, gen, probing, loop, start, progress>>

SetRatings(entry, rating) ==
  [entry EXCEPT !.rating = rating,
                !.range = MapThenSumSet(LAMBDA n : rating[n] * ThreadsPerNode(n), Nodes)]

\* The rating of each node after probes that took these times: relative to the
\* slowest, a quarter of it from earlier probes.
Rated(entry, times) ==
  LET slowest == Max({times[n] : n \in Nodes})
      New(n) == (RatingUnit * slowest) \div times[n]
  IN  SetRatings(entry, [n \in Nodes |-> IF entry.trips = 0 THEN New(n)
                                        ELSE (3 * New(n) + entry.rating[n]) \div 4])

\* All ratings to the preferred node.
OnlyPreferred(entry) ==
  SetRatings(entry, [n \in Nodes |-> IF n = Preferred THEN RatingUnit ELSE 0])

\* calc_het_probe_workshare, the global leader when all probes are over: it
\* splits what the probes left.  In the prime region it may set the switch,
\* when a page fault was too short or too rare to tell.
Rate(t) ==
  LET id == Loops[loop[t]].ident
      next == Long(gws.next + Loops[loop[t]].chunk * Cardinality(Threads))
      Share(entry) ==
        /\ csr' = [csr EXCEPT ![id] = [entry EXCEPT !.remaining = gws.end - next]]
        /\ split' = CalculateSplits(entry, next, gws.end)
  IN  /\ pc[t] = "gleading" /\ gbar.awaited = 1 /\ probing[t]
      /\ \/ /\ \E entry \in {Rated(csr[id], times) : times \in [Nodes -> ProbeTimes]} :
                 Share(entry)
            /\ UNCHANGED killed
         \/ /\ id = PrimeRegion /\ csr[id].trips >= MaxProbes
            /\ Share(OnlyPreferred(csr[id]))
            /\ killed' = loop[t]
      /\ gws' = [gws EXCEPT !.next = gws.end]
      /\ gremaining' = Cardinality(Nodes)
      /\ Goto(t, "gbar")
      /\ UNCHANGED <<Loops, wsLock, gwsLock, ws, mutex, remaining, bar, gbar, gen, probing,
                    loop, start, progress>>

\* The state of barrier b after one more arrival; the last one releases it.
Arrived(b, count) ==
  IF b.awaited = 1 THEN [awaited |-> count, generation |-> b.generation + 1]
  ELSE [b EXCEPT !.awaited = @ - 1]

GlobalBarrier(t) ==
  /\ pc[t] = "gbar"
  /\ gbar' = Arrived(gbar, Cardinality(Nodes))
  /\ gen' = [gen EXCEPT ![t] = gbar.generation]
  /\ Goto(t, "gwait")
  /\ UNCHANGED <<Loops, shares, rates, remaining, gremaining, bar, probing, loop, start, progress>>

GlobalReleased(t) ==
  /\ pc[t] = "gwait" /\ gbar.generation = gen[t] + 1 /\ ~probing[t]
  /\ Goto(t, "cleanup")
  /\ UNCHANGED <<Loops, shares, rates, sync, probing, loop, start, progress>>

\* After a probe the leader of the node takes the node's split.
TakeSplit(t) ==
  LET n == NodeOf[t]
  IN  /\ pc[t] = "gwait" /\ gbar.generation = gen[t] + 1 /\ probing[t]
      /\ ws' = [ws EXCEPT ![n] = FromSplits(n, csr[Loops[loop[t]].ident], split)]
      /\ Goto(t, "cleanup")
      /\ UNCHANGED <<Loops, wsLock, gwsLock, gws, mutex, rates, sync, probing, loop, start,
                    progress>>

Cleanup(t) ==
  LET n == NodeOf[t]
  IN  /\ pc[t] = "cleanup"
      /\ remaining' = [remaining EXCEPT ![n] = ThreadsPerNode(n)]
      /\ Goto(t, "bar")
      /\ UNCHANGED <<Loops, shares, rates, gremaining, bar, gbar, gen, probing, loop, start, progress>>

NodeBarrier(t) ==
  LET n == NodeOf[t]
  IN  /\ pc[t] = "bar"
      /\ bar' = [bar EXCEPT ![n] = Arrived(@, ThreadsPerNode(n))]
      /\ gen' = [gen EXCEPT ![t] = bar[n].generation]
      /\ Goto(t, "wait")
      /\ UNCHANGED <<Loops, shares, rates, remaining, gremaining, gbar, probing, loop, start, progress>>

\* On to the rest of the loop after a probe, else to the next loop.
NodeReleased(t) ==
  /\ pc[t] = "wait" /\ bar[NodeOf[t]].generation = gen[t] + 1
  /\ probing' = [probing EXCEPT ![t] = FALSE]
  /\ IF probing[t] THEN Goto(t, "next") /\ UNCHANGED loop
     ELSE IF loop[t] < Len(Loops)
     THEN loop' = [loop EXCEPT ![t] = @ + 1] /\ Goto(t, "init")
     ELSE Goto(t, "done") /\ UNCHANGED loop
  /\ UNCHANGED <<Loops, shares, rates, sync, start, progress>>

-----------------------------------------------------------------------------
ThreadStep(t) ==
  \/ InitNode(t) \/ InitGlobal(t) \/ InitGlobalProbe(t) \/ FoundGlobal(t) \/ SetGlobal(t)
  \/ SetNode(t) \/ FoundNode(t)
  \/ NextLocal(t) \/ NextExhausted(t) \/ NextRefill(t) \/ AddNext(t) \/ CasNext(t)
  \/ Last(t) \/ Probe(t) \/ StaticNext(t)
  \/ SelectLeader(t) \/ FinishNode(t) \/ SelectGlobalLeader(t) \/ FinishGlobal(t)
  \/ Rate(t) \/ TakeSplit(t) \/ GlobalBarrier(t) \/ GlobalReleased(t) \/ Cleanup(t) \/ NodeBarrier(t)
  \/ NodeReleased(t)

Done == (\A t \in Threads : pc[t] = "done") /\ UNCHANGED vars

Next == Done \/ \E t \in Threads : ThreadStep(t)

Spec == Init /\ [][Next]_vars

\* Every thread of the team is scheduled.
FairSpec == Spec /\ \A t \in Threads : WF_vars(ThreadStep(t))

-----------------------------------------------------------------------------
(* Properties                                                              *)

Longs == -(2^(LongBits - 1)) .. LONG_MAX
LockStates == {"null", "owned", "set"}

Scheds == {"static", "dynamic", "hetprobe"}

TypeOK ==
  /\ Loops \in Regions
  /\ wsLock \in [Nodes -> LockStates] /\ gwsLock \in LockStates
  /\ ws \in [Nodes -> [sched : Scheds, next : Longs, end : Longs, chunk : Longs,
                       completed : BOOLEAN]]
  /\ gws \in [sched : Scheds, next : Longs, end : Longs, mode : BOOLEAN]
  /\ mutex \in [Nodes -> Threads \cup {None}]
  /\ killed \in {0} \cup LoopIds
  /\ \A n \in Nodes : /\ remaining[n] \in 0 .. ThreadsPerNode(n)
                      /\ bar[n].awaited \in 1 .. ThreadsPerNode(n)
  /\ gremaining \in 0 .. Cardinality(Nodes)
  /\ gbar.awaited \in 1 .. Cardinality(Nodes)
  /\ loop \in [Threads -> LoopIds]

\* No iteration of a loop is given to two threads or twice to one, and none
\* that the loop does not have: batches of a node, refills of two nodes, the
\* overshoot of the global counter, probes and the splits of the nodes never
\* overlap.
EachIterationOnce ==
  \A l \in LoopIds : given[l] \subseteq Iterations(l) /\ twice[l] = {}

Left(t, l) == loop[t] > l \/ pc[t] = "done"

\* Loop l is shared out through the global work share.
IsShared(l) == Sched(l) = "dynamic" \/ (Sched(l) = "hetprobe" /\ ~Switched(l))

\* A dynamic or probing loop ends for no thread before every iteration was
\* given to a thread, on whichever node; a static loop (hierarchy_loop_end with
\* global = false) holds back the threads of the node only.
LoopComplete ==
  \A l \in LoopIds, t \in Threads :
    Left(t, l) =>
      IF IsShared(l) THEN given[l] = Iterations(l)
      ELSE \A u \in ThreadsOf(NodeOf[t]) : StaticPart(l, u) \subseteq given[l]

\* A dynamic or probing loop tells exactly one thread that it has the last
\* iteration: hierarchy_last reads the global work share after the lock was
\* released and still reads the one of this loop.
OneLastBatch ==
  \A l \in LoopIds : IsShared(l) =>
    /\ flagged[l] <= 1
    /\ (\E t \in Threads : Left(t, l)) => flagged[l] = 1

InUse(t) == pc[t] \in {"next", "add", "cas", "last", "probe", "static", "setnode"}

\* A work share is not finalised under a thread that still takes iterations
\* from it, and no thread works with one left over from another loop: the
\* threads of a node (of all nodes, for a shared loop) that work in a loop
\* find it initialised for the same loop.
InitialisedInUse ==
  \A t \in Threads : InUse(t) =>
    /\ pc[t] # "setnode" => wsLock[NodeOf[t]] = "set"
    /\ IsShared(loop[t]) => gwsLock = "set" /\ gws.end = Loops[loop[t]].end

\* Every thread gets through every loop.
EveryoneFinishes == <>(\A t \in Threads : pc[t] = "done")
=============================================================================
