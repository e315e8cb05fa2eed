-------------------------- MODULE StaticPartition --------------------------
(***************************************************************************)
(* How the KMP layer of lib/libopenpop (kmp.c) divides a statically        *)
(* scheduled loop among the threads of a team: __kmpc_for_static_init, its *)
(* skewed form for nodes of different speed, and __kmpc_dispatch_next when *)
(* the schedule comes from OMP_SCHEDULE.  Loops have increment 1: clang    *)
(* normalises them before it calls the runtime.                            *)
(*                                                                         *)
(* `job` is the loop and the configuration the process started with; every *)
(* thread computes its part of the loop on its own, from the same job.     *)
(***************************************************************************)
EXTENDS Integers, FiniteSets, FiniteSetsExt

CONSTANTS
  Nodes,   \* node identifiers, 0 .. MAX_POPCORN_NODES - 1
  Jobs     \* bound: the jobs considered

Schedules == {"static", "chunked"}

ASSUME JobsAssumption ==
  /\ Nodes \in SUBSET Nat /\ IsFiniteSet(Nodes) /\ 0 \in Nodes
  /\ Jobs \subseteq
       [places : [Nodes -> Nat],    \* popcorn_global.node_places
        rating : [Nodes -> Nat],    \* popcorn_global.core_speed_rating
        het : BOOLEAN,              \* popcorn_global.het_workshare
        nthreads : Nat \ {0},       \* size of the team
        lb : Int, ub : Int,         \* the loop runs from lb to ub, ub included
        sched : Schedules, chunk : Nat,
        dispatch : BOOLEAN]         \* schedule(runtime): kmpc_dispatch_next
  /\ \A j \in Jobs : j.lb <= j.ub

VARIABLES
  job,     \* the loop and its configuration
  part     \* part[t]: what thread t computed, for the threads that have

vars == <<job, part>>

Least(a, b) == IF a < b THEN a ELSE b

Team == 0 .. job.nthreads - 1
Trips == job.ub - job.lb + 1

PlacesUpTo(n) == MapThenSumSet(LAMBDA m : job.places[m], {m \in Nodes : m <= n})

\* hierarchy_assign_node: fill the places in node order, then the origin.
AssignNode(t) ==
  LET fits == {n \in Nodes : t < PlacesUpTo(n)}
  IN  IF fits = {} THEN 0 ELSE CHOOSE n \in fits : \A m \in fits : n <= m

ThreadsPerNode(n) == Cardinality({t \in Team : AssignNode(t) = n})

-----------------------------------------------------------------------------
(* The skewed partition                                                    *)

\* popcorn_affinity_init_node_ratings: one share per place and rating.
ScaledThreadRange ==
  MapThenSumSet(LAMBDA n : job.places[n] * job.rating[n], Nodes)

ThreadsBefore(n) == MapThenSumSet(ThreadsPerNode, {m \in Nodes : m < n})

\* get_scaled_range: the shares of thread t start after those of the threads
\* numbered below it.
ScaledRange(t) ==
  LET n == CHOOSE m \in Nodes :
             ThreadsBefore(m) <= t /\ t < ThreadsBefore(m) + ThreadsPerNode(m)
  IN  [start |-> MapThenSumSet(LAMBDA m : ThreadsPerNode(m) * job.rating[m],
                               {m \in Nodes : m < n})
                 + (t - ThreadsBefore(n)) * job.rating[n],
       range |-> job.rating[n]]

Nothing == [lower |-> job.ub + 1, upper |-> job.ub, stride |-> 1, last |-> FALSE]

\* Fewer iterations than shares: one each.
SkewedShort(s, r) ==
  LET lower == job.lb + s
  IN  IF s < Trips
      THEN [lower |-> lower, upper |-> lower + Least(r - 1, Trips - 1 - s),
            stride |-> 1, last |-> s + r >= Trips - 1]
      ELSE [Nothing EXCEPT !.last = s + r >= Trips - 1]

\* Mutant of SkewedLong: a thread gets all of the extras or none.
SkewedLongExtras(t, s, r) ==
  LET c == Trips \div ScaledThreadRange
      extras == Trips % ScaledThreadRange
      mine == IF s < extras THEN r ELSE 0
      lower == job.lb + s * c + Least(s, extras)
  IN  [lower |-> lower, upper |-> lower + c * r + mine - 1,
       stride |-> 1, last |-> t = job.nthreads - 1]

\* Every share is c iterations, the first `extras` shares one more.
SkewedLong(t, s, r) ==
  LET c == Trips \div ScaledThreadRange
      extras == Trips % ScaledThreadRange
      mine == IF s < extras THEN Least(r, extras - s) ELSE 0
      lower == job.lb + s * c + Least(s, extras)
  IN  [lower |-> lower, upper |-> lower + c * r + mine - 1,
       stride |-> 1, last |-> t = job.nthreads - 1]

SkewedChunked(s, r, c) ==
  LET lower == job.lb + c * s
  IN  [lower |-> lower, upper |-> lower + c * r - 1,
       stride |-> c * ScaledThreadRange,
       last |-> s = ((Trips - 1) \div c) % ScaledThreadRange]

\* for_static_skewed_init
Skewed(t, sched, c) ==
  LET s == ScaledRange(t).start
      r == ScaledRange(t).range
  IN  IF r = 0 THEN Nothing
      ELSE IF sched = "chunked" THEN SkewedChunked(s, r, c)
      ELSE IF Trips < ScaledThreadRange THEN SkewedShort(s, r)
      ELSE SkewedLong(t, s, r)

-----------------------------------------------------------------------------
(* The uniform partition                                                   *)

UniformShort(t) ==
  LET i == job.lb + t
  IN  IF t < Trips
      THEN [lower |-> i, upper |-> i, stride |-> 1, last |-> t = Trips - 1]
      ELSE Nothing

UniformLong(t) ==
  LET c == Trips \div job.nthreads
      extras == Trips % job.nthreads
      lower == job.lb + t * c + Least(t, extras)
  IN  [lower |-> lower, upper |-> lower + c - (IF t < extras THEN 0 ELSE 1),
       stride |-> 1, last |-> t = job.nthreads - 1]

\* Mutant of UniformChunked: the thread with the last chunk is off by one.
UniformChunkedLast(t, c) ==
  [lower |-> job.lb + c * t, upper |-> job.lb + c * t + c - 1,
   stride |-> c * job.nthreads,
   last |-> t = (Trips \div c) % job.nthreads]

UniformChunked(t, c) ==
  [lower |-> job.lb + c * t, upper |-> job.lb + c * t + c - 1,
   stride |-> c * job.nthreads,
   last |-> t = ((Trips - 1) \div c) % job.nthreads]

Uniform(t, sched, c) ==
  IF sched = "chunked" THEN UniformChunked(t, c)
  ELSE IF Trips < job.nthreads THEN UniformShort(t)
  ELSE UniformLong(t)

-----------------------------------------------------------------------------
Init == job \in Jobs /\ part = [t \in {} |-> Nothing]

\* __kmpc_for_static_init, called by the compiled loop or, with the schedule
\* that the chunk size implies, by __kmpc_dispatch_next.
ForStaticInit(t) ==
  LET sched == IF ~job.dispatch THEN job.sched
               ELSE IF job.chunk > 1 THEN "chunked" ELSE "static"
      c == IF job.chunk < 1 THEN 1 ELSE job.chunk
      mine == IF job.het THEN Skewed(t, sched, c) ELSE Uniform(t, sched, c)
  IN  /\ t \notin DOMAIN part
      /\ part' = [u \in DOMAIN part \cup {t} |-> IF u = t THEN mine ELSE part[u]]
      /\ UNCHANGED job

Done == DOMAIN part = Team /\ UNCHANGED vars

Next == Done \/ \E t \in Team : ForStaticInit(t)

Spec == Init /\ [][Next]_vars

-----------------------------------------------------------------------------
(* Properties                                                              *)

\* The loop that clang compiles around __kmpc_for_static_init cuts a block at
\* the end of the loop and strides from one to the next; the one around
\* __kmpc_dispatch_next runs the one block it is given.
Executes(t) ==
  LET p == part[t]
      sched == job.sched
      strides == IF sched = "chunked" THEN 0 .. Trips ELSE {0}
      Block(k) == p.lower + k * p.stride .. Least(p.upper + k * p.stride, job.ub)
  IN  IF job.dispatch THEN p.lower .. p.upper
      ELSE UNION {Block(k) : k \in strides}

\* The threads, each computing its own part, execute every iteration of the
\* loop exactly once and nothing else.
EachIterationOnce ==
  DOMAIN part = Team =>
    /\ UNION {Executes(t) : t \in Team} = job.lb .. job.ub
    /\ \A t, u \in Team : t # u => Executes(t) \cap Executes(u) = {}

\* kmp.c:203, "pointer to the "last iteration" flag": the uniform partition
\* tells exactly the thread that executes the last iteration (it copies
\* lastprivate variables out), in blocks, in chunks and in short loops.
LastIterationFlag ==
  ~job.het => \A t \in DOMAIN part : part[t].last <=> job.ub \in Executes(t)
=============================================================================
