------------------------- MODULE MCStaticPartition -------------------------
(***************************************************************************)
(* Jobs on two nodes.  Origin and remote have one or two places; loops   *)
(* have 1 to 13 iterations, fewer and more than there are shares.          *)
(***************************************************************************)
EXTENDS StaticPartition

MCNodes == {0, 1}
Whole(places) == places[0] + places[1]

Job(places, rating, het, n, ub, sched, chunk, dispatch) ==
  [places |-> places, rating |-> rating, het |-> het, nthreads |-> n,
   lb |-> 2, ub |-> ub, sched |-> sched, chunk |-> chunk, dispatch |-> dispatch]

Ones == [n \in MCNodes |-> 1]

\* The uniform partition, any team size.
UniformJobs ==
  {Job(Ones, Ones, FALSE, n, ub, s, c, FALSE) :
     n \in 1 .. 4, ub \in 2 .. 14, s \in Schedules, c \in 0 .. 3}

\* Skewed: a team of one thread per place, a node rated 0 included.
SkewedJobs ==
  {Job(p, r, TRUE, Whole(p), ub, s, c, FALSE) :
     p \in [MCNodes -> 1 .. 2], r \in [MCNodes -> 0 .. 3] \ {[m \in MCNodes |-> 0]},
     ub \in 2 .. 14, s \in Schedules, c \in {1, 2}}

\* The same by schedule(runtime), OMP_SCHEDULE=static without a chunk.
RuntimeJobs ==
  {Job(Ones, r, h, 2, ub, "static", 0, TRUE) :
     r \in [MCNodes -> 1 .. 2], h \in BOOLEAN, ub \in 2 .. 14}

WorkingJobs == UniformJobs \cup SkewedJobs \cup RuntimeJobs

\* OMP_SCHEDULE=static,c with c > 1.
RuntimeChunkedJobs ==
  {Job(Ones, Ones, FALSE, 2, ub, "chunked", 2, TRUE) : ub \in 2 .. 14}

\* A parallel region with fewer threads than there are places.
SmallTeamJobs ==
  {Job([m \in MCNodes |-> 2], Ones, TRUE, n, ub, "static", 0, FALSE) :
     n \in 2 .. 4, ub \in 2 .. 14}
=============================================================================
