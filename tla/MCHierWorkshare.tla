-------------------------- MODULE MCHierWorkshare --------------------------
(***************************************************************************)
(* Two threads on one node and one on the other.  A long has 8 bits (mode  *)
(* is true for chunks below 8 and loops well below 127).                   *)
(***************************************************************************)
EXTENDS HierWorkshare, TLC

CONSTANTS t0, t1, t2

Number == (t0 :> 0 @@ t1 :> 1 @@ t2 :> 2)
Numbers == [t \in Threads |-> Number[t]]
Placement == (t0 :> 0 @@ t1 :> 0 @@ t2 :> 1)
PlacementOf == [t \in Threads |-> Placement[t]]

Loop(sched, end, chunk) == [sched |-> sched, end |-> end, chunk |-> chunk, ident |-> "a"]
Static3 == Loop("static", 3, 1)

\* Chunks of one, where the global counter is advanced by atomic additions; a
\* static loop; chunks of eight, where it is advanced by compare-and-swap.
MixedLoops == <<Loop("dynamic", 4, 1), Static3, Loop("dynamic", 20, 8)>>
\* A region that is probed twice (with MaxProbes = 1), then split by the cached
\* ratings, or moved to one node; then a static loop.
ProbedLoops ==
  <<Loop("hetprobe", 13, 1), Loop("hetprobe", 14, 1), Loop("hetprobe", 13, 1), Static3>>
MixedAndProbed == {MixedLoops, ProbedLoops}

\* For two observations of the README: a loop that ends just where mode is still
\* true for a node of one thread, with LongBits = 6, and a single probing loop.
LongLoops == {<<Loop("dynamic", 26, 2)>>}
OneProbed == {<<Loop("hetprobe", 13, 1)>>}

\* The static part of each thread, as module StaticPartition computes it for
\* the loop and a team of the same placement.
StaticJob(l, het) ==
  [places |-> [n \in Nodes |-> ThreadsPerNode(n)],
   rating |-> [n \in Nodes |-> IF n = Preferred THEN 1 ELSE 0],
   het |-> het, nthreads |-> Cardinality(Threads), lb |-> 0, ub |-> l.end - 1,
   sched |-> "static", chunk |-> 0, dispatch |-> TRUE]
Static(l, het) == INSTANCE StaticPartition WITH
  Jobs <- {StaticJob(l, het)}, job <- StaticJob(l, het), part <- <<>>
Parts(l, t) == LET p == Static(l, FALSE)!Uniform(Number[t], "static", 1) IN p.lower .. p.upper
PreferredParts(l, t) ==
  LET p == Static(l, TRUE)!Skewed(Number[t], "static", 1) IN p.lower .. p.upper
\* Computed once for every loop.
LoopsUsed ==
  UNION {{region[i] : i \in DOMAIN region} : region \in MixedAndProbed \cup LongLoops \cup OneProbed}
PartTable == [l \in LoopsUsed |-> [t \in Threads |-> Parts(l, t)]]
PreferredTable == [l \in LoopsUsed |-> [t \in Threads |-> PreferredParts(l, t)]]
PartOf(l, t) == PartTable[l][t]
PreferredPartOf(l, t) == PreferredTable[l][t]

\* No region was seen before.
Unseen == [seen |-> FALSE, trips |-> 0, rating |-> [n \in Nodes |-> 0], range |-> 0,
           remaining |-> 0]
EmptyCache == [id \in {"a"} |-> Unseen]

\* What a team of one thread per node left, for another observation.
SmallTeamCache ==
  [id \in {"a"} |-> [seen |-> TRUE, trips |-> MaxProbes, rating |-> [n \in Nodes |-> 8 \div (n + 1)],
                     range |-> 12, remaining |-> 0]]
=============================================================================
