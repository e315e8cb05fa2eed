------------------------- MODULE HierReduceProofs --------------------------
(***************************************************************************)
(* Proofs about the blocking reduction of HierReduce for every team,       *)
(* placement, number of entries and number of reductions: the inductive    *)
(* invariant IInv and the safety properties it implies.                    *)
(***************************************************************************)
EXTENDS HierReduce, FiniteSetTheorems, WellFoundedInduction, TLAPS

-----------------------------------------------------------------------------
(* The inductive invariant.  r is the reduction the foremost threads are   *)
(* in; the others wait to be let out of the barrier of the one before.     *)

PCs == {"enter", "gather", "post", "select", "ggather", "gpost", "gcleanup", "cleanup",
        "cleanupFinal", "finish", "return"}

VarTypes ==
  /\ remaining \in [Nodes -> Nat] /\ gremaining \in Nat
  /\ entry \in [Nodes -> [Slots -> Pointers \cup {Null}]]
  /\ gentry \in [Nodes -> Pointers \cup {Null}]
  /\ pc \in [Threads -> PCs]
  /\ red \in [Threads -> Reductions] /\ ticket \in [Threads -> Slots]
  /\ reduced \in [Threads -> Nat]

\* What a leader has left to scan, and the domains of the bags.
ScanTypes ==
  /\ DOMAIN seen = Threads
  /\ \A t \in Threads : pc[t] = "gather" => seen[t] \subseteq Slots
  /\ \A t \in Threads : pc[t] = "select" => seen[t] = {}
  /\ \A t \in Threads : pc[t] = "ggather" => seen[t] \subseteq Nodes
BagTypes ==
  /\ DOMAIN payload = Threads /\ \A t \in Threads : DOMAIN payload[t] = Reductions
  /\ DOMAIN result = Reductions

Types == VarTypes /\ ScanTypes /\ BagTypes

\* The contributions to reduction r of a set of threads.
BagOf(S, r) == SetToBag(S \X {r})

\* The threads that a leader has combined, and the nodes that a global leader
\* has.
Combined(t, r) == {u \in Threads : <<u, r>> \in DOMAIN payload[t][r]}
Merged(t, r) == {m \in Nodes : ThreadsOf(m) \subseteq Combined(t, r)}

Out(t, r) == red[t] # r \/ pc[t] = "enter"
Posted(t, r) == red[t] = r /\ pc[t] = "return"

\* A leader until it has re-armed its node, and the global leader until it has
\* finished the reduction.
Leads(t) ==
  pc[t] \in {"gather", "select", "gpost", "ggather", "gcleanup", "cleanup", "cleanupFinal"}
LeadsAll(t) == pc[t] \in {"ggather", "gcleanup", "cleanupFinal", "finish"}

\* All of a node are through; the node's leader has taken part in the
\* selection of the global leader; it has posted.
NodeDone(n, r) == \A t \in ThreadsOf(n) : red[t] = r /\ pc[t] \in {"return", "finish"}
NodePassed(n, r) ==
  NodeDone(n, r) \/ \E t \in ThreadsOf(n) : Leads(t) /\ pc[t] \notin {"gather", "select"}
NodePosted(n, r) == NodeDone(n, r) \/ \E t \in ThreadsOf(n) : pc[t] = "cleanup"

OutOf(n, r) == {t \in ThreadsOf(n) : Out(t, r)}
NotPassed(r) == {n \in Nodes : ~NodePassed(n, r)}

InRound(r) ==
  \A t \in Threads : red[t] = r \/ (red[t] = r - 1 /\ pc[t] = "return")

OneLeader == \A n \in Nodes : \A t, u \in ThreadsOf(n) : Leads(t) /\ Leads(u) => t = u

OneGlobalLeader == \A t, u \in Threads : LeadsAll(t) /\ LeadsAll(u) => t = u

\* A node whose selection is open has a leader.
NodeStage(r) ==
  \A n \in Nodes : \/ \A t \in ThreadsOf(n) : Out(t, r)
                   \/ NodeDone(n, r)
                   \/ \E t \in ThreadsOf(n) : Leads(t)

Finishing(r) == \A t \in Threads : pc[t] = "finish" => NodeDone(NodeOf[t], r)

\* From the first selection of a global leader to the end of the round there is
\* one, or the reduction has its result.
GlobalStage(r) ==
  /\ (\E n \in Nodes : NodePassed(n, r)) =>
       result[r] # EmptyBag \/ \E t \in Threads : LeadsAll(t)
  /\ result[r] # EmptyBag =>
       (\A t \in Threads : ~LeadsAll(t)) /\ \A n \in Nodes : NodePosted(n, r)

\* Both counters count the ones that have not taken part in the selection.
NodeCount(r) ==
  \A n \in Nodes :
    remaining[n] = IF NodeDone(n, r) THEN Size(n) ELSE Cardinality(OutOf(n, r))

Rearmed(r) == result[r] # EmptyBag \/ \E t \in Threads : pc[t] \in {"cleanupFinal", "finish"}

GlobalCount(r) ==
  gremaining = IF Rearmed(r) THEN Cardinality(Nodes) ELSE Cardinality(NotPassed(r))

\* A node's entries hold the uncombined payloads of different threads of the
\* node that have posted, and its leader is gathering.
EntryHolds(r) ==
  \A n \in Nodes, i \in Slots : entry[n][i] # Null =>
    /\ \E u \in ThreadsOf(n) : entry[n][i] = <<u, r>> /\ Posted(u, r)
                               /\ payload[u][r] = BagOf({u}, r)
    /\ \A j \in Slots : entry[n][j] = entry[n][i] => j = i
    /\ \E t \in ThreadsOf(n) : pc[t] = "gather" /\ entry[n][i][1] \notin Combined(t, r)

\* A leader past its node's entries has left nobody behind.
OthersPosted(r) ==
  \A t \in Threads : Leads(t) /\ pc[t] # "gather" =>
    \A u \in ThreadsOf(NodeOf[t]) \ {t} : Posted(u, r)

\* A global entry holds the payload of a node that the global leader, which is
\* still gathering, has not merged.
GlobalEntryHolds(r) ==
  \A n \in Nodes : gentry[n] # Null =>
    /\ \E u \in ThreadsOf(n) : gentry[n] = <<u, r>> /\ red[u] = r
                               /\ pc[u] \in {"cleanup", "return"}
                               /\ payload[u][r] = BagOf(ThreadsOf(n), r)
    /\ NodePosted(n, r)
    /\ result[r] = EmptyBag
    /\ \A t \in Threads : LeadsAll(t) => pc[t] = "ggather" /\ n \notin Merged(t, r)

MergedPosted(r) ==
  \A t \in Threads : LeadsAll(t) => \A m \in Merged(t, r) \ {NodeOf[t]} : NodePosted(m, r)

\* Until it posts or leads a thread's payload is its own contribution.
Fresh(r) ==
  \A t \in Threads, q \in Reductions :
    q > r \/ (q = r /\ (Out(t, r) \/ pc[t] = "post")) => payload[t][q] = BagOf({t}, q)

GatherPayload(r) ==
  \A t \in Threads : pc[t] = "gather" =>
    /\ payload[t][r] = BagOf(Combined(t, r), r)
    /\ t \in Combined(t, r)
    /\ \A u \in Combined(t, r) \ {t} : u \in ThreadsOf(NodeOf[t]) /\ Posted(u, r)
    /\ reduced[t] = Cardinality(Combined(t, r))

NodePayload(r) ==
  \A t \in Threads : pc[t] \in {"select", "gpost"} =>
    payload[t][r] = BagOf(ThreadsOf(NodeOf[t]), r)

\* A global leader combines whole nodes.
GlobalPayload(r) ==
  \A t \in Threads : LeadsAll(t) =>
    /\ payload[t][r] = BagOf(Combined(t, r), r)
    /\ \A u \in Combined(t, r) : ThreadsOf(NodeOf[u]) \subseteq Combined(t, r)
    /\ t \in Combined(t, r)
    /\ pc[t] = "ggather" => reduced[t] = Cardinality(Merged(t, r))
    /\ pc[t] # "ggather" => Combined(t, r) = Threads

Results(r) ==
  \A q \in Reductions :
    /\ q < r => result[q] = BagOf(Threads, q)
    /\ q > r => result[q] = EmptyBag
    /\ q = r => result[q] \in {EmptyBag, BagOf(Threads, q)}

LeaderInv(r) ==
  OneLeader /\ OneGlobalLeader /\ NodeStage(r) /\ Finishing(r) /\ GlobalStage(r)
CountInv(r) == NodeCount(r) /\ GlobalCount(r)
EntryInv(r) == EntryHolds(r) /\ OthersPosted(r) /\ GlobalEntryHolds(r) /\ MergedPosted(r)
PayloadInv(r) ==
  Fresh(r) /\ GatherPayload(r) /\ NodePayload(r) /\ GlobalPayload(r) /\ Results(r)

Round(r) == InRound(r) /\ LeaderInv(r) /\ CountInv(r) /\ EntryInv(r) /\ PayloadInv(r)

IInv == Types /\ \E r \in Reductions : Round(r)

-----------------------------------------------------------------------------
(* Bags and sets                                                           *)

\* Contributions of different threads add up without a duplicate.
LEMMA AddBags ==
  ASSUME NEW S, NEW T, NEW r, S \cap T = {}
  PROVE  BagOf(S, r) (+) BagOf(T, r) = BagOf(S \cup T, r)
<1> DEFINE A == BagOf(S, r)
           B == BagOf(T, r)
<1>1. /\ DOMAIN A = S \X {r} /\ DOMAIN B = T \X {r}
      /\ \A e \in S \X {r} : A[e] = 1
      /\ \A e \in T \X {r} : B[e] = 1
  BY DEF BagOf, SetToBag
<1>2. /\ (S \cup T) \X {r} = (S \X {r}) \cup (T \X {r})
      /\ (S \X {r}) \cap (T \X {r}) = {}
  OBVIOUS
<1> HIDE DEF A, B
<1>3. A (+) B = [e \in (S \cup T) \X {r} |-> 1]
  BY <1>1, <1>2 DEF (+)
<1>4. QED
  BY <1>3 DEF BagOf, SetToBag, A, B

\* A bag of contributions tells whose they are.
LEMMA BagDomain ==
  ASSUME NEW S, NEW r
  PROVE  /\ DOMAIN BagOf(S, r) = S \X {r}
         /\ S # {} => BagOf(S, r) # EmptyBag
<1>1. DOMAIN BagOf(S, r) = S \X {r}
  BY DEF BagOf, SetToBag
<1>2. DOMAIN EmptyBag = {}
  BY DEF EmptyBag, SetToBag
<1>3. S # {} => S \X {r} # {}
  <2>1. SUFFICES ASSUME NEW u \in S PROVE S \X {r} # {}
    OBVIOUS
  <2>2. <<u, r>> \in S \X {r}
    BY <2>1
  <2>3. QED
    BY <2>2
<1>4. QED
  BY <1>1, <1>2, <1>3

LEMMA AddToEmpty ==
  ASSUME NEW S, NEW r
  PROVE  EmptyBag (+) BagOf(S, r) = BagOf(S, r)
<1>1. /\ EmptyBag = BagOf({}, r)
      /\ {} \cup S = S
  BY DEF BagOf, SetToBag, EmptyBag
<1>2. QED
  BY <1>1, AddBags

LEMMA CombinedIs ==
  ASSUME NEW S \in SUBSET Threads, NEW t, NEW r, payload[t][r] = BagOf(S, r)
  PROVE  Combined(t, r) = S
<1>1. DOMAIN payload[t][r] = S \X {r}
  BY BagDomain
<1>2. \A u : <<u, r>> \in S \X {r} <=> u \in S
  OBVIOUS
<1>3. Combined(t, r) = {u \in Threads : u \in S}
  BY <1>1, <1>2 DEF Combined
<1>4. QED
  BY <1>3

\* A set of entries has a least one: the entry scanned next.
LEMMA LeastExists ==
  ASSUME NEW S \in SUBSET Slots, S # {}
  PROVE  LET i == CHOOSE j \in S : \A k \in S : j <= k IN i \in S /\ \A k \in S : i <= k
<1> DEFINE Below == {0 .. m : m \in S}
<1>1. S \subseteq Nat
  BY DEF Slots
<1>2. Below \subseteq FiniteSubsetsOf(Nat) /\ Below # {}
  <2>1. \A m \in S : 0 .. m \subseteq Nat /\ 0 \in Int /\ m \in Int
    BY <1>1
  <2>2. \A m \in S : IsFiniteSet(0 .. m)
    BY <2>1, FS_Interval
  <2>3. QED
    BY <2>1, <2>2 DEF FiniteSubsetsOf
<1>3. PICK X \in Below : \A Y \in Below : ~(<<Y, X>> \in StrictSubsetOrdering(Nat))
  <2> HIDE DEF Below
  <2>1. IsWellFoundedOn(StrictSubsetOrdering(Nat), FiniteSubsetsOf(Nat))
    BY FS_StrictSubsetOrderingWellFounded
  <2>2. QED
    BY <1>2, <2>1, WFMin
<1>4. PICK m \in S : X = 0 .. m
  BY <1>3
<1>5. ASSUME NEW k \in S, ~(m <= k) PROVE FALSE
  <2>1. 0 .. k \in Below /\ 0 .. k \subseteq Nat /\ 0 .. m \subseteq Nat
    BY <1>1
  <2>2. 0 .. k \subseteq 0 .. m /\ 0 .. k # 0 .. m
    BY <1>1, <1>5
  <2>3. <<0 .. k, X>> \in StrictSubsetOrdering(Nat)
    BY <1>4, <2>1, <2>2 DEF StrictSubsetOrdering
  <2>4. QED
    BY <1>3, <2>1, <2>3
<1>6. \E x \in S : \A y \in S : x <= y
  BY <1>5
<1>7. QED
  BY <1>6

\* Every thread is on a node, every node has one, and no two nodes share one.
LEMMA Placed ==
  /\ Threads # {} /\ Nodes # {}
  /\ \A t \in Threads : NodeOf[t] \in Nodes /\ t \in ThreadsOf(NodeOf[t])
  /\ \A n \in Nodes : ThreadsOf(n) # {}
  /\ \A n : ThreadsOf(n) \subseteq Threads /\ \A t \in ThreadsOf(n) : NodeOf[t] = n
<1>1. Threads # {}
  BY ReduceAssumption, FS_EmptySet
<1>2. QED
  BY <1>1, ReduceAssumption DEF ThreadsOf

\* The threads of a node are finitely many.
LEMMA NodeCards ==
  ASSUME NEW n \in Nodes, NEW S \in SUBSET ThreadsOf(n)
  PROVE  /\ IsFiniteSet(S) /\ Cardinality(S) \in Nat /\ Cardinality(S) <= Size(n)
         /\ Size(n) \in Nat \ {0}
         /\ Cardinality(S) = Size(n) <=> S = ThreadsOf(n)
<1>1. IsFiniteSet(ThreadsOf(n)) /\ ThreadsOf(n) # {}
  BY ReduceAssumption, Placed, FS_Subset
<1>2. QED
  BY <1>1, FS_Subset, FS_CardinalityType, FS_EmptySet DEF Size

LEMMA GlobalCards ==
  ASSUME NEW S \in SUBSET Nodes
  PROVE  /\ IsFiniteSet(S) /\ Cardinality(S) \in Nat
         /\ Cardinality(S) <= Cardinality(Nodes) /\ Cardinality(Nodes) \in Nat
         /\ Cardinality(S) = Cardinality(Nodes) <=> S = Nodes
BY ReduceAssumption, FS_Subset, FS_CardinalityType

LEMMA InitIInv == Init => IInv
<1> SUFFICES ASSUME Init PROVE IInv
  OBVIOUS
<1> USE ReduceAssumption DEF Init
<1>1. 1 \in Reductions /\ 0 \in Slots
  BY DEF Reductions, Slots
<1>2. Types
  BY <1>1, NodeCards, GlobalCards DEF Types, VarTypes, ScanTypes, BagTypes, PCs, Pointers
<1>3. /\ \A t \in Threads : Out(t, 1) /\ ~Leads(t) /\ ~LeadsAll(t)
      /\ \A n \in Nodes : ~NodeDone(n, 1) /\ ~NodePassed(n, 1)
  BY DEF Out, Leads, LeadsAll, NodeDone, NodePassed, ThreadsOf
<1>4. \A n \in Nodes : OutOf(n, 1) = ThreadsOf(n)
  BY <1>3 DEF OutOf, ThreadsOf
<1>5. NotPassed(1) = Nodes
  BY <1>3 DEF NotPassed
<1>6. \A t \in Threads, q \in Reductions : payload[t][q] = BagOf({t}, q)
  <2>1. \A t, q : {t} \X {q} = {<<t, q>>}
    OBVIOUS
  <2>2. QED
    BY <2>1 DEF BagOf
<1>7. InRound(1) /\ LeaderInv(1)
  BY <1>1, <1>3 DEF InRound, LeaderInv, OneLeader, OneGlobalLeader, NodeStage, Finishing,
                    GlobalStage, ThreadsOf
<1>8. CountInv(1)
  BY <1>1, <1>3, <1>4, <1>5 DEF CountInv, NodeCount, GlobalCount, Rearmed, Size
<1>9. EntryInv(1)
  BY <1>3 DEF EntryInv, EntryHolds, OthersPosted, GlobalEntryHolds, MergedPosted
<1>10. PayloadInv(1)
  <2>1. Results(1)
    BY DEF Results, Reductions
  <2>2. GatherPayload(1) /\ NodePayload(1) /\ GlobalPayload(1)
    BY <1>3 DEF GatherPayload, NodePayload, GlobalPayload, LeadsAll
  <2>3. QED
    BY <1>6, <2>1, <2>2 DEF PayloadInv, Fresh
<1>11. QED
  BY <1>1, <1>2, <1>7, <1>8, <1>9, <1>10 DEF IInv, Round

-----------------------------------------------------------------------------
(* What a round says of one thread and its node, and what a step of t       *)
(* leaves alone                                                            *)

LEMMA Categories ==
  ASSUME Types, NEW r \in Reductions, Round(r), NEW t \in Threads
  PROVE  /\ pc[t] # "return" => red[t] = r
         /\ Leads(t) \/ LeadsAll(t) => ~Out(t, r) /\ red[t] = r
         /\ Out(t, r) \/ pc[t] = "post" => ~NodeDone(NodeOf[t], r) /\ ~NodePosted(NodeOf[t], r)
         /\ LeadsAll(t) => NodePassed(NodeOf[t], r)
         /\ \A n \in Nodes : NodePosted(n, r) => NodePassed(n, r)
<1>1. t \in ThreadsOf(NodeOf[t]) /\ NodeOf[t] \in Nodes
  BY Placed
<1>2. /\ pc[t] # "return" => red[t] = r
      /\ Leads(t) \/ LeadsAll(t) => ~Out(t, r) /\ red[t] = r
  BY DEF Round, InRound, Leads, LeadsAll, Out
<1>3. LeadsAll(t) => NodePassed(NodeOf[t], r)
  BY <1>1 DEF Round, LeaderInv, Finishing, LeadsAll, Leads, NodePassed
<1>4. \A n \in Nodes : NodePosted(n, r) => NodePassed(n, r)
  BY DEF NodePosted, NodePassed, Leads
<1>5. ASSUME Out(t, r) \/ pc[t] = "post"
      PROVE  ~NodeDone(NodeOf[t], r) /\ ~NodePosted(NodeOf[t], r)
  <2>1. ~Posted(t, r) /\ pc[t] \notin {"finish", "cleanup"}
    BY <1>5, <1>2 DEF Posted, Out
  <2>2. ~NodeDone(NodeOf[t], r)
    BY <1>1, <2>1 DEF NodeDone, Posted
  <2>3. ASSUME NEW u \in ThreadsOf(NodeOf[t]), pc[u] = "cleanup" PROVE FALSE
    <3>1. u \in Threads /\ u # t /\ NodeOf[u] = NodeOf[t] /\ Leads(u)
      BY <2>1, <2>3, Placed DEF Leads
    <3>2. QED
      BY <1>1, <2>1, <2>3, <3>1 DEF Round, EntryInv, OthersPosted
  <2>4. QED
    BY <2>2, <2>3 DEF NodePosted
<1>6. QED
  BY <1>2, <1>3, <1>4, <1>5

\* A step moves one thread; the other threads and nodes stay what they are.
LEMMA OthersKeep ==
  ASSUME NEW t \in Threads, NEW r,
         \A u \in Threads \ {t} : pc'[u] = pc[u] /\ red'[u] = red[u]
  PROVE  /\ \A u \in Threads \ {t} :
              /\ Out(u, r)' <=> Out(u, r)
              /\ Posted(u, r)' <=> Posted(u, r)
              /\ Leads(u)' <=> Leads(u)
              /\ LeadsAll(u)' <=> LeadsAll(u)
         /\ \A n \in Nodes \ {NodeOf[t]} :
              /\ NodeDone(n, r)' <=> NodeDone(n, r)
              /\ NodePassed(n, r)' <=> NodePassed(n, r)
              /\ NodePosted(n, r)' <=> NodePosted(n, r)
              /\ OutOf(n, r)' = OutOf(n, r)
<1>1. \A u \in Threads \ {t} :
        /\ Out(u, r)' <=> Out(u, r)
        /\ Posted(u, r)' <=> Posted(u, r)
        /\ Leads(u)' <=> Leads(u)
        /\ LeadsAll(u)' <=> LeadsAll(u)
  BY DEF Out, Posted, Leads, LeadsAll
<1>2. ASSUME NEW n \in Nodes \ {NodeOf[t]}
      PROVE  /\ NodeDone(n, r)' <=> NodeDone(n, r)
             /\ NodePassed(n, r)' <=> NodePassed(n, r)
             /\ NodePosted(n, r)' <=> NodePosted(n, r)
             /\ OutOf(n, r)' = OutOf(n, r)
  <2>1. ThreadsOf(n) \subseteq Threads \ {t}
    BY DEF ThreadsOf
  <2>2. NodeDone(n, r)' <=> NodeDone(n, r)
    BY <2>1 DEF NodeDone
  <2>3. NodePassed(n, r)' <=> NodePassed(n, r)
    BY <1>1, <2>1, <2>2 DEF NodePassed
  <2>4. NodePosted(n, r)' <=> NodePosted(n, r)
    BY <2>1, <2>2 DEF NodePosted
  <2>5. OutOf(n, r)' = OutOf(n, r)
    BY <1>1, <2>1 DEF OutOf
  <2>6. QED
    BY <2>2, <2>3, <2>4, <2>5
<1>3. QED
  BY <1>1, <1>2

\* A step that moves no thread.
LEMMA NobodyMoves ==
  ASSUME NEW r, UNCHANGED <<pc, red>>
  PROVE  /\ \A u \in Threads :
              /\ Out(u, r)' <=> Out(u, r)
              /\ Posted(u, r)' <=> Posted(u, r)
              /\ Leads(u)' <=> Leads(u)
              /\ LeadsAll(u)' <=> LeadsAll(u)
         /\ \A n \in Nodes :
              /\ NodeDone(n, r)' <=> NodeDone(n, r)
              /\ NodePassed(n, r)' <=> NodePassed(n, r)
              /\ NodePosted(n, r)' <=> NodePosted(n, r)
              /\ OutOf(n, r)' = OutOf(n, r)
         /\ NotPassed(r)' = NotPassed(r)
<1>1. \A u \in Threads :
        /\ Out(u, r)' <=> Out(u, r)
        /\ Posted(u, r)' <=> Posted(u, r)
        /\ Leads(u)' <=> Leads(u)
        /\ LeadsAll(u)' <=> LeadsAll(u)
  BY DEF Out, Posted, Leads, LeadsAll
<1>2. \A n \in Nodes :
        /\ NodeDone(n, r)' <=> NodeDone(n, r)
        /\ NodePassed(n, r)' <=> NodePassed(n, r)
        /\ NodePosted(n, r)' <=> NodePosted(n, r)
        /\ OutOf(n, r)' = OutOf(n, r)
  BY <1>1 DEF NodeDone, NodePassed, NodePosted, OutOf, Out, Leads
<1>3. QED
  BY <1>1, <1>2 DEF NotPassed

\* A step that leaves the entries of the nodes and their gathering leaders
\* alone.
LEMMA EntryKept ==
  ASSUME NEW r, EntryHolds(r), entry' = entry,
         \A u \in Threads : Posted(u, r) => Posted(u, r)' /\ payload'[u][r] = payload[u][r],
         \A u \in Threads : pc[u] = "gather" => /\ pc'[u] = "gather"
                                                /\ Combined(u, r)' = Combined(u, r)
  PROVE  EntryHolds(r)'
<1>1. ASSUME NEW m \in Nodes, NEW i \in Slots, entry'[m][i] # Null
      PROVE  /\ \E u \in ThreadsOf(m) : entry'[m][i] = <<u, r>> /\ Posted(u, r)'
                                        /\ payload'[u][r] = BagOf({u}, r)
             /\ \A j \in Slots : entry'[m][j] = entry'[m][i] => j = i
             /\ \E l \in ThreadsOf(m) :
                  pc'[l] = "gather" /\ entry'[m][i][1] \notin Combined(l, r)'
  <2>1. PICK u \in ThreadsOf(m) : entry[m][i] = <<u, r>> /\ Posted(u, r)
                                  /\ payload[u][r] = BagOf({u}, r)
    BY <1>1 DEF EntryHolds
  <2>2. \A j \in Slots : entry[m][j] = entry[m][i] => j = i
    BY <1>1 DEF EntryHolds
  <2>3. PICK l \in ThreadsOf(m) : pc[l] = "gather" /\ entry[m][i][1] \notin Combined(l, r)
    BY <1>1 DEF EntryHolds
  <2>4. u \in Threads /\ l \in Threads
    BY Placed
  <2>5. QED
    BY <2>1, <2>2, <2>3, <2>4
<1>2. QED
  BY <1>1 DEF EntryHolds

LEMMA GatherKept ==
  ASSUME NEW r, GatherPayload(r),
         \A u \in Threads : Posted(u, r) => Posted(u, r)',
         \A u \in Threads : pc'[u] = "gather" =>
           pc[u] = "gather" /\ payload'[u] = payload[u] /\ reduced'[u] = reduced[u]
  PROVE  GatherPayload(r)'
<1>1. ASSUME NEW u \in Threads, pc'[u] = "gather"
      PROVE  /\ payload'[u][r] = BagOf(Combined(u, r)', r)
             /\ u \in Combined(u, r)'
             /\ \A v \in Combined(u, r)' \ {u} : v \in ThreadsOf(NodeOf[u]) /\ Posted(v, r)'
             /\ reduced'[u] = Cardinality(Combined(u, r)')
  <2>1. Combined(u, r)' = Combined(u, r)
    BY <1>1 DEF Combined
  <2>2. \A v \in Combined(u, r) : v \in Threads
    BY DEF Combined
  <2>3. QED
    BY <1>1, <2>1, <2>2 DEF GatherPayload
<1>2. QED
  BY <1>1 DEF GatherPayload

-----------------------------------------------------------------------------
(* The node                                                                *)

LEMMA SelectLeaderOptimisticStep ==
  ASSUME Types, NEW r \in Reductions, Round(r),
         NEW t \in Threads, SelectLeaderOptimistic(t)
  PROVE  Types' /\ Round(r)'
<1> DEFINE n == NodeOf[t]
           first == remaining[n] = Size(n)
<1>0. /\ pc[t] = "enter" /\ remaining' = [remaining EXCEPT ![n] = @ - 1]
      /\ first => /\ pc' = [pc EXCEPT ![t] = "gather"] /\ ticket' = ticket
                  /\ reduced' = [reduced EXCEPT ![t] = 1] /\ seen' = [seen EXCEPT ![t] = {}]
      /\ ~first => /\ pc' = [pc EXCEPT ![t] = "post"] /\ reduced' = reduced /\ seen' = seen
                   /\ ticket' = [ticket EXCEPT ![t] = (remaining[n] - 1) % Entries]
      /\ UNCHANGED <<gremaining, entry, gentry, red, payload, result>>
  BY DEF SelectLeaderOptimistic, Goto
<1>p. /\ n \in Nodes /\ t \in ThreadsOf(n) /\ ThreadsOf(n) \subseteq Threads
      /\ \A m \in Nodes \ {n} : t \notin ThreadsOf(m)
  BY Placed
<1> HIDE DEF first
<1>1. /\ red[t] = r /\ Out(t, r) /\ ~Leads(t) /\ ~LeadsAll(t)
      /\ ~NodeDone(n, r) /\ ~NodePosted(n, r)
  BY <1>0, Categories DEF Out, Leads, LeadsAll
<1>2. /\ pc'[t] \in {"gather", "post"} /\ (first <=> pc'[t] = "gather")
      /\ red' = red /\ \A u \in Threads \ {t} : pc'[u] = pc[u] /\ reduced'[u] = reduced[u]
  BY <1>0 DEF Types, VarTypes
<1>3. /\ ~NodeDone(n, r)' /\ ~Out(t, r)' /\ ~LeadsAll(t)' /\ (Leads(t)' <=> first)
      /\ ~Posted(t, r) /\ ~Posted(t, r)'
  BY <1>0, <1>p, <1>1, <1>2 DEF NodeDone, Out, Leads, LeadsAll, Posted
<1>4. /\ \A u \in Threads : (Posted(u, r)' <=> Posted(u, r)) /\ (LeadsAll(u)' <=> LeadsAll(u))
      /\ \A u \in Threads \ {t} : (Out(u, r)' <=> Out(u, r)) /\ (Leads(u)' <=> Leads(u))
  BY <1>1, <1>2, <1>3, OthersKeep
<1>5. OutOf(n, r)' = OutOf(n, r) \ {t} /\ t \in OutOf(n, r)
  BY <1>p, <1>1, <1>3, <1>4 DEF OutOf
<1>6. /\ remaining[n] = Cardinality(OutOf(n, r)) /\ remaining[n] \in Nat \ {0}
      /\ Cardinality(OutOf(n, r)') = remaining[n] - 1
      /\ first <=> OutOf(n, r) = ThreadsOf(n)
  <2>1. OutOf(n, r) \in SUBSET ThreadsOf(n)
    BY DEF OutOf
  <2>2. remaining[n] = Cardinality(OutOf(n, r))
    BY <1>p, <1>1 DEF Round, CountInv, NodeCount
  <2>3. /\ IsFiniteSet(OutOf(n, r)) /\ Cardinality(OutOf(n, r)) \in Nat
        /\ Cardinality(OutOf(n, r)) = Size(n) <=> OutOf(n, r) = ThreadsOf(n)
    BY <1>p, <2>1, NodeCards
  <2>4. /\ Cardinality(OutOf(n, r)') = Cardinality(OutOf(n, r)) - 1
        /\ Cardinality(OutOf(n, r)) # 0
    BY <1>5, <2>3, FS_RemoveElement, FS_EmptySet
  <2>5. QED
    BY <2>2, <2>3, <2>4 DEF first
<1>7. first => \A u \in ThreadsOf(n) : Out(u, r) /\ ~Leads(u) /\ ~Posted(u, r)
  <2>1. ASSUME first, NEW u \in ThreadsOf(n) PROVE Out(u, r)
    BY <1>6, <2>1 DEF OutOf
  <2>2. QED
    BY <1>p, <2>1, Categories DEF Posted, Out
<1>8. ~first => \E l \in ThreadsOf(n) : l # t /\ Leads(l)
  BY <1>p, <1>1, <1>6 DEF Round, LeaderInv, NodeStage, OutOf
<1>9. \A m \in Nodes : /\ NodeDone(m, r)' <=> NodeDone(m, r)
                       /\ NodePassed(m, r)' <=> NodePassed(m, r)
                       /\ NodePosted(m, r)' <=> NodePosted(m, r)
  <2>1. NodePosted(n, r)' <=> NodePosted(n, r)
    BY <1>0, <1>p, <1>1, <1>2, <1>3 DEF NodePosted
  <2>2. NodePassed(n, r)' <=> NodePassed(n, r)
    BY <1>p, <1>1, <1>2, <1>3, <1>4 DEF NodePassed
  <2>3. QED
    BY <1>1, <1>2, <1>3, <2>1, <2>2, OthersKeep
<1>10. NotPassed(r)' = NotPassed(r)
  BY <1>9 DEF NotPassed
<1>11. UNCHANGED <<gremaining, entry, gentry, payload, result>>
  BY <1>0
<1>12. \A u : Combined(u, r)' = Combined(u, r) /\ Merged(u, r)' = Merged(u, r)
  BY <1>11 DEF Combined, Merged
<1>a. Types'
  <2>1. (remaining[n] - 1) % Entries \in Slots
    BY <1>6, ReduceAssumption DEF Slots
  <2>2. /\ remaining \in [Nodes -> Nat] /\ pc \in [Threads -> PCs]
        /\ ticket \in [Threads -> Slots] /\ reduced \in [Threads -> Nat]
    BY DEF Types, VarTypes
  <2>3. ticket' \in [Threads -> Slots] /\ reduced' \in [Threads -> Nat]
    BY <1>0, <2>1, <2>2
  <2>4. pc' \in [Threads -> PCs]
    BY <1>0, <2>2 DEF PCs
  <2>5. remaining' \in [Nodes -> Nat]
    <3>1. remaining[n] - 1 \in Nat
      BY <1>6
    <3>2. QED
      BY <1>0, <2>2, <3>1
  <2>6. VarTypes'
    BY <1>0, <2>3, <2>4, <2>5 DEF Types, VarTypes
  <2>7. /\ DOMAIN seen' = Threads
        /\ \A u \in Threads : seen'[u] = seen[u] \/ (u = t /\ seen'[u] = {})
        /\ pc'[t] = "gather" => seen'[t] = {}
    BY <1>0, <1>2 DEF Types, ScanTypes
  <2>8. ScanTypes'
    BY <1>2, <2>7 DEF Types, ScanTypes
  <2>9. QED
    BY <1>11, <2>6, <2>8 DEF Types, BagTypes
<1>b. InRound(r)'
  BY <1>1, <1>2 DEF Round, InRound
<1>c. LeaderInv(r)'
  <2>1. OneLeader'
    <3>1. ASSUME NEW m \in Nodes, NEW u \in ThreadsOf(m), NEW v \in ThreadsOf(m),
                 Leads(u)', Leads(v)', u # v
          PROVE  FALSE
      BY <1>p, <1>3, <1>4, <1>7, <3>1, Placed DEF Round, LeaderInv, OneLeader
    <3>2. QED
      BY <3>1 DEF OneLeader
  <2>2. NodeStage(r)'
    <3>1. \E l \in ThreadsOf(n) : Leads(l)'
      BY <1>p, <1>3, <1>4, <1>8
    <3>2. ASSUME NEW m \in Nodes \ {n}
          PROVE  \/ \A u \in ThreadsOf(m) : Out(u, r)'
                 \/ NodeDone(m, r)'
                 \/ \E u \in ThreadsOf(m) : Leads(u)'
      BY <1>p, <1>4, <1>9, Placed DEF Round, LeaderInv, NodeStage
    <3>3. QED
      BY <3>1, <3>2 DEF NodeStage
  <2>3. Finishing(r)'
    BY <1>2, <1>9, Placed DEF Round, LeaderInv, Finishing
  <2>4. OneGlobalLeader' /\ GlobalStage(r)'
    BY <1>4, <1>9, <1>11 DEF Round, LeaderInv, OneGlobalLeader, GlobalStage
  <2>5. QED
    BY <2>1, <2>2, <2>3, <2>4 DEF LeaderInv
<1>d. CountInv(r)'
  <2>1. ASSUME NEW m \in Nodes
        PROVE remaining'[m] = IF NodeDone(m, r)' THEN Size(m) ELSE Cardinality(OutOf(m, r)')
    <3>1. CASE m = n
      BY <1>0, <1>3, <1>6, <3>1 DEF Types, VarTypes
    <3>2. CASE m # n
      <4>1. remaining'[m] = remaining[m] /\ OutOf(m, r)' = OutOf(m, r)
        BY <1>0, <1>2, <3>2, OthersKeep DEF Types, VarTypes
      <4>2. QED
        BY <1>9, <4>1 DEF Round, CountInv, NodeCount
    <3>3. QED
      BY <3>1, <3>2
  <2>2. Rearmed(r)' <=> Rearmed(r)
    BY <1>0, <1>2 DEF Rearmed
  <2>3. QED
    BY <1>10, <1>11, <2>1, <2>2 DEF Round, CountInv, GlobalCount, NodeCount
<1>e. EntryInv(r)'
  <2>1. EntryHolds(r)'
    <3>1. \A u \in Threads : pc[u] = "gather" => pc'[u] = "gather"
      BY <1>0, <1>2
    <3>2. QED
      BY <1>4, <1>11, <1>12, <3>1, EntryKept DEF Round, EntryInv
  <2>2. OthersPosted(r)'
    BY <1>2, <1>3, <1>4, Placed DEF Round, EntryInv, OthersPosted
  <2>3. \A u \in Threads : pc[u] \in {"cleanup", "return"} => pc'[u] = pc[u]
    BY <1>0, <1>2
  <2>4. \A u \in Threads : LeadsAll(u)' => LeadsAll(u) /\ pc'[u] = pc[u]
    BY <1>1, <1>2, <1>4
  <2>5. GlobalEntryHolds(r)'
    BY <1>2, <1>9, <1>11, <1>12, <2>3, <2>4, Placed DEF Round, EntryInv, GlobalEntryHolds
  <2>6. MergedPosted(r)'
    BY <1>9, <1>12, <2>4 DEF Round, EntryInv, MergedPosted, Merged
  <2>7. QED
    BY <2>1, <2>2, <2>5, <2>6 DEF EntryInv
<1>f. PayloadInv(r)'
  <2>1. Fresh(r)'
    BY <1>1, <1>2, <1>4, <1>11 DEF Round, PayloadInv, Fresh
  <2>2. GatherPayload(r)'
    <3>1. ASSUME NEW u \in Threads \ {t}, pc'[u] = "gather"
          PROVE  /\ payload[u][r] = BagOf(Combined(u, r), r)
                 /\ u \in Combined(u, r)
                 /\ \A v \in Combined(u, r) \ {u} : v \in ThreadsOf(NodeOf[u]) /\ Posted(v, r)'
                 /\ reduced'[u] = Cardinality(Combined(u, r))
      BY <1>2, <1>4, <3>1, Placed DEF Round, PayloadInv, GatherPayload
    <3>2. payload[t][r] = BagOf({t}, r) /\ Combined(t, r) = {t}
      BY <1>1, CombinedIs DEF Round, PayloadInv, Fresh
    <3>3. first => reduced'[t] = 1
      BY <1>0 DEF Types, VarTypes
    <3>4. QED
      BY <1>2, <1>11, <1>12, <3>1, <3>2, <3>3, FS_Singleton, ZenonT(60) DEF GatherPayload
  <2>3. NodePayload(r)'
    BY <1>2, <1>11 DEF Round, PayloadInv, NodePayload
  <2>4. GlobalPayload(r)'
    <3>1. \A u \in Threads : LeadsAll(u)' => /\ LeadsAll(u) /\ pc'[u] = pc[u]
                                             /\ reduced'[u] = reduced[u]
      BY <1>1, <1>2, <1>4
    <3>2. QED
      BY <1>11, <1>12, <3>1 DEF Round, PayloadInv, GlobalPayload
  <2>5. Results(r)'
    BY <1>11 DEF Round, PayloadInv, Results
  <2>6. QED
    BY <2>1, <2>2, <2>3, <2>4, <2>5 DEF PayloadInv
<1>g. QED
  BY <1>a, <1>b, <1>c, <1>d, <1>e, <1>f DEF Round

LEMMA ReduceLocalStep ==
  ASSUME Types, NEW r \in Reductions, Round(r),
         NEW t \in Threads, ReduceLocal(t)
  PROVE  Types' /\ Round(r)'
<1> DEFINE n == NodeOf[t]
           k == ticket[t]
<1>0. /\ pc[t] = "post" /\ pc' = [pc EXCEPT ![t] = "return"]
      /\ entry[n][k] = Null /\ entry' = [entry EXCEPT ![n][k] = <<t, red[t]>>]
      /\ UNCHANGED <<remaining, gremaining, gentry, red, ticket, seen, reduced, payload, result>>
  BY DEF ReduceLocal, Goto
<1>p. /\ n \in Nodes /\ t \in ThreadsOf(n) /\ ThreadsOf(n) \subseteq Threads /\ k \in Slots
      /\ \A m \in Nodes \ {n} : t \notin ThreadsOf(m)
  BY Placed DEF Types, VarTypes
<1>1. /\ red[t] = r /\ ~Out(t, r) /\ ~Leads(t) /\ ~LeadsAll(t) /\ ~Posted(t, r)
      /\ ~NodeDone(n, r) /\ ~NodePosted(n, r)
  BY <1>0, Categories DEF Out, Leads, LeadsAll, Posted
<1>2. pc'[t] = "return" /\ red' = red /\ \A u \in Threads \ {t} : pc'[u] = pc[u]
  BY <1>0 DEF Types, VarTypes
<1>3. /\ ~Out(t, r)' /\ ~Leads(t)' /\ ~LeadsAll(t)' /\ Posted(t, r)'
  BY <1>0, <1>1, <1>2 DEF Out, Leads, LeadsAll, Posted
<1>4. /\ \A u \in Threads : (Out(u, r)' <=> Out(u, r)) /\ (LeadsAll(u)' <=> LeadsAll(u))
                            /\ (Leads(u)' <=> Leads(u)) /\ (Posted(u, r) => Posted(u, r)')
      /\ \A u \in Threads \ {t} : Posted(u, r)' => Posted(u, r)
  BY <1>1, <1>2, <1>3, OthersKeep
<1>5. PICK l \in ThreadsOf(n) : l \in Threads /\ l # t /\ Leads(l) /\ pc[l] = "gather"
  <2>1. PICK l \in ThreadsOf(n) : Leads(l)
    BY <1>p, <1>1 DEF Round, LeaderInv, NodeStage
  <2>2. l \in Threads /\ NodeOf[l] = n /\ l # t
    BY <1>1, <2>1, Placed
  <2>3. pc[l] = "gather"
    BY <1>p, <1>1, <2>1, <2>2 DEF Round, EntryInv, OthersPosted
  <2>4. QED
    BY <2>1, <2>2, <2>3
<1>6. \A m \in Nodes : /\ NodeDone(m, r)' <=> NodeDone(m, r)
                       /\ NodePassed(m, r)' <=> NodePassed(m, r)
                       /\ NodePosted(m, r)' <=> NodePosted(m, r)
                       /\ OutOf(m, r)' = OutOf(m, r)
  <2>1. ~NodeDone(n, r)'
    BY <1>2, <1>5 DEF NodeDone
  <2>2. NodePosted(n, r)' <=> NodePosted(n, r)
    BY <1>0, <1>p, <1>1, <1>2, <2>1 DEF NodePosted
  <2>3. NodePassed(n, r)' <=> NodePassed(n, r)
    BY <1>p, <1>1, <1>2, <1>4, <2>1 DEF NodePassed
  <2>4. OutOf(n, r)' = OutOf(n, r)
    BY <1>p, <1>4 DEF OutOf
  <2>5. QED
    BY <1>1, <1>2, <2>1, <2>2, <2>3, <2>4, OthersKeep
<1>7. NotPassed(r)' = NotPassed(r)
  BY <1>6 DEF NotPassed
<1>8. \A u : Combined(u, r)' = Combined(u, r) /\ Merged(u, r)' = Merged(u, r)
  BY <1>0 DEF Combined, Merged
<1>a. Types'
  <2>1. entry \in [Nodes -> [Slots -> Pointers \cup {Null}]]
        /\ pc \in [Threads -> PCs] /\ <<t, red[t]>> \in Pointers
    BY <1>1 DEF Types, VarTypes, Pointers
  <2>2. entry' \in [Nodes -> [Slots -> Pointers \cup {Null}]]
    BY <1>0, <1>p, <2>1
  <2>3. pc' \in [Threads -> PCs]
    BY <1>0, <2>1 DEF PCs
  <2>4. VarTypes'
    BY <1>0, <2>2, <2>3 DEF Types, VarTypes
  <2>5. ScanTypes' /\ BagTypes'
    BY <1>0, <1>2 DEF Types, ScanTypes, BagTypes
  <2>6. QED
    BY <2>4, <2>5 DEF Types
<1>b. InRound(r)'
  BY <1>1, <1>2 DEF Round, InRound
<1>c. LeaderInv(r)'
  <2>1. OneLeader' /\ OneGlobalLeader'
    BY <1>4, Placed DEF Round, LeaderInv, OneLeader, OneGlobalLeader
  <2>2. NodeStage(r)'
    BY <1>4, <1>6, Placed DEF Round, LeaderInv, NodeStage
  <2>3. Finishing(r)'
    BY <1>2, <1>6, Placed DEF Round, LeaderInv, Finishing
  <2>4. GlobalStage(r)'
    BY <1>0, <1>4, <1>6 DEF Round, LeaderInv, GlobalStage
  <2>5. QED
    BY <2>1, <2>2, <2>3, <2>4 DEF LeaderInv
<1>d. CountInv(r)'
  <2>1. NodeCount(r)'
    BY <1>0, <1>6 DEF Round, CountInv, NodeCount
  <2>2. Rearmed(r)' <=> Rearmed(r)
    BY <1>0, <1>2 DEF Rearmed
  <2>3. QED
    BY <1>0, <1>7, <2>1, <2>2 DEF Round, CountInv, GlobalCount
<1>e. EntryInv(r)'
  <2>1. EntryHolds(r)'
    <3>1. \A m \in Nodes : \A u \in ThreadsOf(m) :
            u \in Threads /\ (pc[u] = "gather" => pc'[u] = "gather")
      BY <1>0, <1>2, Placed
    <3>2. /\ \A m \in Nodes, i \in Slots : (m # n \/ i # k) => entry'[m][i] = entry[m][i]
          /\ entry'[n][k] = <<t, r>>
      BY <1>0, <1>1, <1>p DEF Types, VarTypes
    <3>3. \A i \in Slots : entry[n][i] # <<t, r>>
      <4>1. ASSUME NEW i \in Slots, entry[n][i] = <<t, r>> PROVE FALSE
        <5>1. entry[n][i] # Null
          BY <4>1, ReduceAssumption
        <5>2. PICK u \in ThreadsOf(n) : entry[n][i] = <<u, r>> /\ Posted(u, r)
          BY <1>p, <5>1 DEF Round, EntryInv, EntryHolds
        <5>3. QED
          BY <1>1, <4>1, <5>2
      <4>2. QED
        BY <4>1
    <3>4. ASSUME NEW m \in Nodes, NEW i \in Slots, entry[m][i] # Null
          PROVE  /\ \E u \in ThreadsOf(m) : entry[m][i] = <<u, r>> /\ Posted(u, r)'
                                            /\ payload[u][r] = BagOf({u}, r)
                 /\ \A j \in Slots : entry'[m][j] = entry[m][i] => j = i
                 /\ \E u \in ThreadsOf(m) : pc'[u] = "gather" /\ entry[m][i][1] \notin Combined(u, r)
      <4>1. /\ \E u \in ThreadsOf(m) : entry[m][i] = <<u, r>> /\ Posted(u, r)
                                        /\ payload[u][r] = BagOf({u}, r)
            /\ \A j \in Slots : entry[m][j] = entry[m][i] => j = i
            /\ \E u \in ThreadsOf(m) : pc[u] = "gather" /\ entry[m][i][1] \notin Combined(u, r)
        BY <3>4 DEF Round, EntryInv, EntryHolds
      <4>2. \A j \in Slots : entry'[m][j] = entry[m][i] => j = i
        BY <3>2, <3>3, <4>1
      <4>3. QED
        BY <1>4, <3>1, <4>1, <4>2
    <3>5. /\ payload[t][r] = BagOf({t}, r)
          /\ \A j \in Slots : entry'[n][j] = <<t, r>> => j = k
          /\ t \notin Combined(l, r)
      <4>1. payload[t][r] = BagOf({t}, r)
        BY <1>0 DEF Round, PayloadInv, Fresh
      <4>2. t \notin Combined(l, r)
        BY <1>1, <1>5 DEF Round, PayloadInv, GatherPayload
      <4>3. QED
        BY <1>p, <3>2, <3>3, <4>1, <4>2
    <3>6. ASSUME NEW m \in Nodes, NEW i \in Slots, entry'[m][i] # Null
          PROVE  /\ \E u \in ThreadsOf(m) : entry'[m][i] = <<u, r>> /\ Posted(u, r)'
                                            /\ payload'[u][r] = BagOf({u}, r)
                 /\ \A j \in Slots : entry'[m][j] = entry'[m][i] => j = i
                 /\ \E u \in ThreadsOf(m) :
                      pc'[u] = "gather" /\ entry'[m][i][1] \notin Combined(u, r)'
      <4>1. CASE m = n /\ i = k
        <5>1. entry'[m][i] = <<t, r>> /\ entry'[m][i][1] = t /\ payload' = payload
          BY <1>0, <3>2, <4>1
        <5>2. pc'[l] = "gather" /\ t \notin Combined(l, r)'
          BY <1>2, <1>5, <1>8, <3>5
        <5>3. QED
          BY <1>p, <1>3, <3>5, <4>1, <5>1, <5>2
      <4>2. CASE m # n \/ i # k
        <5>1. entry'[m][i] = entry[m][i] /\ entry[m][i] # Null /\ payload' = payload
          BY <1>0, <3>2, <3>6, <4>2
        <5>2. /\ \E u \in ThreadsOf(m) : entry[m][i] = <<u, r>> /\ Posted(u, r)'
                                          /\ payload[u][r] = BagOf({u}, r)
              /\ \A j \in Slots : entry'[m][j] = entry[m][i] => j = i
              /\ \E u \in ThreadsOf(m) : pc'[u] = "gather" /\ entry[m][i][1] \notin Combined(u, r)
          BY <3>4, <5>1
        <5>3. QED
          BY <1>8, <5>1, <5>2
      <4>3. QED
        BY <4>1, <4>2
    <3>7. QED
      BY <3>6 DEF EntryHolds
  <2>2. OthersPosted(r)'
    BY <1>1, <1>2, <1>4, Placed DEF Round, EntryInv, OthersPosted
  <2>3. \A u \in Threads : pc[u] \in {"cleanup", "return"} => pc'[u] = pc[u]
    BY <1>0, <1>2
  <2>4. \A u \in Threads : LeadsAll(u)' => LeadsAll(u) /\ pc'[u] = pc[u]
    BY <1>1, <1>2, <1>4
  <2>5. GlobalEntryHolds(r)'
    BY <1>0, <1>2, <1>6, <1>8, <2>3, <2>4, Placed DEF Round, EntryInv, GlobalEntryHolds
  <2>6. MergedPosted(r)'
    BY <1>6, <1>8, <2>4 DEF Round, EntryInv, MergedPosted, Merged
  <2>7. QED
    BY <2>1, <2>2, <2>5, <2>6 DEF EntryInv
<1>f. PayloadInv(r)'
  <2>1. Fresh(r)'
    BY <1>0, <1>2, <1>4 DEF Round, PayloadInv, Fresh
  <2>2. \A u \in Threads : pc'[u] = "gather" => pc[u] = "gather"
    BY <1>2
  <2>3. GatherPayload(r)'
    BY <1>0, <1>4, <2>2, GatherKept DEF Round, PayloadInv
  <2>4. NodePayload(r)'
    BY <1>0, <1>2 DEF Round, PayloadInv, NodePayload
  <2>5. \A u \in Threads : LeadsAll(u)' => LeadsAll(u) /\ pc'[u] = pc[u]
    BY <1>1, <1>2, <1>4
  <2>6. GlobalPayload(r)'
    BY <1>0, <1>8, <2>5 DEF Round, PayloadInv, GlobalPayload
  <2>7. Results(r)'
    BY <1>0 DEF Round, PayloadInv, Results
  <2>8. QED
    BY <2>1, <2>3, <2>4, <2>6, <2>7 DEF PayloadInv
<1>g. QED
  BY <1>a, <1>b, <1>c, <1>d, <1>e, <1>f DEF Round

\* What is left to scan is no part of the round.
LEMMA RoundKept ==
  ASSUME NEW r, Round(r),
         UNCHANGED <<remaining, gremaining, entry, gentry, pc, red, reduced, payload, result>>
  PROVE  Round(r)'
<1>1. /\ \A u \in Threads :
              /\ Out(u, r)' <=> Out(u, r)
              /\ Posted(u, r)' <=> Posted(u, r)
              /\ Leads(u)' <=> Leads(u)
              /\ LeadsAll(u)' <=> LeadsAll(u)
      /\ \A n \in Nodes :
              /\ NodeDone(n, r)' <=> NodeDone(n, r)
              /\ NodePassed(n, r)' <=> NodePassed(n, r)
              /\ NodePosted(n, r)' <=> NodePosted(n, r)
              /\ OutOf(n, r)' = OutOf(n, r)
      /\ NotPassed(r)' = NotPassed(r)
  BY NobodyMoves
<1>2. \A u : Combined(u, r)' = Combined(u, r) /\ Merged(u, r)' = Merged(u, r)
  BY DEF Combined, Merged
<1>3. InRound(r)'
  BY DEF Round, InRound
<1>4. LeaderInv(r)'
  BY <1>1, Placed DEF Round, LeaderInv, OneLeader, OneGlobalLeader, NodeStage, Finishing, GlobalStage
<1>5. CountInv(r)'
  BY <1>1 DEF Round, CountInv, NodeCount, GlobalCount, Rearmed
<1>6. EntryInv(r)'
  <2>1. EntryHolds(r)'
    BY <1>1, <1>2, EntryKept DEF Round, EntryInv
  <2>2. OthersPosted(r)' /\ GlobalEntryHolds(r)' /\ MergedPosted(r)'
    BY <1>1, <1>2, Placed DEF Round, EntryInv, OthersPosted, GlobalEntryHolds, MergedPosted, Merged
  <2>3. QED
    BY <2>1, <2>2 DEF EntryInv
<1>7. PayloadInv(r)'
  <2>1. Fresh(r)' /\ NodePayload(r)' /\ Results(r)'
    BY <1>1 DEF Round, PayloadInv, Fresh, NodePayload, Results
  <2>2. GatherPayload(r)'
    BY DEF Round, PayloadInv, GatherPayload, Posted, Combined
  <2>3. GlobalPayload(r)'
    BY DEF Round, PayloadInv, GlobalPayload, LeadsAll, Merged, Combined
  <2>4. QED
    BY <2>1, <2>2, <2>3 DEF PayloadInv
<1>8. QED
  BY <1>3, <1>4, <1>5, <1>6, <1>7 DEF Round

LEMMA GatherPassStep ==
  ASSUME Types, NEW r \in Reductions, Round(r),
         NEW t \in Threads, GatherPass(t)
  PROVE  Types' /\ Round(r)'
<1> DEFINE n == NodeOf[t]
<1>0. /\ pc[t] = "gather" /\ seen[t] = {}
      /\ \/ reduced[t] < Size(n) /\ seen' = [seen EXCEPT ![t] = 0 .. MaxEntry(n) - 1] /\ pc' = pc
         \/ ~(reduced[t] < Size(n)) /\ seen' = seen /\ pc' = [pc EXCEPT ![t] = "select"]
      /\ UNCHANGED <<remaining, gremaining, entry, gentry, red, ticket, reduced, payload, result>>
  BY DEF GatherPass, Goto
<1>p. n \in Nodes /\ t \in ThreadsOf(n) /\ ThreadsOf(n) \subseteq Threads
  BY Placed
<1>1. CASE pc' = pc
  <2>1. VarTypes' /\ BagTypes'
    BY <1>0, <1>1 DEF Types, VarTypes, BagTypes
  <2>2. 0 .. MaxEntry(n) - 1 \subseteq Slots
    <3>1. Size(n) \in Nat /\ Entries \in Nat
      BY <1>p, NodeCards, ReduceAssumption DEF Size
    <3>2. QED
      BY <3>1 DEF MaxEntry, Slots
  <2>3. ScanTypes'
    BY <1>0, <1>1, <2>2 DEF Types, ScanTypes, VarTypes
  <2>4. QED
    BY <1>0, <1>1, <2>1, <2>3, RoundKept DEF Types
<1>2. CASE ~(reduced[t] < Size(n)) /\ seen' = seen /\ pc' = [pc EXCEPT ![t] = "select"]
  <2>1. pc'[t] = "select" /\ \A u \in Threads \ {t} : pc'[u] = pc[u]
    BY <1>2 DEF Types, VarTypes
  <2>2. /\ red[t] = r /\ Leads(t) /\ Leads(t)' /\ ~LeadsAll(t) /\ ~LeadsAll(t)'
        /\ ~Out(t, r) /\ ~Out(t, r)' /\ ~Posted(t, r) /\ ~Posted(t, r)'
        /\ ~NodeDone(n, r) /\ ~NodeDone(n, r)'
    BY <1>0, <1>p, <2>1, Categories DEF Leads, LeadsAll, Out, Posted, NodeDone
  <2>3. \A u \in Threads : /\ (Out(u, r)' <=> Out(u, r)) /\ (LeadsAll(u)' <=> LeadsAll(u))
                           /\ (Leads(u)' <=> Leads(u)) /\ (Posted(u, r)' <=> Posted(u, r))
    BY <1>0, <2>1, <2>2, OthersKeep
  <2>4. \A m \in Nodes : /\ NodeDone(m, r)' <=> NodeDone(m, r)
                         /\ NodePassed(m, r)' <=> NodePassed(m, r)
                         /\ NodePosted(m, r)' <=> NodePosted(m, r)
                         /\ OutOf(m, r)' = OutOf(m, r)
    <3>1. NodePosted(n, r)' <=> NodePosted(n, r)
      BY <1>0, <1>p, <2>1, <2>2 DEF NodePosted
    <3>2. NodePassed(n, r)' <=> NodePassed(n, r)
      BY <1>0, <1>p, <2>1, <2>2, <2>3 DEF NodePassed
    <3>3. OutOf(n, r)' = OutOf(n, r)
      BY <1>p, <2>3 DEF OutOf
    <3>4. QED
      BY <1>0, <2>1, <2>2, <3>1, <3>2, <3>3, OthersKeep
  <2>5. NotPassed(r)' = NotPassed(r)
    BY <2>4 DEF NotPassed
  <2>6. \A u : Combined(u, r)' = Combined(u, r) /\ Merged(u, r)' = Merged(u, r)
    BY <1>0 DEF Combined, Merged
  <2>7. Combined(t, r) = ThreadsOf(n)
    <3>1. /\ Combined(t, r) \subseteq ThreadsOf(n)
          /\ reduced[t] = Cardinality(Combined(t, r))
      BY <1>0, <1>p DEF Round, PayloadInv, GatherPayload
    <3>2. /\ Cardinality(Combined(t, r)) \in Nat /\ Cardinality(Combined(t, r)) <= Size(n)
          /\ Size(n) \in Nat
          /\ Cardinality(Combined(t, r)) = Size(n) => Combined(t, r) = ThreadsOf(n)
      BY <1>p, <3>1, NodeCards
    <3>3. QED
      BY <1>2, <3>1, <3>2
  <2>8. \A i \in Slots : entry[n][i] = Null
    <3>1. ASSUME NEW i \in Slots, entry[n][i] # Null PROVE FALSE
      <4>1. PICK u \in ThreadsOf(n) : entry[n][i] = <<u, r>>
        BY <1>p, <3>1 DEF Round, EntryInv, EntryHolds
      <4>2. PICK l \in ThreadsOf(n) : pc[l] = "gather" /\ entry[n][i][1] \notin Combined(l, r)
        BY <1>p, <3>1 DEF Round, EntryInv, EntryHolds
      <4>3. l = t
        BY <1>p, <2>2, <4>2 DEF Round, LeaderInv, OneLeader, Leads
      <4>4. QED
        BY <2>7, <4>1, <4>2, <4>3
    <3>2. QED
      BY <3>1
  <2>a. Types'
    <3>1. VarTypes'
      BY <1>0, <1>2 DEF Types, VarTypes, PCs
    <3>2. ScanTypes' /\ BagTypes'
      BY <1>0, <1>2, <2>1 DEF Types, ScanTypes, BagTypes
    <3>3. QED
      BY <3>1, <3>2 DEF Types
  <2>b. InRound(r)'
    BY <1>0, <2>1, <2>2 DEF Round, InRound
  <2>c. LeaderInv(r)'
    <3>1. OneLeader' /\ OneGlobalLeader' /\ NodeStage(r)'
      BY <2>3, <2>4, Placed DEF Round, LeaderInv, OneLeader, OneGlobalLeader, NodeStage
    <3>2. Finishing(r)' /\ GlobalStage(r)'
      BY <1>0, <2>1, <2>3, <2>4, Placed DEF Round, LeaderInv, Finishing, GlobalStage
    <3>3. QED
      BY <3>1, <3>2 DEF LeaderInv
  <2>d. CountInv(r)'
    <3>1. Rearmed(r)' <=> Rearmed(r)
      BY <1>0, <2>1 DEF Rearmed
    <3>2. QED
      BY <1>0, <2>4, <2>5, <3>1 DEF Round, CountInv, NodeCount, GlobalCount
  <2>e. EntryInv(r)'
    <3>1. \A m \in Nodes : m # n => t \notin ThreadsOf(m)
      BY <1>p, Placed
    <3>2. EntryHolds(r)'
      <4>1. ASSUME NEW m \in Nodes, NEW i \in Slots, entry[m][i] # Null
            PROVE  /\ \E u \in ThreadsOf(m) : entry[m][i] = <<u, r>> /\ Posted(u, r)
                                              /\ payload[u][r] = BagOf({u}, r)
                   /\ \A j \in Slots : entry[m][j] = entry[m][i] => j = i
                   /\ \E u \in ThreadsOf(m) \ {t} :
                        pc[u] = "gather" /\ entry[m][i][1] \notin Combined(u, r)
        BY <2>8, <3>1, <4>1 DEF Round, EntryInv, EntryHolds
      <4>2. \A m \in Nodes : \A u \in ThreadsOf(m) :
              u \in Threads /\ (u # t /\ pc[u] = "gather" => pc'[u] = "gather")
        BY <2>1, Placed
      <4>3. ASSUME NEW m \in Nodes, NEW i \in Slots, entry[m][i] # Null
            PROVE  /\ \E u \in ThreadsOf(m) : entry[m][i] = <<u, r>> /\ Posted(u, r)'
                                              /\ payload[u][r] = BagOf({u}, r)
                   /\ \A j \in Slots : entry[m][j] = entry[m][i] => j = i
                   /\ \E u \in ThreadsOf(m) : pc'[u] = "gather" /\ entry[m][i][1] \notin Combined(u, r)'
        <5>1. \E u \in ThreadsOf(m) : pc'[u] = "gather" /\ entry[m][i][1] \notin Combined(u, r)
          BY <4>1, <4>2, <4>3
        <5>2. \E u \in ThreadsOf(m) : entry[m][i] = <<u, r>> /\ Posted(u, r)'
                                      /\ payload[u][r] = BagOf({u}, r)
          BY <2>3, <4>1, <4>2, <4>3, ZenonT(60)
        <5>3. QED
          BY <2>6, <4>1, <4>3, <5>1, <5>2
      <4>4. QED
        BY <1>0, <4>3 DEF EntryHolds
    <3>3. OthersPosted(r)'
      <4>1. \A u \in ThreadsOf(n) \ {t} : Posted(u, r)
        BY <1>0, <2>7 DEF Round, PayloadInv, GatherPayload
      <4>2. QED
        BY <2>1, <2>3, <4>1, Placed DEF Round, EntryInv, OthersPosted
    <3>4. \A u \in Threads : pc[u] \in {"cleanup", "return"} => pc'[u] = pc[u]
      BY <1>0, <2>1
    <3>5. \A u \in Threads : LeadsAll(u)' => LeadsAll(u) /\ pc'[u] = pc[u]
      BY <2>1, <2>2, <2>3
    <3>6. GlobalEntryHolds(r)'
      BY <1>0, <2>4, <2>6, <3>4, <3>5, Placed DEF Round, EntryInv, GlobalEntryHolds
    <3>7. MergedPosted(r)'
      BY <2>4, <2>6, <3>5 DEF Round, EntryInv, MergedPosted, Merged
    <3>8. QED
      BY <3>2, <3>3, <3>6, <3>7 DEF EntryInv
  <2>f. PayloadInv(r)'
    <3>1. Fresh(r)'
      BY <1>0, <2>1, <2>3 DEF Round, PayloadInv, Fresh
    <3>2. \A u \in Threads : pc'[u] = "gather" => pc[u] = "gather"
      BY <2>1
    <3>3. GatherPayload(r)'
      BY <1>0, <2>3, <2>6, <3>2, Placed, ZenonT(60) DEF Round, PayloadInv, GatherPayload, Combined
    <3>4. payload[t][r] = BagOf(ThreadsOf(n), r)
      BY <1>0, <2>7 DEF Round, PayloadInv, GatherPayload
    <3>5. NodePayload(r)'
      BY <1>0, <2>1, <3>4 DEF Round, PayloadInv, NodePayload
    <3>6. \A u \in Threads : LeadsAll(u)' => LeadsAll(u) /\ pc'[u] = pc[u]
      BY <2>1, <2>2, <2>3
    <3>7. GlobalPayload(r)'
      BY <1>0, <2>6, <3>6 DEF Round, PayloadInv, GlobalPayload
    <3>8. Results(r)'
      BY <1>0 DEF Round, PayloadInv, Results
    <3>9. QED
      BY <3>1, <3>3, <3>5, <3>7, <3>8 DEF PayloadInv
  <2>g. QED
    BY <2>a, <2>b, <2>c, <2>d, <2>e, <2>f DEF Round
<1>3. QED
  BY <1>0, <1>1, <1>2

LEMMA GatherEntryStep ==
  ASSUME Types, NEW r \in Reductions, Round(r),
         NEW t \in Threads, GatherEntry(t)
  PROVE  Types' /\ Round(r)'
<1> DEFINE n == NodeOf[t]
           i == CHOOSE j \in seen[t] : \A k \in seen[t] : j <= k
           p == entry[n][i]
<1>0. /\ pc[t] = "gather" /\ seen[t] # {} /\ seen' = [seen EXCEPT ![t] = @ \ {i}]
      /\ IF p = Null THEN UNCHANGED <<entry, reduced, payload>>
         ELSE /\ payload' = [payload EXCEPT ![t][red[t]] = @ (+) payload[p[1]][p[2]]]
              /\ entry' = [entry EXCEPT ![n][i] = Null]
              /\ reduced' = [reduced EXCEPT ![t] = @ + 1]
      /\ UNCHANGED <<remaining, gremaining, gentry, pc, red, ticket, result>>
  BY DEF GatherEntry, Reduce
<1>p. n \in Nodes /\ t \in ThreadsOf(n) /\ ThreadsOf(n) \subseteq Threads
  BY Placed
<1>i. i \in Slots
  <2>1. seen[t] \in SUBSET Slots
    BY <1>0 DEF Types, ScanTypes
  <2>2. QED
    BY <1>0, <2>1, LeastExists
<1> HIDE DEF i
<1>s. ScanTypes'
  <2>1. \A u \in Threads : seen'[u] \subseteq seen[u]
    BY <1>0 DEF Types, ScanTypes
  <2>2. QED
    BY <1>0, <2>1 DEF Types, ScanTypes
<1>1. CASE p = Null
  <2>1. Types'
    BY <1>0, <1>1, <1>s DEF Types, VarTypes, BagTypes
  <2>2. QED
    BY <1>0, <1>1, <2>1, RoundKept
<1>2. CASE p # Null
  <2>1. red[t] = r /\ Leads(t) /\ ~LeadsAll(t) /\ ~Out(t, r) /\ ~Posted(t, r)
    BY <1>0, Categories DEF Leads, LeadsAll, Out, Posted
  <2>2. PICK u \in ThreadsOf(n) : p = <<u, r>> /\ Posted(u, r) /\ payload[u][r] = BagOf({u}, r)
    BY <1>p, <1>i, <1>2 DEF Round, EntryInv, EntryHolds
  <2>3. /\ \A j \in Slots : entry[n][j] = p => j = i
        /\ u \notin Combined(t, r) /\ u \in Threads /\ u # t
    <3>1. PICK l \in ThreadsOf(n) : pc[l] = "gather" /\ p[1] \notin Combined(l, r)
      BY <1>p, <1>i, <1>2 DEF Round, EntryInv, EntryHolds
    <3>2. l = t
      BY <1>p, <2>1, <3>1 DEF Round, LeaderInv, OneLeader, Leads
    <3>3. \A j \in Slots : entry[n][j] = p => j = i
      BY <1>p, <1>i, <1>2 DEF Round, EntryInv, EntryHolds
    <3>4. u \in Threads /\ u # t
      BY <1>p, <2>1, <2>2
    <3>5. QED
      BY <2>2, <3>1, <3>2, <3>3, <3>4
  <2>4. /\ \A v \in Threads : (Out(v, r)' <=> Out(v, r)) /\ (LeadsAll(v)' <=> LeadsAll(v))
                              /\ (Leads(v)' <=> Leads(v)) /\ (Posted(v, r)' <=> Posted(v, r))
        /\ \A m \in Nodes : /\ NodeDone(m, r)' <=> NodeDone(m, r)
                            /\ NodePassed(m, r)' <=> NodePassed(m, r)
                            /\ NodePosted(m, r)' <=> NodePosted(m, r)
                            /\ OutOf(m, r)' = OutOf(m, r)
        /\ NotPassed(r)' = NotPassed(r)
    BY <1>0, NobodyMoves
  <2> DEFINE C == Combined(t, r)
  <2>5. payload[t][r] = BagOf(C, r) /\ t \in C /\ reduced[t] = Cardinality(C)
        /\ \A v \in C \ {t} : v \in ThreadsOf(n) /\ Posted(v, r)
    BY <1>0 DEF Round, PayloadInv, GatherPayload
  <2>6. /\ payload' = [payload EXCEPT ![t][r] = BagOf(C \cup {u}, r)]
        /\ payload'[t][r] = BagOf(C \cup {u}, r)
        /\ DOMAIN payload' = Threads /\ DOMAIN payload'[t] = Reductions
        /\ \A v \in Threads \ {t} : payload'[v] = payload[v]
        /\ \A q \in Reductions \ {r} : payload'[t][q] = payload[t][q]
    <3>1. payload[t][r] (+) payload[u][r] = BagOf(C \cup {u}, r)
      BY <2>2, <2>3, <2>5, AddBags
    <3>2. payload' = [payload EXCEPT ![t][r] = payload[t][r] (+) payload[u][r]]
      BY <1>0, <1>2, <2>1, <2>2
    <3>3. QED
      BY <3>1, <3>2 DEF Types, BagTypes
  <2>7. /\ Combined(t, r)' = C \cup {u}
        /\ \A v \in Threads \ {t} : Combined(v, r)' = Combined(v, r) /\ Merged(v, r)' = Merged(v, r)
    <3>1. C \cup {u} \in SUBSET Threads
      BY <2>3 DEF Combined
    <3>2. DOMAIN payload'[t][r] = (C \cup {u}) \X {r}
      BY <2>6, BagDomain
    <3>3. \A v : <<v, r>> \in DOMAIN payload'[t][r] <=> v \in C \cup {u}
      BY <3>2
    <3>4. Combined(t, r)' = C \cup {u}
      BY <3>1, <3>3 DEF Combined
    <3>5. \A v \in Threads \ {t} : Combined(v, r)' = Combined(v, r)
      BY <2>6 DEF Combined
    <3>6. QED
      BY <3>4, <3>5 DEF Merged
  <2>8. reduced'[t] = Cardinality(C \cup {u}) /\ reduced' \in [Threads -> Nat]
        /\ \A v \in Threads \ {t} : reduced'[v] = reduced[v]
    <3>1. C \subseteq ThreadsOf(n)
      BY <1>p, <2>5
    <3>2. IsFiniteSet(C)
      BY <1>p, <3>1, NodeCards
    <3>3. Cardinality(C \cup {u}) = Cardinality(C) + 1
      BY <2>3, <3>2, FS_AddElement
    <3>4. reduced' = [reduced EXCEPT ![t] = @ + 1] /\ reduced \in [Threads -> Nat]
      BY <1>0, <1>2 DEF Types, VarTypes
    <3>5. QED
      BY <2>5, <3>3, <3>4
  <2>9. /\ entry' = [entry EXCEPT ![n][i] = Null]
        /\ entry' \in [Nodes -> [Slots -> Pointers \cup {Null}]]
        /\ entry'[n][i] = Null
        /\ \A m \in Nodes, j \in Slots : m # n \/ j # i => entry'[m][j] = entry[m][j]
    <3>1. entry \in [Nodes -> [Slots -> Pointers \cup {Null}]]
      BY DEF Types, VarTypes
    <3>2. entry' = [entry EXCEPT ![n][i] = Null]
      BY <1>0, <1>2
    <3>3. QED
      BY <1>p, <1>i, <3>1, <3>2
  <2>a. Types'
    <3>1. VarTypes'
      BY <1>0, <2>8, <2>9 DEF Types, VarTypes
    <3>2. BagTypes'
      BY <1>0, <2>6 DEF Types, BagTypes
    <3>3. QED
      BY <1>s, <3>1, <3>2 DEF Types
  <2>b. InRound(r)'
    BY <1>0 DEF Round, InRound
  <2>c. LeaderInv(r)'
    <3>1. OneLeader' /\ OneGlobalLeader' /\ NodeStage(r)'
      BY <2>4, Placed DEF Round, LeaderInv, OneLeader, OneGlobalLeader, NodeStage
    <3>2. Finishing(r)' /\ GlobalStage(r)'
      BY <1>0, <2>4, Placed DEF Round, LeaderInv, Finishing, GlobalStage
    <3>3. QED
      BY <3>1, <3>2 DEF LeaderInv
  <2>d. CountInv(r)'
    BY <1>0, <2>4 DEF Round, CountInv, NodeCount, GlobalCount, Rearmed
  <2>e. EntryInv(r)'
    <3>1. EntryHolds(r)'
      <4>1. ASSUME NEW m \in Nodes, NEW j \in Slots, entry'[m][j] # Null
            PROVE  /\ \E v \in ThreadsOf(m) : entry'[m][j] = <<v, r>> /\ Posted(v, r)'
                                              /\ payload'[v][r] = BagOf({v}, r)
                   /\ \A k \in Slots : entry'[m][k] = entry'[m][j] => k = j
                   /\ \E l \in ThreadsOf(m) :
                        pc'[l] = "gather" /\ entry'[m][j][1] \notin Combined(l, r)'
        <5>1. (m # n \/ j # i) /\ entry'[m][j] = entry[m][j] /\ entry[m][j] # Null
          BY <2>9, <4>1
        <5>2. PICK v \in ThreadsOf(m) : entry[m][j] = <<v, r>> /\ Posted(v, r)
                                        /\ payload[v][r] = BagOf({v}, r)
          BY <5>1 DEF Round, EntryInv, EntryHolds
        <5>3. v \in Threads \ {t} /\ v # u
          <6>1. v \in Threads /\ NodeOf[v] = m
            BY <5>2, Placed
          <6>2. v # u
            BY <2>2, <2>3, <5>1, <5>2, <6>1, Placed
          <6>3. QED
            BY <2>1, <5>2, <6>1, <6>2
        <5>4. \A k \in Slots : entry'[m][k] = entry'[m][j] => k = j
          <6>1. \A k \in Slots : entry[m][k] = entry[m][j] => k = j
            BY <5>1 DEF Round, EntryInv, EntryHolds
          <6>2. QED
            BY <2>9, <4>1, <5>1, <6>1
        <5>5. PICK l \in ThreadsOf(m) : pc[l] = "gather" /\ entry[m][j][1] \notin Combined(l, r)
          BY <5>1 DEF Round, EntryInv, EntryHolds
        <5>6. entry[m][j][1] = v /\ v \notin Combined(l, r)'
          <6>1. entry[m][j][1] = v /\ l \in Threads
            BY <5>2, <5>5, Placed
          <6>2. QED
            BY <2>7, <5>3, <5>5, <6>1
        <5>7. payload'[v][r] = BagOf({v}, r) /\ Posted(v, r)' /\ pc'[l] = "gather"
          BY <1>0, <2>4, <2>6, <5>2, <5>3, <5>5
        <5>8. QED
          BY <5>1, <5>2, <5>4, <5>5, <5>6, <5>7
      <4>2. QED
        BY <4>1 DEF EntryHolds
    <3>2. OthersPosted(r)'
      BY <1>0, <2>4, Placed DEF Round, EntryInv, OthersPosted
    <3>3. \A v \in Threads : LeadsAll(v) \/ pc[v] \in {"cleanup", "return"} =>
             v # t
      BY <1>0, <2>1
    <3>4. GlobalEntryHolds(r)'
      <4>1. ASSUME NEW m \in Nodes, gentry[m] # Null
            PROVE  /\ \E v \in ThreadsOf(m) : gentry[m] = <<v, r>> /\ red[v] = r
                               /\ pc[v] \in {"cleanup", "return"}
                               /\ payload'[v][r] = BagOf(ThreadsOf(m), r)
                   /\ NodePosted(m, r)'
                   /\ \A v \in Threads : LeadsAll(v) => pc[v] = "ggather" /\ m \notin Merged(v, r)'
        BY <2>4, <2>6, <2>7, <3>3, <4>1, Placed DEF Round, EntryInv, GlobalEntryHolds
      <4>2. QED
        BY <1>0, <2>4, <4>1 DEF Round, EntryInv, GlobalEntryHolds
    <3>5. MergedPosted(r)'
      BY <2>4, <2>7, <3>3 DEF Round, EntryInv, MergedPosted, Merged
    <3>6. QED
      BY <3>1, <3>2, <3>4, <3>5 DEF EntryInv
  <2>f. PayloadInv(r)'
    <3>1. Fresh(r)'
      <4>1. ASSUME NEW v \in Threads, NEW q \in Reductions,
                   q > r \/ (q = r /\ (Out(v, r) \/ pc[v] = "post"))
            PROVE  payload'[v][q] = BagOf({v}, q)
        <5>1. payload[v][q] = BagOf({v}, q)
          BY <4>1 DEF Round, PayloadInv, Fresh
        <5>2. v # t \/ q # r
          BY <1>0, <2>1, <4>1 DEF Reductions
        <5>3. QED
          BY <2>6, <5>1, <5>2
      <4>2. QED
        BY <1>0, <2>4, <4>1 DEF Fresh
    <3>2. GatherPayload(r)'
      <4>1. ASSUME NEW v \in Threads \ {t}, pc[v] = "gather"
            PROVE  /\ payload[v][r] = BagOf(Combined(v, r), r)
                   /\ v \in Combined(v, r)
                   /\ \A w \in Combined(v, r) \ {v} : w \in ThreadsOf(NodeOf[v]) /\ Posted(w, r)'
                   /\ reduced[v] = Cardinality(Combined(v, r))
        BY <2>4, <4>1, Placed DEF Round, PayloadInv, GatherPayload
      <4>2. \A w \in (C \cup {u}) \ {t} : w \in ThreadsOf(n) /\ Posted(w, r)'
        BY <2>2, <2>3, <2>4, <2>5, Placed
      <4>3. ASSUME NEW v \in Threads, pc'[v] = "gather"
            PROVE  /\ payload'[v][r] = BagOf(Combined(v, r)', r)
                   /\ v \in Combined(v, r)'
                   /\ \A w \in Combined(v, r)' \ {v} : w \in ThreadsOf(NodeOf[v]) /\ Posted(w, r)'
                   /\ reduced'[v] = Cardinality(Combined(v, r)')
        <5>1. CASE v = t
          BY <2>5, <2>6, <2>7, <2>8, <4>2, <5>1
        <5>2. CASE v # t
          <6>1. /\ payload'[v] = payload[v] /\ reduced'[v] = reduced[v]
                /\ Combined(v, r)' = Combined(v, r) /\ pc[v] = "gather"
            BY <1>0, <2>6, <2>7, <2>8, <4>3, <5>2
          <6>2. QED
            BY <4>1, <5>2, <6>1
        <5>3. QED
          BY <5>1, <5>2
      <4>4. QED
        BY <4>3 DEF GatherPayload
    <3>3. NodePayload(r)'
      BY <1>0, <2>6 DEF Round, PayloadInv, NodePayload
    <3>4. GlobalPayload(r)'
      BY <1>0, <2>1, <2>4, <2>6, <2>7, <2>8, SMTT(60) DEF Round, PayloadInv, GlobalPayload
    <3>5. Results(r)'
      BY <1>0 DEF Round, PayloadInv, Results
    <3>6. QED
      BY <3>1, <3>2, <3>3, <3>4, <3>5 DEF PayloadInv
  <2>g. QED
    BY <2>a, <2>b, <2>c, <2>d, <2>e, <2>f DEF Round
<1>3. QED
  BY <1>1, <1>2

-----------------------------------------------------------------------------
(* The node leaders                                                        *)

\* A leader that has not posted globally is alone in its node's way: nobody
\* has finished the reduction or merged the node.
LEMMA Unposted ==
  ASSUME Types, NEW r \in Reductions, Round(r), NEW t \in Threads, pc[t] \in {"select", "gpost"}
  PROVE  /\ red[t] = r /\ Leads(t) /\ ~LeadsAll(t) /\ ~Out(t, r) /\ ~Posted(t, r)
         /\ ~NodeDone(NodeOf[t], r) /\ ~NodePosted(NodeOf[t], r)
         /\ NodePassed(NodeOf[t], r) <=> pc[t] = "gpost"
         /\ result[r] = EmptyBag /\ ~Rearmed(r)
         /\ gentry[NodeOf[t]] = Null
         /\ \A u \in Threads : LeadsAll(u) => pc[u] = "ggather" /\ NodeOf[t] \notin Merged(u, r)
<1> DEFINE n == NodeOf[t]
<1>1. n \in Nodes /\ t \in ThreadsOf(n) /\ ThreadsOf(n) \subseteq Threads
  BY Placed
<1>2. red[t] = r /\ Leads(t) /\ ~LeadsAll(t) /\ ~Out(t, r) /\ ~Posted(t, r)
  BY Categories DEF Leads, LeadsAll, Out, Posted
<1>3. ~NodeDone(n, r)
  BY <1>1 DEF NodeDone
<1>4. \A u \in ThreadsOf(n) : Leads(u) => u = t
  BY <1>1, <1>2 DEF Round, LeaderInv, OneLeader
<1>5. ~NodePosted(n, r)
  BY <1>1, <1>3, <1>4 DEF NodePosted, Leads
<1>6. NodePassed(n, r) <=> pc[t] = "gpost"
  BY <1>1, <1>2, <1>3, <1>4 DEF NodePassed
<1>7. result[r] = EmptyBag
  BY <1>1, <1>5 DEF Round, LeaderInv, GlobalStage
<1>8. ASSUME NEW u \in Threads, LeadsAll(u) PROVE pc[u] = "ggather" /\ n \notin Merged(u, r)
  <2>1. NodeOf[u] # n
    <3>1. pc[u] = "finish" => NodeDone(NodeOf[u], r)
      BY DEF Round, LeaderInv, Finishing
    <3>2. pc[u] # "finish" => Leads(u)
      BY <1>8 DEF Leads, LeadsAll
    <3>3. u \in ThreadsOf(NodeOf[u]) /\ u # t
      BY <1>2, <1>8, Placed
    <3>4. QED
      BY <1>3, <1>4, <3>1, <3>2, <3>3
  <2>2. n \notin Merged(u, r)
    BY <1>1, <1>5, <1>8, <2>1 DEF Round, EntryInv, MergedPosted
  <2>3. pc[u] # "ggather" => n \in Merged(u, r)
    BY <1>1, <1>8 DEF Round, PayloadInv, GlobalPayload, Merged
  <2>4. QED
    BY <2>2, <2>3
<1>9. ~Rearmed(r)
  BY <1>7, <1>8 DEF Rearmed, LeadsAll
<1>10. gentry[n] = Null
  BY <1>1, <1>5 DEF Round, EntryInv, GlobalEntryHolds
<1>11. QED
  BY <1>2, <1>3, <1>5, <1>6, <1>7, <1>8, <1>9, <1>10

LEMMA SelectGlobalLeaderStep ==
  ASSUME Types, NEW r \in Reductions, Round(r),
         NEW t \in Threads, SelectGlobalLeader(t)
  PROVE  Types' /\ Round(r)'
<1> DEFINE n == NodeOf[t]
           first == gremaining = Cardinality(Nodes)
<1>0. /\ pc[t] = "select" /\ gremaining' = gremaining - 1
      /\ first => pc' = [pc EXCEPT ![t] = "ggather"] /\ reduced' = [reduced EXCEPT ![t] = 1]
      /\ ~first => pc' = [pc EXCEPT ![t] = "gpost"] /\ reduced' = reduced
      /\ UNCHANGED <<remaining, entry, gentry, red, ticket, seen, payload, result>>
  BY DEF SelectGlobalLeader, Goto
<1> HIDE DEF first
<1>p. n \in Nodes /\ t \in ThreadsOf(n) /\ ThreadsOf(n) \subseteq Threads
  BY Placed
<1>1. /\ red[t] = r /\ Leads(t) /\ ~LeadsAll(t) /\ ~Out(t, r) /\ ~Posted(t, r)
      /\ ~NodeDone(n, r) /\ ~NodePosted(n, r) /\ ~NodePassed(n, r)
      /\ result[r] = EmptyBag /\ ~Rearmed(r)
      /\ \A u \in Threads : LeadsAll(u) => pc[u] = "ggather" /\ n \notin Merged(u, r)
  BY <1>0, Unposted
<1>2. /\ pc'[t] \in {"ggather", "gpost"} /\ (first <=> pc'[t] = "ggather")
      /\ \A u \in Threads \ {t} : pc'[u] = pc[u] /\ reduced'[u] = reduced[u]
  BY <1>0 DEF Types, VarTypes
<1>3. /\ ~NodeDone(n, r)' /\ ~Out(t, r)' /\ (LeadsAll(t)' <=> first) /\ Leads(t)' /\ ~Posted(t, r)'
  BY <1>0, <1>p, <1>1, <1>2 DEF NodeDone, Out, Leads, LeadsAll, Posted
<1>4. /\ \A u \in Threads : (Posted(u, r)' <=> Posted(u, r)) /\ (Leads(u)' <=> Leads(u))
                            /\ (Out(u, r)' <=> Out(u, r))
      /\ \A u \in Threads \ {t} : LeadsAll(u)' <=> LeadsAll(u)
  BY <1>0, <1>1, <1>2, <1>3, OthersKeep
<1>5. /\ \A m \in Nodes : /\ NodeDone(m, r)' <=> NodeDone(m, r)
                          /\ NodePosted(m, r)' <=> NodePosted(m, r)
                          /\ OutOf(m, r)' = OutOf(m, r)
                          /\ NodePassed(m, r)' <=> NodePassed(m, r) \/ m = n
  <2>1. NodePosted(n, r)' <=> NodePosted(n, r)
    BY <1>0, <1>p, <1>1, <1>2, <1>3 DEF NodePosted
  <2>2. NodePassed(n, r)'
    BY <1>p, <1>2, <1>3 DEF NodePassed
  <2>3. OutOf(n, r)' = OutOf(n, r)
    BY <1>p, <1>4 DEF OutOf
  <2>4. QED
    BY <1>0, <1>1, <1>2, <1>3, <2>1, <2>2, <2>3, OthersKeep
<1>6. NotPassed(r)' = NotPassed(r) \ {n} /\ n \in NotPassed(r)
  BY <1>p, <1>1, <1>5 DEF NotPassed
<1>7. /\ gremaining = Cardinality(NotPassed(r)) /\ gremaining \in Nat \ {0}
      /\ Cardinality(NotPassed(r)') = gremaining - 1
      /\ first <=> NotPassed(r) = Nodes
  <2>1. NotPassed(r) \in SUBSET Nodes
    BY DEF NotPassed
  <2>2. gremaining = Cardinality(NotPassed(r))
    BY <1>1 DEF Round, CountInv, GlobalCount
  <2>3. /\ IsFiniteSet(NotPassed(r)) /\ Cardinality(NotPassed(r)) \in Nat
        /\ Cardinality(NotPassed(r)) = Cardinality(Nodes) <=> NotPassed(r) = Nodes
    BY <2>1, GlobalCards
  <2>4. /\ Cardinality(NotPassed(r)') = Cardinality(NotPassed(r)) - 1
        /\ Cardinality(NotPassed(r)) # 0
    BY <1>6, <2>3, FS_RemoveElement, FS_EmptySet, ZenonT(60)
  <2>5. QED
    BY <2>2, <2>3, <2>4 DEF first
<1>8. first => /\ \A m \in Nodes : ~NodePassed(m, r) /\ gentry[m] = Null
               /\ \A u \in Threads : ~LeadsAll(u)
  <2>1. ASSUME first, NEW m \in Nodes PROVE ~NodePassed(m, r) /\ gentry[m] = Null
    <3>1. ~NodePassed(m, r) /\ ~NodePosted(m, r)
      BY <1>p, <1>7, <2>1, Categories DEF NotPassed
    <3>2. QED
      BY <3>1 DEF Round, EntryInv, GlobalEntryHolds
  <2>2. QED
    BY <2>1, Categories, Placed
<1>9. ~first => \E u \in Threads \ {t} : LeadsAll(u)
  <2>1. ~first => \E m \in Nodes : NodePassed(m, r)
    BY <1>7 DEF NotPassed
  <2>2. QED
    BY <1>1, <2>1 DEF Round, LeaderInv, GlobalStage
<1>10. \A u : Combined(u, r)' = Combined(u, r) /\ Merged(u, r)' = Merged(u, r)
  BY <1>0 DEF Combined, Merged
<1>11. /\ payload[t][r] = BagOf(ThreadsOf(n), r)
       /\ Combined(t, r) = ThreadsOf(n) /\ Merged(t, r) = {n}
  <2>1. payload[t][r] = BagOf(ThreadsOf(n), r)
    BY <1>0 DEF Round, PayloadInv, NodePayload
  <2>2. Combined(t, r) = ThreadsOf(n)
    BY <1>p, <2>1, CombinedIs
  <2>3. \A m \in Nodes : ThreadsOf(m) \subseteq ThreadsOf(n) => m = n
    BY Placed
  <2>4. QED
    BY <1>p, <2>1, <2>2, <2>3 DEF Merged
<1>a. Types'
  <2>1. pc \in [Threads -> PCs] /\ reduced \in [Threads -> Nat]
    BY DEF Types, VarTypes
  <2>2. pc' \in [Threads -> PCs] /\ reduced' \in [Threads -> Nat] /\ gremaining' \in Nat
    BY <1>0, <1>7, <2>1 DEF PCs
  <2>3. VarTypes'
    BY <1>0, <2>2 DEF Types, VarTypes
  <2>4. ScanTypes' /\ BagTypes'
    BY <1>0, <1>2 DEF Types, ScanTypes, BagTypes
  <2>5. QED
    BY <2>3, <2>4 DEF Types
<1>b. InRound(r)'
  BY <1>0, <1>1, <1>2 DEF Round, InRound
<1>c. LeaderInv(r)'
  <2>1. OneLeader' /\ NodeStage(r)'
    BY <1>4, <1>5, Placed DEF Round, LeaderInv, OneLeader, NodeStage
  <2>2. OneGlobalLeader'
    <3>1. ASSUME NEW u \in Threads, NEW v \in Threads, LeadsAll(u)', LeadsAll(v)', u # v
          PROVE  FALSE
      BY <1>3, <1>4, <1>8, <3>1 DEF Round, LeaderInv, OneGlobalLeader
    <3>2. QED
      BY <3>1 DEF OneGlobalLeader
  <2>3. Finishing(r)'
    BY <1>2, <1>5, Placed DEF Round, LeaderInv, Finishing
  <2>4. \E u \in Threads : LeadsAll(u)'
    BY <1>3, <1>4, <1>9
  <2>5. GlobalStage(r)'
    BY <1>0, <1>1, <2>4 DEF GlobalStage
  <2>6. QED
    BY <2>1, <2>2, <2>3, <2>5 DEF LeaderInv
<1>d. CountInv(r)'
  <2>1. NodeCount(r)'
    BY <1>0, <1>5 DEF Round, CountInv, NodeCount
  <2>2. ~Rearmed(r)'
    BY <1>0, <1>1, <1>2 DEF Rearmed
  <2>3. QED
    BY <1>0, <1>7, <2>1, <2>2 DEF CountInv, GlobalCount
<1>e. EntryInv(r)'
  <2>1. EntryHolds(r)'
    <3>1. \A u \in Threads : pc[u] = "gather" => pc'[u] = "gather"
      BY <1>0, <1>2
    <3>2. QED
      BY <1>0, <1>4, <1>10, <3>1, EntryKept DEF Round, EntryInv
  <2>2. OthersPosted(r)'
    BY <1>0, <1>2, <1>4, Placed DEF Round, EntryInv, OthersPosted
  <2>3. GlobalEntryHolds(r)'
    <3>1. ASSUME NEW m \in Nodes, gentry[m] # Null
          PROVE  /\ \E u \in ThreadsOf(m) : gentry[m] = <<u, r>> /\ red[u] = r
                                            /\ pc'[u] \in {"cleanup", "return"}
                                            /\ payload[u][r] = BagOf(ThreadsOf(m), r)
                 /\ NodePosted(m, r)'
                 /\ \A u \in Threads : LeadsAll(u)' => pc'[u] = "ggather" /\ m \notin Merged(u, r)
      <4>1. ~first
        BY <1>8, <3>1
      <4>2. \A u \in Threads : LeadsAll(u)' => LeadsAll(u) /\ pc'[u] = pc[u]
        BY <1>2, <1>3, <1>4, <4>1
      <4>3. \A u \in Threads : pc[u] \in {"cleanup", "return"} => pc'[u] = pc[u]
        BY <1>0, <1>2
      <4>4. QED
        BY <1>5, <3>1, <4>2, <4>3, Placed DEF Round, EntryInv, GlobalEntryHolds
    <3>2. QED
      BY <1>0, <1>1, <1>10, <3>1 DEF GlobalEntryHolds
  <2>4. MergedPosted(r)'
    BY <1>4, <1>5, <1>10, <1>11 DEF Round, EntryInv, MergedPosted, Merged
  <2>5. QED
    BY <2>1, <2>2, <2>3, <2>4 DEF EntryInv
<1>f. PayloadInv(r)'
  <2>1. Fresh(r)'
    BY <1>0, <1>2, <1>4 DEF Round, PayloadInv, Fresh
  <2>2. \A u \in Threads : pc'[u] = "gather" => pc[u] = "gather" /\ reduced'[u] = reduced[u]
    BY <1>2
  <2>3. GatherPayload(r)'
    BY <1>0, <1>4, <2>2, GatherKept DEF Round, PayloadInv
  <2>4. NodePayload(r)'
    BY <1>0, <1>2, <1>11 DEF Round, PayloadInv, NodePayload
  <2>5. GlobalPayload(r)'
    <3>1. ASSUME NEW u \in Threads, LeadsAll(u)'
          PROVE  /\ payload[u][r] = BagOf(Combined(u, r), r)
                 /\ \A v \in Combined(u, r) : ThreadsOf(NodeOf[v]) \subseteq Combined(u, r)
                 /\ u \in Combined(u, r)
                 /\ pc'[u] = "ggather" => reduced'[u] = Cardinality(Merged(u, r))
                 /\ pc'[u] # "ggather" => Combined(u, r) = Threads
      <4>1. CASE u = t
        <5>1. first /\ pc'[t] = "ggather" /\ reduced'[t] = 1
          BY <1>0, <1>2, <1>3, <3>1, <4>1 DEF Types, VarTypes
        <5>2. \A v \in ThreadsOf(n) : ThreadsOf(NodeOf[v]) = ThreadsOf(n)
          BY Placed
        <5>3. Cardinality(Merged(t, r)) = 1
          BY <1>11, FS_Singleton
        <5>4. QED
          BY <1>p, <1>11, <4>1, <5>1, <5>2, <5>3
      <4>2. CASE u # t
        BY <1>2, <1>4, <3>1, <4>2 DEF Round, PayloadInv, GlobalPayload
      <4>3. QED
        BY <4>1, <4>2
    <3>2. QED
      BY <1>0, <1>10, <3>1 DEF GlobalPayload
  <2>6. Results(r)'
    BY <1>0 DEF Round, PayloadInv, Results
  <2>7. QED
    BY <2>1, <2>3, <2>4, <2>5, <2>6 DEF PayloadInv
<1>g. QED
  BY <1>a, <1>b, <1>c, <1>d, <1>e, <1>f DEF Round

LEMMA PostGlobalStep ==
  ASSUME Types, NEW r \in Reductions, Round(r),
         NEW t \in Threads, PostGlobal(t)
  PROVE  Types' /\ Round(r)'
<1> DEFINE n == NodeOf[t]
<1>0. /\ pc[t] = "gpost" /\ pc' = [pc EXCEPT ![t] = "cleanup"]
      /\ gentry' = [gentry EXCEPT ![n] = <<t, red[t]>>]
      /\ UNCHANGED <<remaining, gremaining, entry, red, ticket, seen, reduced, payload, result>>
  BY DEF PostGlobal, Goto
<1>p. n \in Nodes /\ t \in ThreadsOf(n) /\ ThreadsOf(n) \subseteq Threads
  BY Placed
<1>1. /\ red[t] = r /\ Leads(t) /\ ~LeadsAll(t) /\ ~Out(t, r) /\ ~Posted(t, r)
      /\ ~NodeDone(n, r) /\ ~NodePosted(n, r) /\ NodePassed(n, r)
      /\ result[r] = EmptyBag
      /\ \A u \in Threads : LeadsAll(u) => pc[u] = "ggather" /\ n \notin Merged(u, r)
  BY <1>0, Unposted
<1>2. pc'[t] = "cleanup" /\ \A u \in Threads \ {t} : pc'[u] = pc[u]
  BY <1>0 DEF Types, VarTypes
<1>3. ~NodeDone(n, r)' /\ ~Out(t, r)' /\ ~LeadsAll(t)' /\ Leads(t)' /\ ~Posted(t, r)'
  BY <1>0, <1>p, <1>1, <1>2 DEF NodeDone, Out, Leads, LeadsAll, Posted
<1>4. \A u \in Threads : /\ (Posted(u, r)' <=> Posted(u, r)) /\ (Leads(u)' <=> Leads(u))
                         /\ (Out(u, r)' <=> Out(u, r)) /\ (LeadsAll(u)' <=> LeadsAll(u))
  BY <1>0, <1>1, <1>2, <1>3, OthersKeep
<1>5. \A m \in Nodes : /\ NodeDone(m, r)' <=> NodeDone(m, r)
                       /\ NodePassed(m, r)' <=> NodePassed(m, r)
                       /\ OutOf(m, r)' = OutOf(m, r)
                       /\ NodePosted(m, r)' <=> NodePosted(m, r) \/ m = n
  <2>1. NodePosted(n, r)' /\ NodePassed(n, r)'
    BY <1>p, <1>2, <1>3 DEF NodePosted, NodePassed
  <2>2. OutOf(n, r)' = OutOf(n, r)
    BY <1>p, <1>4 DEF OutOf
  <2>3. QED
    BY <1>0, <1>1, <1>2, <1>3, <2>1, <2>2, OthersKeep
<1>6. NotPassed(r)' = NotPassed(r)
  BY <1>5 DEF NotPassed
<1>7. \A u : Combined(u, r)' = Combined(u, r) /\ Merged(u, r)' = Merged(u, r)
  BY <1>0 DEF Combined, Merged
<1>8. /\ gentry'[n] = <<t, r>> /\ gentry' \in [Nodes -> Pointers \cup {Null}]
      /\ \A m \in Nodes \ {n} : gentry'[m] = gentry[m]
  <2>1. gentry \in [Nodes -> Pointers \cup {Null}] /\ <<t, r>> \in Pointers
    BY DEF Types, VarTypes, Pointers
  <2>2. QED
    BY <1>0, <1>p, <1>1, <2>1
<1>9. \A u \in Threads : LeadsAll(u)' => LeadsAll(u) /\ pc'[u] = pc[u]
  BY <1>1, <1>2, <1>4
<1>a. Types'
  <2>1. VarTypes'
    BY <1>0, <1>8 DEF Types, VarTypes, PCs
  <2>2. ScanTypes' /\ BagTypes'
    BY <1>0, <1>2 DEF Types, ScanTypes, BagTypes
  <2>3. QED
    BY <2>1, <2>2 DEF Types
<1>b. InRound(r)'
  BY <1>0, <1>1, <1>2 DEF Round, InRound
<1>c. LeaderInv(r)'
  <2>1. OneLeader' /\ OneGlobalLeader' /\ NodeStage(r)'
    BY <1>4, <1>5, Placed DEF Round, LeaderInv, OneLeader, OneGlobalLeader, NodeStage
  <2>2. Finishing(r)'
    BY <1>2, <1>5, Placed DEF Round, LeaderInv, Finishing
  <2>3. GlobalStage(r)'
    BY <1>0, <1>1, <1>4, <1>5 DEF Round, LeaderInv, GlobalStage
  <2>4. QED
    BY <2>1, <2>2, <2>3 DEF LeaderInv
<1>d. CountInv(r)'
  <2>1. Rearmed(r)' <=> Rearmed(r)
    BY <1>0, <1>2 DEF Rearmed
  <2>2. QED
    BY <1>0, <1>5, <1>6, <2>1 DEF Round, CountInv, NodeCount, GlobalCount
<1>e. EntryInv(r)'
  <2>1. EntryHolds(r)'
    <3>1. \A u \in Threads : pc[u] = "gather" => pc'[u] = "gather"
      BY <1>0, <1>2
    <3>2. QED
      BY <1>0, <1>4, <1>7, <3>1, EntryKept DEF Round, EntryInv
  <2>2. OthersPosted(r)'
    BY <1>0, <1>2, <1>4, Placed DEF Round, EntryInv, OthersPosted
  <2>3. GlobalEntryHolds(r)'
    <3>1. ASSUME NEW m \in Nodes, gentry'[m] # Null
          PROVE  /\ \E u \in ThreadsOf(m) : gentry'[m] = <<u, r>> /\ red[u] = r
                                            /\ pc'[u] \in {"cleanup", "return"}
                                            /\ payload[u][r] = BagOf(ThreadsOf(m), r)
                 /\ NodePosted(m, r)'
                 /\ \A u \in Threads : LeadsAll(u)' => pc'[u] = "ggather" /\ m \notin Merged(u, r)
      <4>1. CASE m = n
        <5>1. payload[t][r] = BagOf(ThreadsOf(n), r)
          BY <1>0 DEF Round, PayloadInv, NodePayload
        <5>2. QED
          BY <1>p, <1>1, <1>2, <1>5, <1>8, <1>9, <4>1, <5>1
      <4>2. CASE m # n
        <5>1. gentry'[m] = gentry[m] /\ gentry[m] # Null
          BY <1>8, <3>1, <4>2
        <5>2. \A u \in Threads : pc[u] \in {"cleanup", "return"} => pc'[u] = pc[u]
          BY <1>0, <1>2
        <5>3. QED
          BY <1>5, <1>9, <5>1, <5>2, Placed DEF Round, EntryInv, GlobalEntryHolds
      <4>3. QED
        BY <4>1, <4>2
    <3>2. QED
      BY <1>0, <1>1, <1>7, <3>1 DEF GlobalEntryHolds
  <2>4. MergedPosted(r)'
    BY <1>5, <1>7, <1>9 DEF Round, EntryInv, MergedPosted, Merged
  <2>5. QED
    BY <2>1, <2>2, <2>3, <2>4 DEF EntryInv
<1>f. PayloadInv(r)'
  <2>1. Fresh(r)'
    BY <1>0, <1>2, <1>4 DEF Round, PayloadInv, Fresh
  <2>2. \A u \in Threads : pc'[u] = "gather" => pc[u] = "gather"
    BY <1>2
  <2>3. GatherPayload(r)'
    BY <1>0, <1>4, <2>2, GatherKept DEF Round, PayloadInv
  <2>4. NodePayload(r)'
    BY <1>0, <1>2 DEF Round, PayloadInv, NodePayload
  <2>5. GlobalPayload(r)'
    BY <1>0, <1>7, <1>9 DEF Round, PayloadInv, GlobalPayload
  <2>6. Results(r)'
    BY <1>0 DEF Round, PayloadInv, Results
  <2>7. QED
    BY <2>1, <2>3, <2>4, <2>5, <2>6 DEF PayloadInv
<1>g. QED
  BY <1>a, <1>b, <1>c, <1>d, <1>e, <1>f DEF Round

\* A global leader is alone in that, and while it gathers there is no result.
LEMMA Gathering ==
  ASSUME Types, NEW r \in Reductions, Round(r), NEW t \in Threads, LeadsAll(t)
  PROVE  /\ red[t] = r /\ ~Out(t, r) /\ ~Posted(t, r) /\ NodePassed(NodeOf[t], r)
         /\ result[r] = EmptyBag
         /\ \A u \in Threads : LeadsAll(u) => u = t
         /\ pc[t] # "finish" => Leads(t) /\ ~NodeDone(NodeOf[t], r)
<1>1. NodeOf[t] \in Nodes /\ t \in ThreadsOf(NodeOf[t])
  BY Placed
<1>2. red[t] = r /\ ~Out(t, r) /\ ~Posted(t, r) /\ NodePassed(NodeOf[t], r)
  BY Categories DEF LeadsAll, Posted
<1>3. result[r] = EmptyBag
  BY DEF Round, LeaderInv, GlobalStage
<1>4. \A u \in Threads : LeadsAll(u) => u = t
  BY DEF Round, LeaderInv, OneGlobalLeader
<1>5. pc[t] # "finish" => Leads(t) /\ ~NodeDone(NodeOf[t], r)
  BY <1>1 DEF LeadsAll, Leads, NodeDone
<1>6. QED
  BY <1>2, <1>3, <1>4, <1>5

\* A leader goes on from one step of the global reduction to the next.
LEMMA StillLeads ==
  ASSUME Types, NEW r \in Reductions, Round(r), NEW t \in Threads, LeadsAll(t),
         pc[t] # "finish", UNCHANGED red,
         NEW label \in {"gcleanup", "cleanupFinal"}, pc' = [pc EXCEPT ![t] = label]
  PROVE  /\ pc'[t] = label /\ \A u \in Threads \ {t} : pc'[u] = pc[u]
         /\ \A u \in Threads : /\ (Posted(u, r)' <=> Posted(u, r)) /\ (Leads(u)' <=> Leads(u))
                               /\ (Out(u, r)' <=> Out(u, r)) /\ (LeadsAll(u)' <=> LeadsAll(u))
         /\ \A m \in Nodes : /\ NodeDone(m, r)' <=> NodeDone(m, r)
                             /\ NodePassed(m, r)' <=> NodePassed(m, r)
                             /\ OutOf(m, r)' = OutOf(m, r)
                             /\ NodePosted(m, r)' <=> NodePosted(m, r)
         /\ NotPassed(r)' = NotPassed(r)
<1> DEFINE n == NodeOf[t]
<1>p. n \in Nodes /\ t \in ThreadsOf(n) /\ ThreadsOf(n) \subseteq Threads
  BY Placed
<1>1. pc'[t] = label /\ \A u \in Threads \ {t} : pc'[u] = pc[u]
  BY DEF Types, VarTypes
<1>2. ~Out(t, r) /\ ~Posted(t, r) /\ NodePassed(n, r) /\ Leads(t) /\ ~NodeDone(n, r)
  BY Gathering
<1>3. ~Out(t, r)' /\ ~Posted(t, r)' /\ Leads(t)' /\ LeadsAll(t)' /\ ~NodeDone(n, r)'
  BY <1>p, <1>1, Gathering DEF Out, Posted, Leads, LeadsAll, NodeDone
<1>4. \A u \in Threads : /\ (Posted(u, r)' <=> Posted(u, r)) /\ (Leads(u)' <=> Leads(u))
                         /\ (Out(u, r)' <=> Out(u, r)) /\ (LeadsAll(u)' <=> LeadsAll(u))
  BY <1>1, <1>2, <1>3, OthersKeep
<1>5. NodePassed(n, r)'
  BY <1>p, <1>1, <1>3 DEF NodePassed
<1>6. NodePosted(n, r)' <=> NodePosted(n, r)
  BY <1>p, <1>1, <1>2, <1>3 DEF NodePosted, LeadsAll
<1>7. OutOf(n, r)' = OutOf(n, r)
  BY <1>p, <1>4 DEF OutOf
<1>8. \A m \in Nodes : /\ NodeDone(m, r)' <=> NodeDone(m, r)
                       /\ NodePassed(m, r)' <=> NodePassed(m, r)
                       /\ OutOf(m, r)' = OutOf(m, r)
                       /\ NodePosted(m, r)' <=> NodePosted(m, r)
  BY <1>1, <1>2, <1>3, <1>5, <1>6, <1>7, OthersKeep
<1>9. NotPassed(r)' = NotPassed(r)
  BY <1>8 DEF NotPassed
<1>10. QED
  BY <1>1, <1>4, <1>8, <1>9

\* What such a step keeps of the round when it touches nothing else.
LEMMA LeadsOn ==
  ASSUME Types, NEW r \in Reductions, Round(r), NEW t \in Threads, LeadsAll(t),
         NEW label \in {"gcleanup", "cleanupFinal"}, pc' = [pc EXCEPT ![t] = label],
         pc[t] \in {"ggather", "gcleanup"},
         Combined(t, r) = Threads, \A m \in Nodes : gentry[m] = Null,
         UNCHANGED <<remaining, entry, gentry, red, ticket, seen, reduced, payload, result>>
  PROVE  /\ InRound(r)' /\ LeaderInv(r)' /\ NodeCount(r)' /\ EntryInv(r)' /\ PayloadInv(r)'
         /\ NotPassed(r)' = NotPassed(r)
<1>1. pc'[t] = label /\ \A u \in Threads \ {t} : pc'[u] = pc[u]
  BY StillLeads
<1>2. \A u \in Threads : /\ (Posted(u, r)' <=> Posted(u, r)) /\ (Leads(u)' <=> Leads(u))
                         /\ (Out(u, r)' <=> Out(u, r)) /\ (LeadsAll(u)' <=> LeadsAll(u))
  BY StillLeads
<1>3. /\ \A m \in Nodes : /\ NodeDone(m, r)' <=> NodeDone(m, r)
                          /\ NodePassed(m, r)' <=> NodePassed(m, r)
                          /\ OutOf(m, r)' = OutOf(m, r)
                          /\ NodePosted(m, r)' <=> NodePosted(m, r)
      /\ NotPassed(r)' = NotPassed(r)
  BY StillLeads
<1>4. \A u : Combined(u, r)' = Combined(u, r) /\ Merged(u, r)' = Merged(u, r)
  BY DEF Combined, Merged
<1>5. red[t] = r /\ \A u \in Threads : LeadsAll(u) => u = t
  BY Gathering
<1>a. InRound(r)'
  BY <1>1, <1>5 DEF Round, InRound
<1>b. LeaderInv(r)'
  <2>1. OneLeader' /\ OneGlobalLeader' /\ NodeStage(r)'
    BY <1>2, <1>3, Placed DEF Round, LeaderInv, OneLeader, OneGlobalLeader, NodeStage
  <2>2. Finishing(r)'
    BY <1>1, <1>3, Placed DEF Round, LeaderInv, Finishing
  <2>3. GlobalStage(r)'
    BY <1>2, <1>3 DEF Round, LeaderInv, GlobalStage
  <2>4. QED
    BY <2>1, <2>2, <2>3 DEF LeaderInv
<1>c. NodeCount(r)'
  BY <1>3 DEF Round, CountInv, NodeCount
<1>d. EntryInv(r)'
  <2>1. EntryHolds(r)'
    <3>1. \A u \in Threads : pc[u] = "gather" => pc'[u] = "gather"
      BY <1>1
    <3>2. QED
      BY <1>2, <1>4, <3>1, EntryKept DEF Round, EntryInv
  <2>2. OthersPosted(r)'
    <3>1. pc[t] # "gather"
      OBVIOUS
    <3>2. QED
      BY <1>1, <1>2, <3>1, Placed DEF Round, EntryInv, OthersPosted
  <2>3. GlobalEntryHolds(r)'
    BY DEF GlobalEntryHolds
  <2>4. MergedPosted(r)'
    BY <1>2, <1>3, <1>4 DEF Round, EntryInv, MergedPosted, Merged
  <2>5. QED
    BY <2>1, <2>2, <2>3, <2>4 DEF EntryInv
<1>e. PayloadInv(r)'
  <2>1. Fresh(r)'
    BY <1>1, <1>2 DEF Round, PayloadInv, Fresh
  <2>2. GatherPayload(r)'
    <3>1. \A u \in Threads : pc'[u] = "gather" => pc[u] = "gather"
      BY <1>1
    <3>2. QED
      BY <1>2, <3>1, GatherKept DEF Round, PayloadInv
  <2>3. NodePayload(r)'
    BY <1>1 DEF Round, PayloadInv, NodePayload
  <2>4. GlobalPayload(r)'
    BY <1>1, <1>2, <1>4, <1>5 DEF Round, PayloadInv, GlobalPayload
  <2>5. Results(r)'
    BY DEF Round, PayloadInv, Results
  <2>6. QED
    BY <2>1, <2>2, <2>3, <2>4, <2>5 DEF PayloadInv
<1>f. QED
  BY <1>3, <1>a, <1>b, <1>c, <1>d, <1>e

LEMMA GlobalPassStep ==
  ASSUME Types, NEW r \in Reductions, Round(r),
         NEW t \in Threads, GlobalPass(t)
  PROVE  Types' /\ Round(r)'
<1>0. /\ pc[t] = "ggather" /\ seen[t] = {}
      /\ \/ reduced[t] < Cardinality(Nodes) /\ seen' = [seen EXCEPT ![t] = Nodes] /\ pc' = pc
         \/ ~(reduced[t] < Cardinality(Nodes)) /\ seen' = seen /\ pc' = [pc EXCEPT ![t] = "gcleanup"]
      /\ UNCHANGED <<remaining, gremaining, entry, gentry, red, ticket, reduced, payload, result>>
  BY DEF GlobalPass, Goto
<1>1. CASE pc' = pc
  <2>1. VarTypes' /\ BagTypes'
    BY <1>0, <1>1 DEF Types, VarTypes, BagTypes
  <2>2. ScanTypes'
    BY <1>0, <1>1 DEF Types, ScanTypes, VarTypes
  <2>3. QED
    BY <1>0, <1>1, <2>1, <2>2, RoundKept DEF Types
<1>2. CASE ~(reduced[t] < Cardinality(Nodes)) /\ seen' = seen /\ pc' = [pc EXCEPT ![t] = "gcleanup"]
  <2>1. LeadsAll(t)
    BY <1>0 DEF LeadsAll
  <2>2. Merged(t, r) = Nodes
    <3>1. reduced[t] = Cardinality(Merged(t, r)) /\ Merged(t, r) \in SUBSET Nodes
      BY <1>0, <2>1 DEF Round, PayloadInv, GlobalPayload, Merged
    <3>2. /\ Cardinality(Merged(t, r)) \in Nat /\ Cardinality(Nodes) \in Nat
          /\ Cardinality(Merged(t, r)) <= Cardinality(Nodes)
          /\ Cardinality(Merged(t, r)) = Cardinality(Nodes) => Merged(t, r) = Nodes
      BY <3>1, GlobalCards
    <3>3. QED
      BY <1>2, <3>1, <3>2
  <2>3. Combined(t, r) = Threads
    BY <2>2, Placed DEF Merged, Combined
  <2>4. \A m \in Nodes : gentry[m] = Null
    BY <2>1, <2>2 DEF Round, EntryInv, GlobalEntryHolds
  <2>5. /\ InRound(r)' /\ LeaderInv(r)' /\ NodeCount(r)' /\ EntryInv(r)' /\ PayloadInv(r)'
        /\ NotPassed(r)' = NotPassed(r)
    BY <1>0, <1>2, <2>1, <2>3, <2>4, LeadsOn
  <2>6. Rearmed(r)' <=> Rearmed(r)
    BY <1>0, <1>2 DEF Rearmed, Types, VarTypes
  <2>7. CountInv(r)'
    BY <1>0, <2>5, <2>6 DEF Round, CountInv, GlobalCount
  <2>8. VarTypes'
    BY <1>0, <1>2 DEF Types, VarTypes, PCs
  <2>9. ScanTypes' /\ BagTypes'
    BY <1>0, <1>2 DEF Types, ScanTypes, BagTypes, VarTypes
  <2>10. QED
    BY <2>5, <2>7, <2>8, <2>9 DEF Types, Round
<1>3. QED
  BY <1>0, <1>1, <1>2

LEMMA GlobalCleanupStep ==
  ASSUME Types, NEW r \in Reductions, Round(r),
         NEW t \in Threads, GlobalCleanup(t)
  PROVE  Types' /\ Round(r)'
<1>0. /\ pc[t] = "gcleanup" /\ gremaining' = Cardinality(Nodes)
      /\ pc' = [pc EXCEPT ![t] = "cleanupFinal"]
      /\ UNCHANGED <<remaining, entry, gentry, red, ticket, seen, reduced, payload, result>>
  BY DEF GlobalCleanup, Goto
<1>1. LeadsAll(t)
  BY <1>0 DEF LeadsAll
<1>2. Combined(t, r) = Threads /\ \A m \in Nodes : gentry[m] = Null
  BY <1>0, <1>1 DEF Round, PayloadInv, GlobalPayload, EntryInv, GlobalEntryHolds
<1>3. /\ InRound(r)' /\ LeaderInv(r)' /\ NodeCount(r)' /\ EntryInv(r)' /\ PayloadInv(r)'
  BY <1>0, <1>1, <1>2, LeadsOn
<1>4. Rearmed(r)'
  BY <1>0 DEF Rearmed, Types, VarTypes
<1>5. CountInv(r)'
  BY <1>0, <1>3, <1>4 DEF CountInv, GlobalCount
<1>6. VarTypes'
  BY <1>0, GlobalCards DEF Types, VarTypes, PCs
<1>7. ScanTypes' /\ BagTypes'
  BY <1>0 DEF Types, ScanTypes, BagTypes, VarTypes
<1>8. QED
  BY <1>3, <1>5, <1>6, <1>7 DEF Types, Round

LEMMA GlobalEntryStep ==
  ASSUME Types, NEW r \in Reductions, Round(r),
         NEW t \in Threads, GlobalEntry(t)
  PROVE  Types' /\ Round(r)'
<1>0. /\ pc[t] = "ggather"
      /\ UNCHANGED <<remaining, gremaining, entry, pc, red, ticket, result>>
  BY DEF GlobalEntry
<1>1. PICK n \in seen[t] :
        /\ seen' = [seen EXCEPT ![t] = @ \ {n}]
        /\ IF gentry[n] = Null THEN UNCHANGED <<gentry, reduced, payload>>
           ELSE /\ payload' = [payload EXCEPT ![t][red[t]] = @ (+) payload[gentry[n][1]][gentry[n][2]]]
                /\ gentry' = [gentry EXCEPT ![n] = Null]
                /\ reduced' = [reduced EXCEPT ![t] = @ + 1]
  BY DEF GlobalEntry, Reduce
<1>2. n \in Nodes
  BY <1>0 DEF Types, ScanTypes
<1>s. ScanTypes'
  <2>1. \A u \in Threads : seen'[u] \subseteq seen[u]
    BY <1>1 DEF Types, ScanTypes
  <2>2. QED
    BY <1>0, <1>1, <2>1 DEF Types, ScanTypes
<1>3. CASE gentry[n] = Null
  <2>1. Types'
    BY <1>0, <1>1, <1>3, <1>s DEF Types, VarTypes, BagTypes
  <2>2. QED
    BY <1>0, <1>1, <1>3, <2>1, RoundKept
<1>4. CASE gentry[n] # Null
  <2> DEFINE C == Combined(t, r)
             M == Merged(t, r)
  <2>1. LeadsAll(t) /\ red[t] = r /\ ~Out(t, r) /\ \A v \in Threads : LeadsAll(v) => v = t
    BY <1>0, Gathering DEF LeadsAll
  <2>2. PICK u \in ThreadsOf(n) : gentry[n] = <<u, r>> /\ red[u] = r
                                  /\ payload[u][r] = BagOf(ThreadsOf(n), r)
    BY <1>2, <1>4 DEF Round, EntryInv, GlobalEntryHolds
  <2>3. n \notin M /\ NodePosted(n, r)
    BY <1>2, <1>4, <2>1 DEF Round, EntryInv, GlobalEntryHolds
  <2>4. /\ \A v \in Threads : (Out(v, r)' <=> Out(v, r)) /\ (LeadsAll(v)' <=> LeadsAll(v))
                              /\ (Leads(v)' <=> Leads(v)) /\ (Posted(v, r)' <=> Posted(v, r))
        /\ \A m \in Nodes : /\ NodeDone(m, r)' <=> NodeDone(m, r)
                            /\ NodePassed(m, r)' <=> NodePassed(m, r)
                            /\ NodePosted(m, r)' <=> NodePosted(m, r)
                            /\ OutOf(m, r)' = OutOf(m, r)
        /\ NotPassed(r)' = NotPassed(r)
    BY <1>0, NobodyMoves
  <2>5. /\ payload[t][r] = BagOf(C, r) /\ t \in C /\ reduced[t] = Cardinality(M)
        /\ \A v \in C : ThreadsOf(NodeOf[v]) \subseteq C
        /\ C \subseteq Threads
    BY <1>0, <2>1 DEF Round, PayloadInv, GlobalPayload, Combined
  <2>6. C \cap ThreadsOf(n) = {}
    <3>1. ASSUME NEW v \in C \cap ThreadsOf(n) PROVE FALSE
      BY <1>2, <2>3, <2>5, <3>1, Placed DEF Merged
    <3>2. QED
      BY <3>1
  <2>7. /\ payload'[t][r] = BagOf(C \cup ThreadsOf(n), r)
        /\ DOMAIN payload' = Threads /\ DOMAIN payload'[t] = Reductions
        /\ \A v \in Threads \ {t} : payload'[v] = payload[v]
        /\ \A q \in Reductions \ {r} : payload'[t][q] = payload[t][q]
    <3>1. payload[t][r] (+) payload[u][r] = BagOf(C \cup ThreadsOf(n), r)
      BY <2>2, <2>5, <2>6, AddBags
    <3>2. payload' = [payload EXCEPT ![t][r] = payload[t][r] (+) payload[u][r]]
      BY <1>1, <1>4, <2>1, <2>2
    <3>3. QED
      BY <3>1, <3>2 DEF Types, BagTypes
  <2>8. /\ Combined(t, r)' = C \cup ThreadsOf(n)
        /\ \A v \in Threads \ {t} : Combined(v, r)' = Combined(v, r) /\ Merged(v, r)' = Merged(v, r)
    <3>1. C \cup ThreadsOf(n) \in SUBSET Threads
      BY <2>5, Placed
    <3>2. DOMAIN payload'[t][r] = (C \cup ThreadsOf(n)) \X {r}
      BY <2>7, BagDomain
    <3>3. \A v : <<v, r>> \in DOMAIN payload'[t][r] <=> v \in C \cup ThreadsOf(n)
      BY <3>2
    <3>4. Combined(t, r)' = C \cup ThreadsOf(n)
      BY <3>1, <3>3 DEF Combined
    <3>5. \A v \in Threads \ {t} : Combined(v, r)' = Combined(v, r)
      BY <2>7 DEF Combined
    <3>6. QED
      BY <3>4, <3>5 DEF Merged
  <2>9. Merged(t, r)' = M \cup {n}
    <3>1. ASSUME NEW m \in Nodes PROVE ThreadsOf(m) \subseteq C \cup ThreadsOf(n)
                                       <=> m = n \/ ThreadsOf(m) \subseteq C
      BY <1>2, Placed
    <3>2. QED
      BY <1>2, <2>8, <3>1 DEF Merged
  <2>10. /\ reduced'[t] = Cardinality(M \cup {n}) /\ reduced' \in [Threads -> Nat]
         /\ \A v \in Threads \ {t} : reduced'[v] = reduced[v]
    <3>1. IsFiniteSet(M)
      BY GlobalCards DEF Merged
    <3>2. Cardinality(M \cup {n}) = Cardinality(M) + 1
      BY <2>3, <3>1, FS_AddElement
    <3>3. reduced' = [reduced EXCEPT ![t] = @ + 1] /\ reduced \in [Threads -> Nat]
      BY <1>1, <1>4 DEF Types, VarTypes
    <3>4. QED
      BY <2>5, <3>2, <3>3
  <2>11. /\ gentry' \in [Nodes -> Pointers \cup {Null}] /\ gentry'[n] = Null
         /\ \A m \in Nodes \ {n} : gentry'[m] = gentry[m]
    <3>1. gentry \in [Nodes -> Pointers \cup {Null}]
      BY DEF Types, VarTypes
    <3>2. QED
      BY <1>1, <1>2, <1>4, <3>1
  <2>a. Types'
    <3>1. VarTypes'
      BY <1>0, <2>10, <2>11 DEF Types, VarTypes
    <3>2. BagTypes'
      BY <1>0, <2>7 DEF Types, BagTypes
    <3>3. QED
      BY <1>s, <3>1, <3>2 DEF Types
  <2>b. InRound(r)'
    BY <1>0 DEF Round, InRound
  <2>c. LeaderInv(r)'
    <3>1. OneLeader' /\ OneGlobalLeader' /\ NodeStage(r)'
      BY <2>4, Placed DEF Round, LeaderInv, OneLeader, OneGlobalLeader, NodeStage
    <3>2. Finishing(r)' /\ GlobalStage(r)'
      BY <1>0, <2>4, Placed DEF Round, LeaderInv, Finishing, GlobalStage
    <3>3. QED
      BY <3>1, <3>2 DEF LeaderInv
  <2>d. CountInv(r)'
    BY <1>0, <2>4 DEF Round, CountInv, NodeCount, GlobalCount, Rearmed
  <2>e. EntryInv(r)'
    <3>1. EntryHolds(r)'
      <4>1. \A v \in Threads : Posted(v, r) \/ pc[v] = "gather" => v # t
        BY <1>0 DEF Posted
      <4>2. QED
        BY <1>0, <2>4, <2>7, <2>8, <4>1, EntryKept DEF Round, EntryInv
    <3>2. OthersPosted(r)'
      BY <1>0, <2>4, Placed DEF Round, EntryInv, OthersPosted
    <3>3. GlobalEntryHolds(r)'
      <4>1. ASSUME NEW m \in Nodes, gentry'[m] # Null
            PROVE  /\ \E v \in ThreadsOf(m) : gentry'[m] = <<v, r>> /\ red[v] = r
                               /\ pc[v] \in {"cleanup", "return"}
                               /\ payload'[v][r] = BagOf(ThreadsOf(m), r)
                   /\ NodePosted(m, r)'
                   /\ \A v \in Threads : LeadsAll(v) => pc[v] = "ggather" /\ m \notin Merged(v, r)'
        <5>1. m # n /\ gentry'[m] = gentry[m] /\ gentry[m] # Null
          BY <2>11, <4>1
        <5>2. PICK v \in ThreadsOf(m) : gentry[m] = <<v, r>> /\ red[v] = r
                               /\ pc[v] \in {"cleanup", "return"}
                               /\ payload[v][r] = BagOf(ThreadsOf(m), r)
          BY <5>1 DEF Round, EntryInv, GlobalEntryHolds
        <5>3. v \in Threads \ {t}
          BY <1>0, <5>2, Placed
        <5>4. NodePosted(m, r)' /\ m \notin M
          BY <2>1, <2>4, <5>1 DEF Round, EntryInv, GlobalEntryHolds
        <5>5. \A w \in Threads : LeadsAll(w) => pc[w] = "ggather" /\ m \notin Merged(w, r)'
          BY <1>0, <2>1, <2>9, <5>1, <5>4
        <5>6. QED
          BY <2>7, <5>1, <5>2, <5>3, <5>4, <5>5
      <4>2. result[r] = EmptyBag
        BY <2>1, Gathering
      <4>3. QED
        BY <1>0, <2>4, <4>1, <4>2 DEF GlobalEntryHolds
    <3>4. MergedPosted(r)'
      BY <1>2, <2>1, <2>3, <2>4, <2>9 DEF Round, EntryInv, MergedPosted, Merged
    <3>5. QED
      BY <3>1, <3>2, <3>3, <3>4 DEF EntryInv
  <2>f. PayloadInv(r)'
    <3>1. Fresh(r)'
      <4>1. ASSUME NEW v \in Threads, NEW q \in Reductions,
                   q > r \/ (q = r /\ (Out(v, r) \/ pc[v] = "post"))
            PROVE  payload'[v][q] = BagOf({v}, q)
        <5>1. payload[v][q] = BagOf({v}, q)
          BY <4>1 DEF Round, PayloadInv, Fresh
        <5>2. v # t \/ q # r
          BY <1>0, <2>1, <4>1 DEF Reductions
        <5>3. QED
          BY <2>7, <5>1, <5>2
      <4>2. QED
        BY <1>0, <2>4, <4>1 DEF Fresh
    <3>2. GatherPayload(r)'
      BY <1>0, <2>4, <2>7, <2>10, GatherKept DEF Round, PayloadInv
    <3>3. NodePayload(r)'
      BY <1>0, <2>7 DEF Round, PayloadInv, NodePayload
    <3>4. GlobalPayload(r)'
      <4>1. \A v \in C \cup ThreadsOf(n) : ThreadsOf(NodeOf[v]) \subseteq C \cup ThreadsOf(n)
        BY <2>5, Placed
      <4>2. QED
        BY <1>0, <2>1, <2>4, <2>5, <2>7, <2>8, <2>9, <2>10, <4>1 DEF GlobalPayload
    <3>5. Results(r)'
      BY <1>0 DEF Round, PayloadInv, Results
    <3>6. QED
      BY <3>1, <3>2, <3>3, <3>4, <3>5 DEF PayloadInv
  <2>g. QED
    BY <2>a, <2>b, <2>c, <2>d, <2>e, <2>f DEF Round
<1>5. QED
  BY <1>3, <1>4

LEMMA NodeCleanupStep ==
  ASSUME Types, NEW r \in Reductions, Round(r),
         NEW t \in Threads, NodeCleanup(t)
  PROVE  Types' /\ Round(r)'
<1> DEFINE n == NodeOf[t]
<1>0. /\ \/ pc[t] = "cleanup" /\ pc' = [pc EXCEPT ![t] = "return"]
         \/ pc[t] = "cleanupFinal" /\ pc' = [pc EXCEPT ![t] = "finish"]
      /\ remaining' = [remaining EXCEPT ![n] = Size(n)]
      /\ UNCHANGED <<gremaining, entry, gentry, red, ticket, seen, reduced, payload, result>>
  BY DEF NodeCleanup, Goto
<1>p. n \in Nodes /\ t \in ThreadsOf(n) /\ ThreadsOf(n) \subseteq Threads
  BY Placed
<1>1. red[t] = r /\ Leads(t) /\ ~Out(t, r) /\ ~Posted(t, r) /\ ~NodeDone(n, r) /\ NodePassed(n, r)
  <2>1. red[t] = r /\ Leads(t) /\ ~Out(t, r) /\ ~Posted(t, r)
    BY <1>0, Categories DEF Leads, Posted
  <2>2. QED
    BY <1>0, <1>p, <2>1 DEF NodeDone, NodePassed
<1>2. /\ pc'[t] \in {"return", "finish"} /\ (pc'[t] = "finish" <=> pc[t] = "cleanupFinal")
      /\ \A u \in Threads \ {t} : pc'[u] = pc[u]
  BY <1>0 DEF Types, VarTypes
<1>3. ~Out(t, r)' /\ ~Leads(t)' /\ (LeadsAll(t)' <=> LeadsAll(t))
  BY <1>0, <1>1, <1>2 DEF Out, Leads, LeadsAll
<1>4. \A u \in Threads : /\ (Posted(u, r) => Posted(u, r)') /\ (Leads(u)' <=> Leads(u) /\ u # t)
                         /\ (Out(u, r)' <=> Out(u, r)) /\ (LeadsAll(u)' <=> LeadsAll(u))
  BY <1>0, <1>1, <1>2, <1>3, OthersKeep
<1>5. NodeDone(n, r)' /\ NodePassed(n, r)' /\ NodePosted(n, r)'
  <2>1. \A u \in ThreadsOf(n) \ {t} : Posted(u, r)
    BY <1>0, <1>1 DEF Round, EntryInv, OthersPosted
  <2>2. NodeDone(n, r)'
    BY <1>0, <1>p, <1>1, <1>2, <1>4, <2>1 DEF NodeDone, Posted
  <2>3. QED
    BY <2>2 DEF NodePassed, NodePosted
<1>6. \A m \in Nodes : /\ NodeDone(m, r)' <=> NodeDone(m, r) \/ m = n
                       /\ NodePassed(m, r)' <=> NodePassed(m, r)
                       /\ OutOf(m, r)' = OutOf(m, r)
                       /\ NodePosted(m, r) => NodePosted(m, r)'
  <2>1. OutOf(n, r)' = OutOf(n, r)
    BY <1>p, <1>4 DEF OutOf
  <2>2. QED
    BY <1>0, <1>1, <1>2, <1>5, <2>1, OthersKeep
<1>7. NotPassed(r)' = NotPassed(r)
  BY <1>6 DEF NotPassed
<1>8. \A u : Combined(u, r)' = Combined(u, r) /\ Merged(u, r)' = Merged(u, r)
  BY <1>0 DEF Combined, Merged
<1>a. Types'
  <2>1. VarTypes'
    BY <1>0, <1>p, NodeCards DEF Types, VarTypes, PCs
  <2>2. ScanTypes' /\ BagTypes'
    BY <1>0, <1>2 DEF Types, ScanTypes, BagTypes
  <2>3. QED
    BY <2>1, <2>2 DEF Types
<1>b. InRound(r)'
  BY <1>0, <1>1, <1>2 DEF Round, InRound
<1>c. LeaderInv(r)'
  <2>1. OneLeader' /\ OneGlobalLeader'
    BY <1>4, Placed DEF Round, LeaderInv, OneLeader, OneGlobalLeader
  <2>2. NodeStage(r)'
    <3>1. ASSUME NEW m \in Nodes \ {n}
          PROVE  \/ \A u \in ThreadsOf(m) : Out(u, r)'
                 \/ NodeDone(m, r)'
                 \/ \E u \in ThreadsOf(m) : Leads(u)'
      BY <1>p, <1>4, <1>6, Placed DEF Round, LeaderInv, NodeStage
    <3>2. QED
      BY <1>5, <3>1 DEF NodeStage
  <2>3. Finishing(r)'
    BY <1>2, <1>5, <1>6, Placed DEF Round, LeaderInv, Finishing
  <2>4. GlobalStage(r)'
    BY <1>0, <1>4, <1>6 DEF Round, LeaderInv, GlobalStage
  <2>5. QED
    BY <2>1, <2>2, <2>3, <2>4 DEF LeaderInv
<1>d. CountInv(r)'
  <2>1. NodeCount(r)'
    <3>1. remaining'[n] = Size(n) /\ \A m \in Nodes \ {n} : remaining'[m] = remaining[m]
      BY <1>0, <1>p DEF Types, VarTypes
    <3>2. QED
      BY <1>5, <1>6, <3>1 DEF Round, CountInv, NodeCount
  <2>2. Rearmed(r)' <=> Rearmed(r)
    BY <1>0, <1>2 DEF Rearmed
  <2>3. QED
    BY <1>0, <1>7, <2>1, <2>2 DEF Round, CountInv, GlobalCount
<1>e. EntryInv(r)'
  <2>1. EntryHolds(r)'
    <3>1. \A u \in Threads : pc[u] = "gather" => pc'[u] = "gather"
      BY <1>0, <1>2
    <3>2. QED
      BY <1>0, <1>4, <1>8, <3>1, EntryKept DEF Round, EntryInv
  <2>2. OthersPosted(r)'
    BY <1>2, <1>4, Placed DEF Round, EntryInv, OthersPosted
  <2>3. GlobalEntryHolds(r)'
    <3>1. ASSUME NEW m \in Nodes, gentry[m] # Null
          PROVE  /\ \E u \in ThreadsOf(m) : gentry[m] = <<u, r>> /\ red[u] = r
                                            /\ pc'[u] \in {"cleanup", "return"}
                                            /\ payload[u][r] = BagOf(ThreadsOf(m), r)
                 /\ NodePosted(m, r)'
                 /\ result[r] = EmptyBag
                 /\ \A u \in Threads : LeadsAll(u)' => pc'[u] = "ggather" /\ m \notin Merged(u, r)
      <4>1. \A u \in Threads : pc[u] \in {"cleanup", "return"} => pc'[u] \in {"cleanup", "return"}
        BY <1>0, <1>2
      <4>2. \A u \in Threads : LeadsAll(u) => pc[u] = "ggather" /\ m \notin Merged(u, r)
        BY <3>1 DEF Round, EntryInv, GlobalEntryHolds
      <4>3. \A u \in Threads : pc[u] = "ggather" => pc'[u] = "ggather"
        BY <1>0, <1>2
      <4>4. QED
        BY <1>4, <1>6, <3>1, <4>1, <4>2, <4>3, Placed DEF Round, EntryInv, GlobalEntryHolds
    <3>2. QED
      BY <1>0, <1>8, <3>1 DEF GlobalEntryHolds
  <2>4. MergedPosted(r)'
    BY <1>4, <1>6, <1>8 DEF Round, EntryInv, MergedPosted, Merged
  <2>5. QED
    BY <2>1, <2>2, <2>3, <2>4 DEF EntryInv
<1>f. PayloadInv(r)'
  <2>1. Fresh(r)'
    BY <1>0, <1>2, <1>4 DEF Round, PayloadInv, Fresh
  <2>2. GatherPayload(r)'
    <3>1. \A u \in Threads : pc'[u] = "gather" => pc[u] = "gather"
      BY <1>2
    <3>2. QED
      BY <1>0, <1>4, <3>1, GatherKept DEF Round, PayloadInv
  <2>3. NodePayload(r)'
    BY <1>0, <1>2 DEF Round, PayloadInv, NodePayload
  <2>4. GlobalPayload(r)'
    <3>1. \A u \in Threads : LeadsAll(u)' => LeadsAll(u) /\ (pc'[u] = "ggather" <=> pc[u] = "ggather")
      BY <1>0, <1>2, <1>4
    <3>2. QED
      BY <1>0, <1>8, <3>1 DEF Round, PayloadInv, GlobalPayload
  <2>5. Results(r)'
    BY <1>0 DEF Round, PayloadInv, Results
  <2>6. QED
    BY <2>1, <2>2, <2>3, <2>4, <2>5 DEF PayloadInv
<1>g. QED
  BY <1>a, <1>b, <1>c, <1>d, <1>e, <1>f DEF Round

-----------------------------------------------------------------------------
(* The caller                                                              *)

LEMMA FinishStep ==
  ASSUME Types, NEW r \in Reductions, Round(r),
         NEW t \in Threads, Finish(t)
  PROVE  Types' /\ Round(r)'
<1> DEFINE n == NodeOf[t]
<1>0. /\ pc[t] = "finish" /\ pc' = [pc EXCEPT ![t] = "return"]
      /\ result' = [result EXCEPT ![red[t]] = @ (+) payload[t][red[t]]]
      /\ UNCHANGED <<remaining, gremaining, entry, gentry, red, ticket, seen, reduced, payload>>
  BY DEF Finish, Goto
<1>p. n \in Nodes /\ t \in ThreadsOf(n) /\ ThreadsOf(n) \subseteq Threads
  BY Placed
<1>1. /\ LeadsAll(t) /\ ~Leads(t) /\ red[t] = r /\ ~Out(t, r) /\ ~Posted(t, r)
      /\ result[r] = EmptyBag /\ \A u \in Threads : LeadsAll(u) => u = t
  BY <1>0, Gathering DEF LeadsAll, Leads
<1>2. pc'[t] = "return" /\ \A u \in Threads \ {t} : pc'[u] = pc[u]
  BY <1>0 DEF Types, VarTypes
<1>3. ~Out(t, r)' /\ ~Leads(t)' /\ ~LeadsAll(t)'
  BY <1>0, <1>1, <1>2 DEF Out, Leads, LeadsAll
<1>4. \A u \in Threads : /\ (Posted(u, r) => Posted(u, r)') /\ (Leads(u)' <=> Leads(u))
                         /\ (Out(u, r)' <=> Out(u, r)) /\ ~LeadsAll(u)'
  BY <1>0, <1>1, <1>2, <1>3, OthersKeep
<1>5. NodeDone(n, r) /\ NodeDone(n, r)'
  <2>1. NodeDone(n, r)
    BY <1>0 DEF Round, LeaderInv, Finishing
  <2>2. QED
    BY <1>0, <1>p, <1>2, <2>1 DEF NodeDone
<1>6. \A m \in Nodes : /\ NodeDone(m, r)' <=> NodeDone(m, r)
                       /\ NodePassed(m, r)' <=> NodePassed(m, r)
                       /\ OutOf(m, r)' = OutOf(m, r)
                       /\ NodePosted(m, r)' <=> NodePosted(m, r)
  <2>1. OutOf(n, r)' = OutOf(n, r)
    BY <1>p, <1>4 DEF OutOf
  <2>2. /\ NodePassed(n, r) /\ NodePassed(n, r)' /\ NodePosted(n, r) /\ NodePosted(n, r)'
    BY <1>5 DEF NodePassed, NodePosted
  <2>3. QED
    BY <1>0, <1>2, <1>5, <2>1, <2>2, OthersKeep
<1>7. NotPassed(r)' = NotPassed(r)
  BY <1>6 DEF NotPassed
<1>8. \A u : Combined(u, r)' = Combined(u, r) /\ Merged(u, r)' = Merged(u, r)
  BY <1>0 DEF Combined, Merged
<1>9. /\ result'[r] = BagOf(Threads, r) /\ result'[r] # EmptyBag
      /\ DOMAIN result' = Reductions /\ \A q \in Reductions \ {r} : result'[q] = result[q]
  <2>1. payload[t][r] = BagOf(Threads, r)
    BY <1>0, <1>1 DEF Round, PayloadInv, GlobalPayload
  <2>2. EmptyBag (+) BagOf(Threads, r) = BagOf(Threads, r)
    BY AddToEmpty
  <2>3. result'[r] = BagOf(Threads, r) /\ \A q \in Reductions \ {r} : result'[q] = result[q]
    BY <1>0, <1>1, <2>1, <2>2 DEF Types, BagTypes
  <2>4. BagOf(Threads, r) # EmptyBag
    BY BagDomain, Placed
  <2>5. QED
    BY <1>0, <2>3, <2>4 DEF Types, BagTypes
<1>10. /\ \A m \in Nodes : NodePosted(m, r)
       /\ \A m \in Nodes : gentry[m] = Null
  <2>1. \A m \in Nodes : m \in Merged(t, r)
    BY <1>0, <1>1, Placed DEF Round, PayloadInv, GlobalPayload, Merged
  <2>2. \A m \in Nodes \ {n} : NodePosted(m, r)
    BY <1>1, <2>1 DEF Round, EntryInv, MergedPosted
  <2>3. \A m \in Nodes : gentry[m] = Null
    BY <1>0, <1>1 DEF Round, EntryInv, GlobalEntryHolds
  <2>4. QED
    BY <1>5, <2>2, <2>3 DEF NodePosted
<1>a. Types'
  <2>1. VarTypes'
    BY <1>0 DEF Types, VarTypes, PCs
  <2>2. ScanTypes' /\ BagTypes'
    BY <1>0, <1>2, <1>9 DEF Types, ScanTypes, BagTypes
  <2>3. QED
    BY <2>1, <2>2 DEF Types
<1>b. InRound(r)'
  BY <1>0, <1>1, <1>2 DEF Round, InRound
<1>c. LeaderInv(r)'
  <2>1. OneLeader' /\ OneGlobalLeader' /\ NodeStage(r)'
    BY <1>4, <1>6, Placed DEF Round, LeaderInv, OneLeader, OneGlobalLeader, NodeStage
  <2>2. Finishing(r)'
    BY <1>2, <1>6, Placed DEF Round, LeaderInv, Finishing
  <2>3. GlobalStage(r)'
    BY <1>4, <1>6, <1>9, <1>10 DEF GlobalStage
  <2>4. QED
    BY <2>1, <2>2, <2>3 DEF LeaderInv
<1>d. CountInv(r)'
  <2>1. NodeCount(r)'
    BY <1>0, <1>6 DEF Round, CountInv, NodeCount
  <2>2. Rearmed(r)' /\ Rearmed(r)
    BY <1>0, <1>9 DEF Rearmed
  <2>3. QED
    BY <1>0, <2>1, <2>2 DEF Round, CountInv, GlobalCount
<1>e. EntryInv(r)'
  <2>1. EntryHolds(r)'
    <3>1. \A u \in Threads : pc[u] = "gather" => pc'[u] = "gather"
      BY <1>0, <1>2
    <3>2. QED
      BY <1>0, <1>4, <1>8, <3>1, EntryKept DEF Round, EntryInv
  <2>2. OthersPosted(r)'
    BY <1>1, <1>2, <1>4, Placed DEF Round, EntryInv, OthersPosted
  <2>3. GlobalEntryHolds(r)' /\ MergedPosted(r)'
    BY <1>0, <1>4, <1>10 DEF GlobalEntryHolds, MergedPosted
  <2>4. QED
    BY <2>1, <2>2, <2>3 DEF EntryInv
<1>f. PayloadInv(r)'
  <2>1. Fresh(r)'
    BY <1>0, <1>2, <1>4 DEF Round, PayloadInv, Fresh
  <2>2. GatherPayload(r)'
    <3>1. \A u \in Threads : pc'[u] = "gather" => pc[u] = "gather"
      BY <1>2
    <3>2. QED
      BY <1>0, <1>4, <3>1, GatherKept DEF Round, PayloadInv
  <2>3. NodePayload(r)'
    BY <1>0, <1>2 DEF Round, PayloadInv, NodePayload
  <2>4. GlobalPayload(r)'
    BY <1>4 DEF GlobalPayload
  <2>5. Results(r)'
    BY <1>9 DEF Round, PayloadInv, Results, Reductions
  <2>6. QED
    BY <2>1, <2>2, <2>3, <2>4, <2>5 DEF PayloadInv
<1>g. QED
  BY <1>a, <1>b, <1>c, <1>d, <1>e, <1>f DEF Round

\* The first thread to leave the barrier opens the next round; the others join
\* it.
LEMMA NextReductionStep ==
  ASSUME ~Nowait, Types, NEW r \in Reductions, Round(r),
         NEW t \in Threads, NextReduction(t)
  PROVE  Types' /\ \E q \in Reductions : Round(q)'
<1> DEFINE n == NodeOf[t]
<1>0. /\ pc[t] = "return" /\ \A u \in Threads : Arrived(u, red[t])
      /\ red[t] < Count /\ red' = [red EXCEPT ![t] = @ + 1] /\ pc' = [pc EXCEPT ![t] = "enter"]
      /\ UNCHANGED <<remaining, gremaining, entry, gentry, ticket, seen, reduced, payload, result>>
  BY DEF NextReduction, Goto
<1>p. n \in Nodes /\ t \in ThreadsOf(n) /\ ThreadsOf(n) \subseteq Threads
  BY Placed
<1>r. r \in Nat /\ r >= 1 /\ Count \in Nat /\ \A u \in Threads : red[u] \in Nat
  BY ReduceAssumption DEF Reductions, Types, VarTypes
<1>1. /\ pc'[t] = "enter" /\ red'[t] = red[t] + 1 /\ red' \in [Threads -> Reductions]
      /\ \A u \in Threads \ {t} : pc'[u] = pc[u] /\ red'[u] = red[u]
  <2>1. red[t] + 1 \in Reductions
    BY <1>0, <1>r, ReduceAssumption DEF Types, VarTypes, Reductions
  <2>2. QED
    BY <1>0, <2>1 DEF Types, VarTypes
<1>2. \A u : Combined(u, r)' = Combined(u, r) /\ Merged(u, r)' = Merged(u, r)
  BY <1>0 DEF Combined, Merged
<1>a. Types'
  <2>1. VarTypes'
    BY <1>0, <1>1 DEF Types, VarTypes, PCs
  <2>2. ScanTypes' /\ BagTypes'
    BY <1>0, <1>1 DEF Types, ScanTypes, BagTypes
  <2>3. QED
    BY <2>1, <2>2 DEF Types
<1>3. red[t] = r \/ red[t] = r - 1
  BY DEF Round, InRound
<1>4. CASE red[t] = r
  <2> DEFINE q == r + 1
  <2>1. q \in Reductions
    BY <1>1, <1>4
  <2>2. \A u \in Threads : red[u] = r /\ pc[u] = "return"
    <3>1. ASSUME NEW u \in Threads PROVE red[u] = r /\ pc[u] = "return"
      <4>1. red[u] = r \/ red[u] = r - 1
        BY DEF Round, InRound
      <4>2. QED
        BY <1>0, <1>4, <1>r, <4>1 DEF Arrived
    <3>2. QED
      BY <3>1
  <2>3. /\ \A m \in Nodes : NodeDone(m, r) /\ NodePassed(m, r)
        /\ \A u \in Threads : ~LeadsAll(u)
    BY <2>2, Placed DEF NodeDone, NodePassed, LeadsAll
  <2>4. result[r] # EmptyBag /\ result[r] = BagOf(Threads, r)
    BY <2>3, Placed DEF Round, LeaderInv, GlobalStage, PayloadInv, Results
  <2>5. /\ \A m \in Nodes : remaining[m] = Size(m)
        /\ gremaining = Cardinality(Nodes)
    BY <2>3, <2>4 DEF Round, CountInv, NodeCount, GlobalCount, Rearmed
  <2>6. /\ \A m \in Nodes, i \in Slots : entry[m][i] = Null
        /\ \A m \in Nodes : gentry[m] = Null
    <3>1. \A m \in Nodes : \A u \in ThreadsOf(m) : pc[u] # "gather"
      BY <2>2, Placed
    <3>2. QED
      BY <2>4, <3>1 DEF Round, EntryInv, EntryHolds, GlobalEntryHolds
  <2>7. /\ \A u \in Threads : Out(u, q)' /\ ~Leads(u)' /\ ~LeadsAll(u)'
                              /\ pc'[u] \in {"enter", "return"}
        /\ red'[t] = q /\ \A u \in Threads \ {t} : red'[u] = r /\ pc'[u] = "return"
    BY <1>1, <1>4, <1>r, <2>2 DEF Out, Leads, LeadsAll
  <2>8. \A m \in Nodes : ~NodeDone(m, q)' /\ ~NodePassed(m, q)' /\ OutOf(m, q)' = ThreadsOf(m)
    <3>1. ASSUME NEW m \in Nodes PROVE ~NodeDone(m, q)'
      <4>1. PICK u \in ThreadsOf(m) : u \in Threads
        BY Placed
      <4>2. Out(u, q)'
        BY <2>7, <4>1
      <4>3. QED
        BY <1>1, <1>r, <2>7, <4>1, <4>2 DEF NodeDone, Out
    <3>2. QED
      BY <2>7, <3>1, Placed DEF NodePassed, OutOf
  <2>9. NotPassed(q)' = Nodes
    BY <2>8 DEF NotPassed
  <2>10. result[q] = EmptyBag
    BY <1>r, <2>1 DEF Round, PayloadInv, Results
  <2>b. InRound(q)'
    BY <1>r, <2>7 DEF InRound
  <2>c. LeaderInv(q)'
    BY <1>0, <2>7, <2>8, <2>10, Placed
       DEF LeaderInv, OneLeader, OneGlobalLeader, NodeStage, Finishing, GlobalStage
  <2>d. CountInv(q)'
    <3>1. ~Rearmed(q)'
      BY <1>0, <2>7, <2>10 DEF Rearmed
    <3>2. QED
      BY <1>0, <2>5, <2>8, <2>9, <3>1 DEF CountInv, NodeCount, GlobalCount, Size
  <2>e. EntryInv(q)'
    BY <1>0, <2>6, <2>7 DEF EntryInv, EntryHolds, OthersPosted, GlobalEntryHolds, MergedPosted
  <2>f. PayloadInv(q)'
    <3>1. Fresh(q)'
      <4>1. ASSUME NEW u \in Threads, NEW p \in Reductions, p > q \/ p = q
            PROVE  payload'[u][p] = BagOf({u}, p)
        <5>1. p > r
          BY <1>r, <4>1 DEF Reductions
        <5>2. QED
          BY <1>0, <5>1 DEF Round, PayloadInv, Fresh
      <4>2. QED
        BY <4>1 DEF Fresh
    <3>2. GatherPayload(q)' /\ NodePayload(q)' /\ GlobalPayload(q)'
      BY <2>7 DEF GatherPayload, NodePayload, GlobalPayload
    <3>3. Results(q)'
      BY <1>0, <1>r, <2>4, <2>10 DEF Round, PayloadInv, Results, Reductions
    <3>4. QED
      BY <3>1, <3>2, <3>3 DEF PayloadInv
  <2>g. QED
    BY <1>a, <2>1, <2>b, <2>c, <2>d, <2>e, <2>f DEF Round
<1>5. CASE red[t] = r - 1
  <2>1. /\ Out(t, r) /\ Out(t, r)' /\ ~Posted(t, r) /\ ~Posted(t, r)' /\ ~Leads(t) /\ ~Leads(t)'
        /\ ~LeadsAll(t) /\ ~LeadsAll(t)' /\ red'[t] = r
    BY <1>0, <1>1, <1>5, <1>r DEF Out, Posted, Leads, LeadsAll
  <2>2. \A u \in Threads : /\ (Posted(u, r)' <=> Posted(u, r)) /\ (Leads(u)' <=> Leads(u))
                           /\ (Out(u, r)' <=> Out(u, r)) /\ (LeadsAll(u)' <=> LeadsAll(u))
    BY <1>1, <2>1, OthersKeep
  <2>3. ~NodeDone(n, r) /\ ~NodeDone(n, r)'
    BY <1>p, <1>1, <2>1, Categories DEF NodeDone
  <2>4. \A m \in Nodes : /\ NodeDone(m, r)' <=> NodeDone(m, r)
                         /\ NodePassed(m, r)' <=> NodePassed(m, r)
                         /\ OutOf(m, r)' = OutOf(m, r)
                         /\ NodePosted(m, r)' <=> NodePosted(m, r)
    <3>1. NodePassed(n, r)' <=> NodePassed(n, r)
      BY <1>p, <1>1, <2>1, <2>2, <2>3 DEF NodePassed
    <3>2. NodePosted(n, r)' <=> NodePosted(n, r)
      BY <1>0, <1>p, <1>1, <2>3 DEF NodePosted
    <3>3. OutOf(n, r)' = OutOf(n, r)
      BY <1>p, <2>2 DEF OutOf
    <3>4. QED
      BY <1>1, <2>3, <3>1, <3>2, <3>3, OthersKeep
  <2>5. NotPassed(r)' = NotPassed(r)
    BY <2>4 DEF NotPassed
  <2>6. \A u \in Threads : LeadsAll(u)' => LeadsAll(u) /\ pc'[u] = pc[u]
    BY <1>1, <2>1, <2>2
  <2>b. InRound(r)'
    BY <1>1, <2>1 DEF Round, InRound
  <2>c. LeaderInv(r)'
    <3>1. OneLeader' /\ OneGlobalLeader' /\ NodeStage(r)'
      BY <2>2, <2>4, Placed DEF Round, LeaderInv, OneLeader, OneGlobalLeader, NodeStage
    <3>2. Finishing(r)'
      BY <1>1, <2>4, Placed DEF Round, LeaderInv, Finishing
    <3>3. GlobalStage(r)'
      BY <1>0, <2>2, <2>4 DEF Round, LeaderInv, GlobalStage
    <3>4. QED
      BY <3>1, <3>2, <3>3 DEF LeaderInv
  <2>d. CountInv(r)'
    <3>1. Rearmed(r)' <=> Rearmed(r)
      BY <1>0, <1>1 DEF Rearmed
    <3>2. QED
      BY <1>0, <2>4, <2>5, <3>1 DEF Round, CountInv, NodeCount, GlobalCount
  <2>e. EntryInv(r)'
    <3>1. EntryHolds(r)'
      <4>1. \A u \in Threads : pc[u] = "gather" => pc'[u] = "gather"
        BY <1>0, <1>1
      <4>2. QED
        BY <1>0, <1>2, <2>2, <4>1, EntryKept DEF Round, EntryInv
    <3>2. OthersPosted(r)'
      BY <1>1, <2>1, <2>2, Placed DEF Round, EntryInv, OthersPosted
    <3>3. GlobalEntryHolds(r)'
      <4>1. ASSUME NEW m \in Nodes, gentry[m] # Null
            PROVE  /\ \E u \in ThreadsOf(m) : gentry[m] = <<u, r>> /\ red'[u] = r
                                              /\ pc'[u] \in {"cleanup", "return"}
                                              /\ payload[u][r] = BagOf(ThreadsOf(m), r)
                   /\ NodePosted(m, r)'
                   /\ result[r] = EmptyBag
                   /\ \A u \in Threads : LeadsAll(u)' => pc'[u] = "ggather" /\ m \notin Merged(u, r)
        <5>1. PICK u \in ThreadsOf(m) : gentry[m] = <<u, r>> /\ red[u] = r
                                        /\ pc[u] \in {"cleanup", "return"}
                                        /\ payload[u][r] = BagOf(ThreadsOf(m), r)
          BY <4>1 DEF Round, EntryInv, GlobalEntryHolds
        <5>2. u \in Threads \ {t}
          BY <1>5, <1>r, <5>1, Placed
        <5>3. QED
          BY <1>1, <2>4, <2>6, <4>1, <5>1, <5>2 DEF Round, EntryInv, GlobalEntryHolds
      <4>2. QED
        BY <1>0, <1>2, <4>1 DEF GlobalEntryHolds
    <3>4. MergedPosted(r)'
      BY <1>2, <2>2, <2>4 DEF Round, EntryInv, MergedPosted, Merged
    <3>5. QED
      BY <3>1, <3>2, <3>3, <3>4 DEF EntryInv
  <2>f. PayloadInv(r)'
    <3>1. Fresh(r)'
      BY <1>0, <1>1, <2>2, ZenonT(60) DEF Round, PayloadInv, Fresh
    <3>2. GatherPayload(r)'
      <4>1. \A u \in Threads : pc'[u] = "gather" => pc[u] = "gather"
        BY <1>1
      <4>2. QED
        BY <1>0, <2>2, <4>1, GatherKept DEF Round, PayloadInv
    <3>3. NodePayload(r)'
      BY <1>0, <1>1 DEF Round, PayloadInv, NodePayload
    <3>4. GlobalPayload(r)'
      BY <1>0, <1>2, <2>6 DEF Round, PayloadInv, GlobalPayload
    <3>5. Results(r)'
      BY <1>0 DEF Round, PayloadInv, Results
    <3>6. QED
      BY <3>1, <3>2, <3>3, <3>4, <3>5 DEF PayloadInv
  <2>g. QED
    BY <1>a, <2>b, <2>c, <2>d, <2>e, <2>f DEF Round
<1>6. QED
  BY <1>3, <1>4, <1>5

-----------------------------------------------------------------------------
(* The invariant, and what follows from it.  The theorems are about the    *)
(* blocking reductions (Nowait = FALSE): without the barrier at the end of *)
(* a reduction threads of several reductions meet in one node.             *)

LEMMA NextIInv == ASSUME ~Nowait PROVE IInv /\ [Next]_vars => IInv'
<1> SUFFICES ASSUME IInv, [Next]_vars PROVE IInv'
  OBVIOUS
<1>1. Types
  BY DEF IInv
<1>2. PICK r \in Reductions : Round(r)
  BY DEF IInv
<1>3. ASSUME UNCHANGED vars PROVE IInv'
  <2>1. Types'
    BY <1>1, <1>3 DEF Types, VarTypes, ScanTypes, BagTypes, vars
  <2>2. Round(r)'
    BY <1>2, <1>3, RoundKept DEF vars
  <2>3. QED
    BY <2>1, <2>2 DEF IInv
<1>4. ASSUME NEW t \in Threads, ThreadStep(t) PROVE IInv'
  <2>1. CASE NextReduction(t)
    BY <1>1, <1>2, <2>1, NextReductionStep DEF IInv
  <2>2. ASSUME ~NextReduction(t) PROVE Types' /\ Round(r)'
    <3>1. CASE SelectLeaderOptimistic(t)
      BY <1>1, <1>2, <3>1, SelectLeaderOptimisticStep
    <3>2. CASE ReduceLocal(t)
      BY <1>1, <1>2, <3>2, ReduceLocalStep
    <3>3. CASE GatherPass(t)
      BY <1>1, <1>2, <3>3, GatherPassStep
    <3>4. CASE GatherEntry(t)
      BY <1>1, <1>2, <3>4, GatherEntryStep
    <3>5. CASE SelectGlobalLeader(t)
      BY <1>1, <1>2, <3>5, SelectGlobalLeaderStep
    <3>6. CASE PostGlobal(t)
      BY <1>1, <1>2, <3>6, PostGlobalStep
    <3>7. CASE GlobalPass(t)
      BY <1>1, <1>2, <3>7, GlobalPassStep
    <3>8. CASE GlobalEntry(t)
      BY <1>1, <1>2, <3>8, GlobalEntryStep
    <3>9. CASE GlobalCleanup(t)
      BY <1>1, <1>2, <3>9, GlobalCleanupStep
    <3>10. CASE NodeCleanup(t)
      BY <1>1, <1>2, <3>10, NodeCleanupStep
    <3>11. CASE Finish(t)
      BY <1>1, <1>2, <3>11, FinishStep
    <3>12. QED
      BY <1>4, <2>2, <3>1, <3>2, <3>3, <3>4, <3>5, <3>6, <3>7, <3>8, <3>9, <3>10, <3>11
         DEF ThreadStep
  <2>3. QED
    BY <2>1, <2>2 DEF IInv
<1>5. ASSUME Done PROVE IInv'
  BY <1>3, <1>5 DEF Done
<1>6. QED
  BY <1>3, <1>4, <1>5 DEF Next

\* Every reachable state of a run of blocking reductions is in some round.
THEOREM InvariantHolds == ASSUME ~Nowait PROVE Spec => []IInv
<1>1. Init => IInv
  BY InitIInv
<1>2. IInv /\ [Next]_vars => IInv'
  BY NextIInv
<1>3. QED
  BY <1>1, <1>2, PTL DEF Spec

\* A leader leaves its node's entries with the contributions of exactly the
\* node's threads (hierarchy_reduce_local).
THEOREM LocalCombined == ASSUME ~Nowait PROVE Spec => []LocalThreadsCombined
<1>1. IInv => LocalThreadsCombined
  <2> SUFFICES ASSUME IInv, NEW t \in Threads, pc[t] = "select"
               PROVE  payload[t][red[t]] = SetToBag(ThreadsOf(NodeOf[t]) \X {red[t]})
    BY DEF LocalThreadsCombined
  <2>1. PICK r \in Reductions : Types /\ Round(r)
    BY DEF IInv
  <2>2. red[t] = r
    BY <2>1, Unposted
  <2>3. payload[t][r] = BagOf(ThreadsOf(NodeOf[t]), r)
    BY <2>1 DEF Round, PayloadInv, NodePayload
  <2>4. QED
    BY <2>2, <2>3 DEF BagOf
<1>2. QED
  BY <1>1, InvariantHolds, PTL

\* The shared variable receives every thread's contribution exactly once, and
\* before any thread goes past the barrier of the reduction.
THEOREM Complete == ASSUME ~Nowait PROVE Spec => []ResultComplete
<1>1. IInv => ResultComplete
  <2> SUFFICES ASSUME IInv, NEW q \in Reductions
               PROVE  /\ result[q] \in {EmptyBag, SetToBag(Threads \X {q})}
                      /\ (\E t \in Threads : red[t] > q) => result[q] # EmptyBag
    BY DEF ResultComplete
  <2>1. PICK r \in Reductions : Types /\ Round(r)
    BY DEF IInv
  <2>2. q \in Nat /\ r \in Nat
    BY DEF Reductions
  <2>3. /\ q < r => result[q] = BagOf(Threads, q)
        /\ q > r => result[q] = EmptyBag
        /\ q = r => result[q] \in {EmptyBag, BagOf(Threads, q)}
    BY <2>1 DEF Round, PayloadInv, Results
  <2>4. \A t \in Threads : red[t] = r \/ red[t] = r - 1
    BY <2>1 DEF Round, InRound
  <2>5. BagOf(Threads, q) # EmptyBag
    BY BagDomain, Placed
  <2>6. (\E t \in Threads : red[t] > q) => q < r
    BY <2>2, <2>4
  <2>7. result[q] \in {EmptyBag, BagOf(Threads, q)}
    BY <2>2, <2>3
  <2>8. QED
    BY <2>3, <2>5, <2>6, <2>7 DEF BagOf
<1>2. QED
  BY <1>1, InvariantHolds, PTL

\* What an entry points to is the data of a thread that is still in the
\* reduction: a thread does not return to its caller's frame with its payload
\* uncombined.
THEOREM Alive == ASSUME ~Nowait PROVE Spec => []PointersAlive
<1>1. IInv => PointersAlive
  <2> SUFFICES ASSUME IInv, NEW n \in Nodes
               PROVE  /\ gentry[n] # Null => red[gentry[n][1]] = gentry[n][2]
                      /\ \A i \in Slots : entry[n][i] # Null => red[entry[n][i][1]] = entry[n][i][2]
    BY DEF PointersAlive
  <2>1. PICK r \in Reductions : Types /\ Round(r)
    BY DEF IInv
  <2>2. ASSUME gentry[n] # Null PROVE red[gentry[n][1]] = gentry[n][2]
    <3>1. PICK u \in ThreadsOf(n) : gentry[n] = <<u, r>> /\ red[u] = r
      BY <2>1, <2>2 DEF Round, EntryInv, GlobalEntryHolds
    <3>2. QED
      BY <3>1
  <2>3. ASSUME NEW i \in Slots, entry[n][i] # Null PROVE red[entry[n][i][1]] = entry[n][i][2]
    <3>1. PICK u \in ThreadsOf(n) : entry[n][i] = <<u, r>> /\ Posted(u, r)
      BY <2>1, <2>3 DEF Round, EntryInv, EntryHolds
    <3>2. QED
      BY <3>1 DEF Posted
  <2>4. QED
    BY <2>2, <2>3
<1>2. QED
  BY <1>1, InvariantHolds, PTL

\* A leader counts no more than there are threads.
Bounded == \A t \in Threads : reduced[t] <= Cardinality(Threads)

LEMMA FewerNodes == Cardinality(Nodes) <= Cardinality(Threads) /\ Cardinality(Threads) \in Nat
<1>1. NodeOf \in Surjection(Threads, Nodes)
  BY ReduceAssumption, Placed DEF Surjection
<1>2. QED
  BY <1>1, ReduceAssumption, FS_Surjection, FS_CardinalityType

ScanBounded ==
  \A t \in Threads : pc[t] \in {"gather", "ggather"} => reduced[t] <= Cardinality(Threads)

LEMMA Scanned == IInv => ScanBounded
<1> SUFFICES ASSUME IInv PROVE ScanBounded
  OBVIOUS
<1>1. PICK r \in Reductions : Types /\ Round(r)
  BY DEF IInv
<1>2. ASSUME NEW t \in Threads, pc[t] = "gather" PROVE reduced[t] <= Cardinality(Threads)
  <2>1. reduced[t] = Cardinality(Combined(t, r)) /\ Combined(t, r) \in SUBSET Threads
    BY <1>1, <1>2 DEF Round, PayloadInv, GatherPayload, Combined
  <2>2. QED
    BY <2>1, ReduceAssumption, FS_Subset
<1>3. ASSUME NEW t \in Threads, pc[t] = "ggather" PROVE reduced[t] <= Cardinality(Threads)
  <2>1. reduced[t] = Cardinality(Merged(t, r)) /\ Merged(t, r) \in SUBSET Nodes
    BY <1>1, <1>3 DEF Round, PayloadInv, GlobalPayload, LeadsAll, Merged
  <2>2. Cardinality(Merged(t, r)) <= Cardinality(Nodes) /\ Cardinality(Merged(t, r)) \in Nat
        /\ Cardinality(Nodes) \in Nat
    BY <2>1, GlobalCards
  <2>3. QED
    BY <2>1, <2>2, FewerNodes
<1>4. QED
  BY <1>2, <1>3 DEF ScanBounded

\* A leader's count changes only while it scans entries.
LEMMA BoundedStep == IInv /\ IInv' /\ Bounded /\ [Next]_vars => Bounded'
<1>0. IInv' => ScanBounded'
  BY Scanned, PTL
<1> SUFFICES ASSUME IInv, IInv', Bounded, [Next]_vars, NEW u \in Threads
             PROVE  reduced'[u] <= Cardinality(Threads)
  BY DEF Bounded
<1>1. \A t \in Threads : pc'[t] \in {"gather", "ggather"} => reduced'[t] <= Cardinality(Threads)
  BY <1>0 DEF ScanBounded
<1>2. CASE UNCHANGED vars
  BY <1>2 DEF Bounded, vars
<1>3. ASSUME NEW t \in Threads, ThreadStep(t) PROVE reduced'[u] <= Cardinality(Threads)
  <2>1. /\ pc \in [Threads -> PCs] /\ reduced \in [Threads -> Nat]
    BY DEF IInv, Types, VarTypes
  <2>2. CASE SelectLeaderOptimistic(t)
    BY <1>1, <2>1, <2>2 DEF SelectLeaderOptimistic, Goto, Bounded
  <2>3. CASE GatherEntry(t)
    BY <1>1, <2>1, <2>3 DEF GatherEntry, Bounded
  <2>4. CASE SelectGlobalLeader(t)
    BY <1>1, <2>1, <2>4 DEF SelectGlobalLeader, Goto, Bounded
  <2>5. CASE GlobalEntry(t)
    BY <1>1, <2>1, <2>5 DEF GlobalEntry, Bounded
  <2>6. CASE UNCHANGED reduced
    BY <2>6 DEF Bounded
  <2>7. QED
    BY <1>3, <2>2, <2>3, <2>4, <2>5, <2>6
       DEF ThreadStep, ReduceLocal, GatherPass, PostGlobal, GlobalPass, GlobalCleanup,
           NodeCleanup, Finish, NextReduction
<1>4. QED
  BY <1>2, <1>3 DEF Next, Done

\* The counters of a node and of the nodes stay between 0 and what they are
\* re-armed with: the decrements of hierarchy.c never wrap.
THEOREM TypeCorrect == ASSUME ~Nowait PROVE Spec => []TypeOK
<1>1. Init => Bounded
  BY FewerNodes DEF Init, Bounded
<1>2. Spec => []Bounded
  BY <1>1, BoundedStep, InvariantHolds, PTL DEF Spec
<1>3. IInv /\ Bounded => TypeOK
  <2> SUFFICES ASSUME IInv, Bounded PROVE TypeOK
    OBVIOUS
  <2>1. PICK r \in Reductions : VarTypes /\ Round(r)
    BY DEF IInv, Types
  <2>2. ASSUME NEW n \in Nodes PROVE remaining[n] <= Size(n)
    <3>1. OutOf(n, r) \in SUBSET ThreadsOf(n)
      BY DEF OutOf
    <3>2. Cardinality(OutOf(n, r)) <= Size(n) /\ Size(n) \in Nat
      BY <3>1, NodeCards
    <3>3. QED
      BY <2>1, <3>2 DEF Round, CountInv, NodeCount
  <2>3. gremaining <= Cardinality(Nodes)
    <3>1. NotPassed(r) \in SUBSET Nodes
      BY DEF NotPassed
    <3>2. Cardinality(NotPassed(r)) <= Cardinality(Nodes) /\ Cardinality(Nodes) \in Nat
      BY <3>1, GlobalCards
    <3>3. QED
      BY <2>1, <3>2 DEF Round, CountInv, GlobalCount
  <2>4. QED
    BY <2>1, <2>2, <2>3 DEF TypeOK, VarTypes, Bounded
<1>4. QED
  BY <1>2, <1>3, InvariantHolds, PTL
=============================================================================
