------------------------- MODULE DsmPrefetchProofs -------------------------
(***************************************************************************)
(* Proofs about DsmPrefetch for any number of threads, pages, requests and *)
(* executions: the lists stay sorted and apart, no pointer dangles, and    *)
(* the lists implement PrefetchQueue.                                      *)
(***************************************************************************)
EXTENDS DsmPrefetch, FiniteSetTheorems, WellFoundedInduction, TLAPS

-----------------------------------------------------------------------------
(* The locks and the lists                                                 *)

AllApart(S) == \A a, b \in S : a = b \/ Apart(a, b)

MergesNow(t) == pc[t] \in {"mergePrev", "mergeNext"}
Inserts(t) == pc[t] \in {"mergePrev", "mergeNext", "inserted"}
Works(t) == Inserts(t) \/ pc[t] \in {"removePrev", "removeNext"}
InExecution(t) == phase[t] # "none"

\* The locks that a thread holds.
Held(t) ==
  CASE InExecution(t)               -> {k \in Kinds : k = phase[t] \/ phase[t] \in Stronger(k)}
    [] ~InExecution(t) /\ Inserts(t) -> {list[t]}
    [] ~InExecution(t) /\ pc[t] = "lock" ->
         {k \in Kinds : \/ k = "release" /\ list[t] # "release"
                        \/ k = "read" /\ list[t] = "write"}
    [] OTHER -> {}

Locks == \A t \in Threads, k \in Kinds : owner[k] = t <=> k \in Held(t)

\* Which step of a thread belongs to an execution, and to which list.
Stage(t) ==
  /\ pc[t] \in {"idle", "insert", "lock", "clear"} => ~InExecution(t)
  /\ pc[t] \in {"walk", "advise", "removePrev", "removeNext"} => InExecution(t)
  /\ Works(t) /\ InExecution(t) => phase[t] \in Stronger(list[t])
  /\ pc[t] = "insert" => node[t] \in Spans

Pointers(t) ==
  /\ MergesNow(t) => node[t] \in spans[list[t]]
  /\ InExecution(t) /\ pc[t] # "walk" => mem[t] \in spans[phase[t]]
  /\ cur[t] # NoSpan =>
       InExecution(t) /\ (Inserts(t) \/ pc[t] = "removeNext") /\ cur[t] \in spans[list[t]]
  /\ todo[t] # NoSpan => InExecution(t) /\ Inserts(t) /\ \A s \in spans[list[t]] : Apart(s, todo[t])

\* Inserting the parts of a split span merges nothing; otherwise a merge has
\* left nothing that touches the node before it.
Merges(t) ==
  /\ MergesNow(t) /\ InExecution(t) => AllApart(spans[list[t]])
  /\ pc[t] = "mergeNext" =>
       \A s \in spans[list[t]] : s.low < node[t].low => s.high < node[t].low

IInv ==
  /\ TypeOK /\ Locks /\ ListsApart
  /\ \A t \in Threads : Stage(t) /\ Pointers(t) /\ Merges(t)

-----------------------------------------------------------------------------
(* The pages                                                               *)

\* A removal has nothing of mem before cur.
Cuts(t) ==
  InExecution(t) /\ (Inserts(t) \/ pc[t] = "removeNext") =>
    /\ \A s \in spans[list[t]] : s.low < mem[t].low => s.high <= mem[t].low
    /\ \A s \in spans[list[t]] :
         mem[t].low <= s.low /\ s.low < mem[t].high => cur[t] # NoSpan /\ cur[t].low <= s.low
    /\ cur[t] # NoSpan => mem[t].low <= cur[t].low
    /\ todo[t] # NoSpan => mem[t].high <= todo[t].low

\* What a walk has behind it has left the lists of weaker accesses.
Walks(t) ==
  /\ InExecution(t) => done[t] \subseteq spans[phase[t]]
  /\ ~InExecution(t) => done[t] = {}
  /\ InExecution(t) /\ pc[t] # "walk" => mem[t] \notin done[t]
  /\ \A k \in Kinds : phase[t] \in Stronger(k) =>
       /\ PagesIn(k) \cap PagesOf(done[t]) = {}
       /\ pc[t] = "advise" => PagesIn(k) \cap PagesOf({mem[t]}) = {}
       /\ Works(t) /\ k = "read" /\ list[t] = "release" => PagesIn(k) \cap PagesOf({mem[t]}) = {}

Advises == (\A t \in Threads : ~InExecution(t)) => advised = [k \in Kinds |-> {}]

PageInv == Advises /\ \A t \in Threads : Cuts(t) /\ Walks(t)

-----------------------------------------------------------------------------
(* Numbers and spans                                                       *)

LEMMA LeastNat ==
  ASSUME NEW S \in SUBSET Nat, S # {}
  PROVE  \E x \in S : \A y \in S : x <= y
<1> DEFINE Below == {0 .. m : m \in S}
<1>1. Below \subseteq FiniteSubsetsOf(Nat) /\ Below # {}
  <2>1. \A m \in S : 0 .. m \subseteq Nat /\ IsFiniteSet(0 .. m)
    <3>1. \A m \in S : 0 \in Int /\ m \in Int
      OBVIOUS
    <3>2. QED
      BY <3>1, FS_Interval
  <2>2. QED
    BY <2>1 DEF FiniteSubsetsOf
<1>2. PICK X \in Below : \A Y \in Below : ~(<<Y, X>> \in StrictSubsetOrdering(Nat))
  <2> HIDE DEF Below
  <2>1. QED
    BY <1>1, FS_StrictSubsetOrderingWellFounded, WFMin
<1>3. PICK m \in S : X = 0 .. m
  BY <1>2
<1>4. ASSUME NEW y \in S, ~(m <= y) PROVE FALSE
  <2>1. 0 .. y \in Below /\ 0 .. y \subseteq Nat /\ 0 .. m \subseteq Nat
    OBVIOUS
  <2>2. 0 .. y \subseteq 0 .. m /\ 0 .. y # 0 .. m
    BY <1>4
  <2>3. <<0 .. y, X>> \in StrictSubsetOrdering(Nat)
    BY <1>3, <2>1, <2>2 DEF StrictSubsetOrdering
  <2>4. QED
    BY <1>2, <2>1, <2>3
<1>5. QED
  BY <1>4

\* What a span is; NoSpan is none.
LEMMA SpanFacts ==
  /\ NoSpan \notin Spans
  /\ \A s \in Spans : /\ s.low \in 0 .. MaxPage /\ s.high \in 0 .. MaxPage /\ s.low < s.high
                      /\ s.low \in Int /\ s.high \in Int
                      /\ s = [low |-> s.low, high |-> s.high]
  /\ \A a, b \in 0 .. MaxPage : a < b =>
       Span(a, b) \in Spans /\ Span(a, b).low = a /\ Span(a, b).high = b
<1> USE PrefetchAssumption
<1>1. \A s \in Spans : /\ s.low \in 0 .. MaxPage /\ s.high \in 0 .. MaxPage /\ s.low < s.high
                       /\ s = [low |-> s.low, high |-> s.high]
  BY DEF Spans
<1>2. \A a, b \in 0 .. MaxPage : a < b =>
       Span(a, b) \in Spans /\ Span(a, b).low = a /\ Span(a, b).high = b
  BY DEF Spans, Span
<1>3. NoSpan \notin Spans
  BY <1>1 DEF NoSpan
<1>4. 0 .. MaxPage \subseteq Int
  OBVIOUS
<1>5. QED
  BY <1>1, <1>2, <1>3, <1>4

\* Where list_insert looks for the node before, and list_seek for the one
\* after, there is one.
LEMMA PrevExists ==
  ASSUME NEW S \in SUBSET Spans, NEW low \in Int, \E s \in S : s.low < low
  PROVE  \E p \in S : IsPrev(p, S, low)
<1> USE PrefetchAssumption
<1> DEFINE D == {MaxPage - s.low : s \in {u \in S : u.low < low}}
<1>1. D \subseteq Nat /\ D # {}
  BY SpanFacts
<1>2. PICK x \in D : \A y \in D : x <= y
  <2> HIDE DEF D
  <2>1. QED
    BY <1>1, LeastNat
<1>3. PICK p \in S : p.low < low /\ x = MaxPage - p.low
  OBVIOUS
<1>4. ASSUME NEW s \in S, s.low < low PROVE s.low <= p.low
  <2>1. MaxPage - p.low <= MaxPage - s.low
    BY <1>2, <1>3, <1>4
  <2>2. QED
    BY <2>1, SpanFacts
<1>5. QED
  BY <1>3, <1>4 DEF IsPrev

LEMMA SeekExists ==
  ASSUME NEW S \in SUBSET Spans, NEW low \in Int, \E s \in S : s.low >= low
  PROVE  \E s \in S : IsSeek(s, S, low)
<1> USE PrefetchAssumption
<1> DEFINE L == {s.low : s \in {u \in S : u.low >= low}}
<1>1. L \subseteq Nat /\ L # {}
  BY SpanFacts, SMTT(60)
<1>2. PICK x \in L : \A y \in L : x <= y
  <2> HIDE DEF L
  <2>1. QED
    BY <1>1, LeastNat
<1>3. PICK s \in S : s.low >= low /\ x = s.low
  OBVIOUS
<1>4. QED
  BY <1>2, <1>3, SpanFacts DEF IsSeek

-----------------------------------------------------------------------------
(* What a step leaves alone                                                *)

\* The step is not one of the others.
Others(t) ==
  \A u \in Threads \ {t} :
    /\ pc'[u] = pc[u] /\ list'[u] = list[u] /\ node'[u] = node[u] /\ phase'[u] = phase[u]
    /\ mem'[u] = mem[u] /\ cur'[u] = cur[u] /\ todo'[u] = todo[u] /\ done'[u] = done[u]

\* Who uses a list holds its lock.
LEMMA Users ==
  ASSUME IInv
  PROVE  /\ \A t \in Threads, k \in Kinds : owner[k] = t <=> k \in Held(t)
         /\ \A t \in Threads : Inserts(t) => owner[list[t]] = t
         /\ \A t \in Threads : InExecution(t) =>
              /\ owner[phase[t]] = t
              /\ \A k \in Kinds : phase[t] \in Stronger(k) => owner[k] = t
         /\ \A t \in Threads : InExecution(t) /\ Works(t) =>
              owner[list[t]] = t /\ phase[t] \in Stronger(list[t])
         /\ \A t \in Threads : t # None
<1>1. \A t \in Threads : list[t] \in Kinds /\ phase[t] \in Kinds \cup {"none"}
  BY DEF IInv, TypeOK
<1>2. \A t \in Threads, k \in Kinds : owner[k] = t <=> k \in Held(t)
  BY DEF IInv, Locks
<1>3. \A t \in Threads : InExecution(t) =>
        /\ phase[t] \in Held(t)
        /\ \A k \in Kinds : phase[t] \in Stronger(k) => k \in Held(t)
  BY <1>1 DEF Held, InExecution
<1>4. \A t \in Threads : Works(t) /\ InExecution(t) => phase[t] \in Stronger(list[t])
  BY DEF IInv, Stage
<1>5. \A t \in Threads : Inserts(t) => list[t] \in Held(t)
  <2> TAKE t \in Threads
  <2>1. CASE InExecution(t)
    BY <1>1, <1>3, <1>4, <2>1 DEF Works
  <2>2. CASE ~InExecution(t)
    BY <1>1, <2>2 DEF Held, Inserts
  <2>3. QED
    BY <2>1, <2>2
<1>6. QED
  BY <1>1, <1>2, <1>3, <1>4, <1>5, PrefetchAssumption DEF InExecution

\* One list at a time is changed, by the thread that holds its lock, or by
\* one that takes it.
LEMMA Kept ==
  ASSUME IInv, NEW t \in Threads, NEW k \in Kinds, Others(t), TypeOK',
         \A j \in Kinds \ {k} : spans'[j] = spans[j],
         owner[k] \in {None, t} \/ spans'[k] = spans[k],
         \A j \in Kinds : owner'[j] = t <=> j \in Held(t)',
         \A j \in Kinds, u \in Threads \ {t} : owner'[j] = u <=> owner[j] = u,
         MergesNow(t) => list[t] = k,
         AllApart(spans'[k] \ Merging(k)'),
         Stage(t)', Pointers(t)', Merges(t)'
  PROVE  IInv'
<1>1. \A u \in Threads \ {t} :
        /\ pc'[u] = pc[u] /\ list'[u] = list[u] /\ node'[u] = node[u] /\ phase'[u] = phase[u]
        /\ mem'[u] = mem[u] /\ cur'[u] = cur[u] /\ todo'[u] = todo[u]
  BY DEF Others
<1>2. \A u \in Threads \ {t} :
        /\ InExecution(u)' <=> InExecution(u)
        /\ Inserts(u)' <=> Inserts(u)
        /\ MergesNow(u)' <=> MergesNow(u)
        /\ Works(u)' <=> Works(u)
        /\ Held(u)' = Held(u)
  <2>1. \A u \in Threads \ {t} :
        /\ InExecution(u)' <=> InExecution(u)
        /\ Inserts(u)' <=> Inserts(u)
        /\ MergesNow(u)' <=> MergesNow(u)
    BY <1>1 DEF InExecution, Inserts, MergesNow
  <2>2. \A u \in Threads \ {t} : Works(u)' <=> Works(u)
    BY <1>1, <2>1 DEF Works
  <2>3. \A u \in Threads \ {t} : Held(u)' = Held(u)
    <3> TAKE u \in Threads \ {t}
    <3>1. phase'[u] = phase[u] /\ list'[u] = list[u] /\ pc'[u] = pc[u]
      BY <1>1
    <3>2. QED
      BY <2>1, <3>1 DEF Held
  <2>4. QED
    BY <2>1, <2>2, <2>3
<1>3. Locks'
  BY <1>2, Users DEF Locks
<1>4. \A u \in Threads \ {t} :
        /\ InExecution(u) => spans'[phase[u]] = spans[phase[u]] /\ phase[u] \in Kinds
        /\ Inserts(u) \/ (InExecution(u) /\ Works(u)) => spans'[list[u]] = spans[list[u]]
  <2>1. \A u \in Threads : list[u] \in Kinds /\ phase[u] \in Kinds \cup {"none"}
    BY DEF IInv, TypeOK
  <2>2. \A u \in Threads \ {t}, j \in Kinds : owner[j] = u => spans'[j] = spans[j]
    BY Users
  <2>3. QED
    BY <2>1, <2>2, Users DEF InExecution
<1>5. \A u \in Threads \ {t} : Stage(u)'
  <2>1. \A u \in Threads \ {t} : Stage(u)
    BY DEF IInv
  <2>2. QED
    BY <1>1, <1>2, <2>1 DEF Stage
<1>6. \A u \in Threads \ {t} : Pointers(u)' /\ Merges(u)'
  <2> TAKE u \in Threads \ {t}
  <2>0. Pointers(u) /\ Merges(u) /\ Stage(u)
    BY DEF IInv
  <2>1. (MergesNow(u) => Inserts(u)) /\ (Inserts(u) => Works(u))
    BY DEF MergesNow, Inserts, Works
  <2>2. pc[u] = "removeNext" => Works(u)
    BY DEF Works
  <2>3. Pointers(u)'
    BY <1>1, <1>2, <1>4, <2>0, <2>1, <2>2 DEF Pointers
  <2>4. pc[u] = "mergeNext" => MergesNow(u)
    BY DEF MergesNow
  <2>5. Merges(u)'
    BY <1>1, <1>2, <1>4, <2>0, <2>1, <2>4 DEF Merges
  <2>6. QED
    BY <2>3, <2>5
<1>7. ListsApart'
  <2>1. ASSUME NEW j \in Kinds PROVE \A a, b \in spans'[j] \ Merging(j)' : a = b \/ Apart(a, b)
    <3>1. CASE j = k
      BY <3>1 DEF AllApart
    <3>2. CASE j # k
      <4>1. Merging(j) \subseteq Merging(j)'
        BY <1>1, <3>2 DEF Merging, MergesNow
      <4>2. QED
        BY <3>2, <4>1 DEF IInv, ListsApart
    <3>3. QED
      BY <3>1, <3>2
  <2>2. QED
    BY <2>1 DEF ListsApart, Apart
<1>8. QED
  BY <1>3, <1>5, <1>6, <1>7 DEF IInv

\* A list nobody inserts into is apart, and so is one that only loses a span
\* that is being merged.
LEMMA ApartKept ==
  ASSUME IInv, NEW t \in Threads, Others(t), NEW k \in Kinds,
         spans'[k] \subseteq spans[k],
         MergesNow(t) /\ list[t] = k => MergesNow(t)' /\ list'[t] = k /\ node'[t] = node[t]
  PROVE  AllApart(spans'[k] \ Merging(k)')
<1>1. Merging(k) \subseteq Merging(k)'
  BY DEF Merging, MergesNow, Others
<1>2. QED
  BY <1>1 DEF IInv, ListsApart, AllApart

LEMMA SpansKept ==
  ASSUME IInv, NEW t \in Threads, Others(t), TypeOK', spans' = spans, ~MergesNow(t),
         \A j \in Kinds : owner'[j] = t <=> j \in Held(t)',
         \A j \in Kinds, u \in Threads \ {t} : owner'[j] = u <=> owner[j] = u,
         Stage(t)', Pointers(t)', Merges(t)'
  PROVE  IInv'
<1>1. PICK k \in Kinds : k = "write"
  BY DEF Kinds
<1>2. AllApart(spans'[k] \ Merging(k)')
  BY ApartKept
<1>3. QED
  BY <1>2, Kept

-----------------------------------------------------------------------------
(* Insertion                                                               *)

LEMMA Types ==
  ASSUME IInv, NEW t \in Threads
  PROVE  /\ TypeOK
         /\ list[t] \in Kinds /\ phase[t] \in Kinds \cup {"none"}
         /\ spans[list[t]] \in SUBSET Spans
         /\ InExecution(t) => phase[t] \in Kinds /\ spans[phase[t]] \in SUBSET Spans
         /\ MergesNow(t) => node[t] \in Spans
         /\ InExecution(t) /\ pc[t] # "walk" => mem[t] \in Spans
         /\ cur[t] # NoSpan => cur[t] \in Spans
         /\ Stage(t) /\ Pointers(t) /\ Merges(t)
<1>1. TypeOK /\ Stage(t) /\ Pointers(t) /\ Merges(t)
  BY DEF IInv
<1>2. /\ list[t] \in Kinds /\ phase[t] \in Kinds \cup {"none"}
      /\ spans \in [Kinds -> SUBSET Spans]
  BY <1>1 DEF TypeOK
<1>3. InExecution(t) => phase[t] \in Kinds
  BY <1>2 DEF InExecution
<1>4. QED
  BY <1>1, <1>2, <1>3 DEF Pointers

\* Requests and calls of execute begin and hold nothing.
LEMMA StartStep ==
  ASSUME IInv, NEW t \in Threads, Request(t) \/ Execute(t)
  PROVE  IInv'
<1>0. /\ spans' = spans /\ owner' = owner /\ phase' = phase /\ mem' = mem /\ done' = done
      /\ cur' = cur /\ todo' = todo /\ advised' = advised
      /\ pc[t] = "idle"
      /\ \E l \in Kinds : list' = [list EXCEPT ![t] = l]
      /\ node' = node \/ \E m \in Spans : node' = [node EXCEPT ![t] = m]
      /\ \E l \in {"insert", "lock", "clear"} : pc' = [pc EXCEPT ![t] = l]
      /\ requests' \in Nat /\ executes' \in Nat
  BY DEF IInv, TypeOK, Request, Execute, Goto, Kinds
<1>1. TypeOK /\ Stage(t) /\ Pointers(t)
  BY Types
<1>2. TypeOK'
  BY <1>0, <1>1 DEF TypeOK, PCs
<1>3. Others(t)
  BY <1>0, <1>1 DEF Others, TypeOK
<1>4. /\ pc'[t] \in {"insert", "lock", "clear"} /\ list'[t] \in Kinds
      /\ pc'[t] = "insert" => node'[t] \in Spans
      /\ pc'[t] = "lock" => list'[t] = "release"
  BY <1>0, <1>1 DEF TypeOK, Request, Execute, Goto
<1>5. ~InExecution(t) /\ ~InExecution(t)' /\ ~Inserts(t) /\ ~Inserts(t)' /\ ~MergesNow(t)
      /\ ~MergesNow(t)' /\ ~Works(t)'
  BY <1>0, <1>1, <1>4 DEF Stage, InExecution, Inserts, MergesNow, Works
<1>6. Held(t) = {} /\ Held(t)' = {}
  BY <1>0, <1>4, <1>5 DEF Held
<1>7. Stage(t)'
  BY <1>4, <1>5 DEF Stage
<1>8. Pointers(t)'
  BY <1>0, <1>1, <1>5 DEF Pointers
<1>9. Merges(t)'
  BY <1>4, <1>5 DEF Merges
<1>10. QED
  BY <1>0, <1>2, <1>3, <1>5, <1>6, <1>7, <1>8, <1>9, Users, SpansKept

LEMMA InsertNodeStep ==
  ASSUME IInv, NEW t \in Threads, InsertNode(t)
  PROVE  IInv'
<1>k. PICK k \in Kinds : k = list[t]
  BY Types
<1>0. /\ pc[t] = "insert" /\ owner[k] = None
      /\ owner' = [owner EXCEPT ![k] = t]
      /\ spans' = [spans EXCEPT ![k] = @ \cup {node[t]}]
      /\ pc' = [pc EXCEPT ![t] = "mergePrev"]
      /\ list' = list /\ node' = node /\ phase' = phase /\ mem' = mem /\ done' = done
      /\ cur' = cur /\ todo' = todo /\ advised' = advised
      /\ requests' = requests /\ executes' = executes
  BY <1>k DEF InsertNode, Goto, locals, calls
<1>1. TypeOK /\ Stage(t) /\ Pointers(t) /\ k \in Kinds /\ spans[k] \in SUBSET Spans
  BY <1>k, Types
<1>2. node[t] \in Spans /\ ~InExecution(t)
  BY <1>0, <1>1 DEF Stage
<1>3. spans'[k] = spans[k] \cup {node[t]} /\ pc'[t] = "mergePrev" /\ owner'[k] = t
  BY <1>0, <1>1 DEF TypeOK
<1>4. TypeOK'
  BY <1>0, <1>1, <1>2 DEF TypeOK, PCs
<1>5. Others(t)
  BY <1>0, <1>1 DEF Others, TypeOK
<1>6. ~InExecution(t)' /\ ~Inserts(t) /\ Inserts(t)' /\ ~MergesNow(t) /\ MergesNow(t)' /\ Works(t)'
  BY <1>0, <1>2, <1>3 DEF InExecution, Inserts, MergesNow, Works
<1>7. Held(t) = {} /\ Held(t)' = {k}
  BY <1>0, <1>2, <1>3, <1>6, <1>k DEF Held
<1>8. Stage(t)' /\ Merges(t)'
  BY <1>3, <1>6 DEF Stage, Merges
<1>9. Pointers(t)'
  BY <1>0, <1>k, <1>1, <1>2, <1>3, <1>6 DEF Pointers
<1>10. AllApart(spans'[k] \ Merging(k)')
  <2>1. Merging(k) \subseteq Merging(k)' /\ node[t] \in Merging(k)'
    BY <1>0, <1>3, <1>5, <1>6, <1>k DEF Merging, MergesNow, Others
  <2>2. spans'[k] \ Merging(k)' \subseteq spans[k] \ Merging(k)
    BY <1>3, <2>1
  <2>3. QED
    BY <1>1, <2>2 DEF IInv, ListsApart, AllApart
<1>11. /\ \A j \in Kinds \ {k} : spans'[j] = spans[j] /\ owner'[j] = owner[j]
       /\ owner \in [Kinds -> Threads \cup {None}]
  BY <1>0, <1>1 DEF TypeOK
<1>12. /\ \A j \in Kinds : owner'[j] = t <=> j \in Held(t)'
       /\ \A j \in Kinds, u \in Threads \ {t} : owner'[j] = u <=> owner[j] = u
  BY <1>0, <1>3, <1>7, <1>11, Users
<1>13. QED
  BY <1>0, <1>1, <1>4, <1>5, <1>6, <1>8, <1>9, <1>10, <1>11, <1>12, Kept

\* The holder of a list's lock is the only one who merges there.
LEMMA OneMerges ==
  ASSUME IInv, NEW t \in Threads, NEW k \in Kinds, owner[k] = t
  PROVE  /\ MergesNow(t) /\ list[t] = k => Merging(k) = {node[t]}
         /\ ~(MergesNow(t) /\ list[t] = k) => Merging(k) = {}
<1>1. \A u \in Threads : MergesNow(u) /\ list[u] = k => u = t
  BY Users DEF MergesNow, Inserts
<1>2. QED
  BY <1>1 DEF Merging, MergesNow

LEMMA MergedSpan ==
  ASSUME NEW a \in Spans, NEW b \in Spans, a.low <= b.low
  PROVE  LET ab == Span(a.low, IF a.high > b.high THEN a.high ELSE b.high)
         IN  ab \in Spans /\ ab.low = a.low /\ ab.high >= a.high /\ ab.high >= b.high
                          /\ ab.high \in {a.high, b.high}
<1> DEFINE h == IF a.high > b.high THEN a.high ELSE b.high
<1>1. h \in 0 .. MaxPage /\ a.low < h /\ h >= a.high /\ h >= b.high /\ h \in {a.high, b.high}
  BY SpanFacts
<1>2. a.low \in 0 .. MaxPage
  BY SpanFacts
<1> HIDE DEF h
<1>3. Span(a.low, h) \in Spans /\ Span(a.low, h).low = a.low /\ Span(a.low, h).high = h
  BY <1>1, <1>2, SpanFacts
<1>4. QED
  BY <1>1, <1>3 DEF h

\* list_merge frees b and goes on with a; no execution merges.
LEMMA MergeEffect ==
  ASSUME IInv, NEW t \in Threads, MergesNow(t), NEW k \in Kinds, k = list[t],
         NEW a \in spans[k], NEW b \in spans[k], a # b, a.low <= b.low, CheckMerge(a, b),
         node[t] \in {a, b}, Merge(t, a, b), pc' = [pc EXCEPT ![t] = "mergeNext"],
         \A s \in spans[k] : s.low < a.low => s.high < a.low,
         UNCHANGED <<owner, list, phase, mem, done, cur, todo, advised, requests, executes>>
  PROVE  IInv'
<1>1. TypeOK /\ Stage(t) /\ Pointers(t) /\ Merges(t) /\ spans[k] \in SUBSET Spans
  BY Types
<1>2. PICK ab \in Spans : /\ spans' = [spans EXCEPT ![k] = (@ \ {a, b}) \cup {ab}]
                          /\ node' = [node EXCEPT ![t] = ab]
                          /\ ab.low = a.low
  BY <1>1, MergedSpan DEF Merge
<1>3. /\ spans'[k] = (spans[k] \ {a, b}) \cup {ab} /\ spans'[k] \in SUBSET Spans
      /\ node'[t] = ab /\ pc'[t] = "mergeNext" /\ list'[t] = k
  BY <1>1, <1>2 DEF TypeOK
<1>4. ~InExecution(t)
  <2>1. InExecution(t) => Apart(a, b)
    BY <1>1 DEF Merges, AllApart
  <2>2. ~Apart(a, b)
    <3>1. a \in Spans /\ b \in Spans
      BY <1>1
    <3>2. a.low \in Int /\ a.high \in Int /\ b.low \in Int /\ b.high \in Int /\ b.low < b.high
          /\ a.low < a.high
      BY <3>1, SpanFacts
    <3>3. QED
      BY <3>2 DEF CheckMerge, Apart
  <2>3. QED
    BY <2>1, <2>2
<1>5. TypeOK'
  BY <1>1, <1>2 DEF TypeOK, PCs
<1>6. Others(t)
  BY <1>1, <1>2 DEF Others, TypeOK
<1>7. ~InExecution(t)' /\ Inserts(t) /\ Inserts(t)' /\ MergesNow(t)' /\ Works(t)'
  BY <1>3, <1>4 DEF InExecution, Inserts, MergesNow, Works
<1>8. Held(t)' = Held(t)
  BY <1>3, <1>4, <1>7 DEF Held, Inserts
<1>9. Stage(t)'
  BY <1>3, <1>7 DEF Stage
<1>10. Pointers(t)'
  BY <1>1, <1>3, <1>4, <1>7 DEF Pointers
<1>11. Merges(t)'
  <2>1. ASSUME NEW s \in spans'[k], s.low < ab.low PROVE s.high < ab.low
    <3>1. ab.low \in Int
      BY SpanFacts
    <3>2. s \in spans[k]
      BY <1>3, <2>1, <3>1
    <3>3. QED
      BY <1>2, <2>1, <3>2
  <2>2. QED
    BY <1>3, <1>7, <2>1 DEF Merges
<1>12. AllApart(spans'[k] \ Merging(k)')
  <2>1. Merging(k) = {node[t]}
    BY <1>7, Users, OneMerges
  <2>2. ab \in Merging(k)'
    BY <1>3, <1>7 DEF Merging, MergesNow
  <2>3. spans'[k] \ Merging(k)' \subseteq spans[k] \ Merging(k)
    BY <1>3, <2>1, <2>2
  <2>4. QED
    BY <2>3 DEF IInv, ListsApart, AllApart
<1>13. \A j \in Kinds \ {k} : spans'[j] = spans[j]
  BY <1>1, <1>2 DEF TypeOK
<1>14. owner[k] = t
  BY <1>7, Users
<1>15. QED
  BY <1>5, <1>6, <1>8, <1>9, <1>10, <1>11, <1>12, <1>13, <1>14, Users, Kept

\* Otherwise the program counter moves.
LEMMA MergeSkips ==
  ASSUME IInv, NEW t \in Threads, MergesNow(t), NEW k \in Kinds, k = list[t],
         UNCHANGED <<spans, owner, list, node, phase, mem, done, cur, todo, advised,
                     requests, executes>>,
         \/ /\ pc' = [pc EXCEPT ![t] = "mergeNext"]
            /\ \A s \in spans[k] : s.low < node[t].low => s.high < node[t].low
         \/ pc' = [pc EXCEPT ![t] = "inserted"] /\ AllApart(spans[k])
  PROVE  IInv'
<1>1. TypeOK /\ Stage(t) /\ Pointers(t) /\ Merges(t)
  BY Types
<1>2. TypeOK'
  BY <1>1 DEF TypeOK, PCs
<1>3. Others(t)
  BY <1>1 DEF Others, TypeOK
<1>4. pc'[t] \in {"mergeNext", "inserted"}
  BY <1>1 DEF TypeOK
<1>5. /\ InExecution(t)' <=> InExecution(t)
      /\ Inserts(t) /\ Inserts(t)' /\ (MergesNow(t)' => pc'[t] = "mergeNext")
      /\ Works(t)' /\ Works(t) /\ pc[t] # "walk"
  BY <1>4 DEF InExecution, Inserts, MergesNow, Works
<1>6. Held(t)' = Held(t)
  BY <1>5 DEF Held, Inserts
<1>7. Stage(t)'
  BY <1>1, <1>4, <1>5 DEF Stage
<1>8. Pointers(t)'
  BY <1>1, <1>4, <1>5 DEF Pointers
<1>9. Merges(t)'
  BY <1>1, <1>4, <1>5 DEF Merges, TypeOK
<1>10. AllApart(spans'[k] \ Merging(k)')
  <2>1. CASE pc'[t] = "inserted"
    BY <1>1, <2>1 DEF AllApart, TypeOK
  <2>2. CASE pc'[t] = "mergeNext"
    <3>1. MergesNow(t)'
      BY <2>2 DEF MergesNow
    <3>2. QED
      BY <1>3, <3>1, ApartKept
  <2>3. QED
    BY <1>4, <2>1, <2>2
<1>11. owner[k] = t
  BY <1>5, Users
<1>12. QED
  BY <1>2, <1>3, <1>6, <1>7, <1>8, <1>9, <1>10, <1>11, Users, Kept

\* The node before is merged, or it and all before it end before the new one.
LEMMA MergePrevStep ==
  ASSUME IInv, NEW t \in Threads, MergePrev(t)
  PROVE  IInv'
<1>k. PICK k \in Kinds : k = list[t]
  BY Types
<1> DEFINE S == spans[k]
           n == node[t]
<1>0. /\ pc[t] = "mergePrev" /\ pc' = [pc EXCEPT ![t] = "mergeNext"]
      /\ UNCHANGED <<owner, list, phase, mem, done, cur, todo, advised, requests, executes>>
      /\ IF \E p \in S : IsPrev(p, S, n.low) /\ CheckMerge(p, n)
         THEN \E p \in S : IsPrev(p, S, n.low) /\ Merge(t, p, n)
         ELSE UNCHANGED <<spans, node>>
  BY <1>k DEF MergePrev, Goto, calls
<1>1. MergesNow(t) /\ Inserts(t)
  BY <1>0 DEF MergesNow, Inserts
<1>2. S \in SUBSET Spans /\ n \in S /\ n \in Spans
  BY <1>1, <1>k, Types DEF Pointers
<1>3. \A a, b \in S : a # n /\ b # n => a = b \/ Apart(a, b)
  <2>1. Merging(k) = {n}
    BY <1>k, <1>1, Users, OneMerges
  <2>2. QED
    BY <2>1 DEF IInv, ListsApart
\* What is before a predecessor of n ends before it.
<1>4. \A p, s \in S : p.low < n.low /\ IsPrev(p, S, n.low) /\ s.low < n.low /\ s # p
        => s.high < p.low
  <2> SUFFICES ASSUME NEW p \in S, NEW s \in S, p.low < n.low, IsPrev(p, S, n.low),
                      s.low < n.low, s # p
               PROVE  s.high < p.low
    OBVIOUS
  <2>1. /\ p.low \in Int /\ p.high \in Int /\ p.low < p.high
        /\ s.low \in Int /\ s.high \in Int /\ n.low \in Int
    BY <1>2, SpanFacts
  <2>2. s.low <= p.low
    BY DEF IsPrev
  <2>3. p # n /\ s # n
    BY <2>1
  <2>4. Apart(s, p)
    BY <1>3, <2>3
  <2>5. QED
    BY <2>1, <2>2, <2>4 DEF Apart
<1>5. CASE \E p \in S : IsPrev(p, S, n.low) /\ CheckMerge(p, n)
  <2>1. PICK p \in S : IsPrev(p, S, n.low) /\ Merge(t, p, n)
    BY <1>0, <1>5
  <2>2. PICK q \in S : IsPrev(q, S, n.low) /\ CheckMerge(q, n)
    BY <1>5
  <2>3. /\ p.low \in Int /\ q.low \in Int /\ n.low \in Int
        /\ p.low < n.low /\ q.low < n.low /\ p.low < p.high /\ p.high \in Int
    BY <1>2, <2>1, <2>2, SpanFacts DEF IsPrev
  <2>4. p = q
    <3>1. q # p => q.high < p.low /\ p.high < q.low
      BY <1>4, <2>1, <2>2, <2>3
    <3>2. q.low < q.high /\ q.high \in Int
      BY <1>2, SpanFacts
    <3>3. QED
      BY <2>3, <3>1, <3>2
  <2>5. \A s \in S : s.low < p.low => s.high < p.low
    <3> SUFFICES ASSUME NEW s \in S, s.low < p.low PROVE s.high < p.low
      OBVIOUS
    <3>1. s.low \in Int
      BY <1>2, SpanFacts
    <3>2. s.low < n.low /\ s # p
      BY <2>3, <3>1
    <3>3. QED
      BY <1>4, <2>1, <2>3, <3>2
  <2>6. p.low <= n.low /\ p # n /\ CheckMerge(p, n)
    BY <2>2, <2>3, <2>4
  <2> HIDE DEF S, n
  <2>7. QED
    BY <1>0, <1>1, <1>2, <1>k, <2>1, <2>5, <2>6, MergeEffect DEF S, n
<1>6. CASE ~ \E p \in S : IsPrev(p, S, n.low) /\ CheckMerge(p, n)
  <2>1. ASSUME NEW s \in S, s.low < n.low PROVE s.high < n.low
    <3>1. n.low \in Int
      BY <1>2, SpanFacts
    <3>2. PICK p \in S : IsPrev(p, S, n.low)
      BY <1>2, <2>1, <3>1, PrevExists
    <3>3. p.low < n.low /\ ~CheckMerge(p, n)
      BY <1>6, <3>2 DEF IsPrev
    <3>4. /\ p.low \in Int /\ p.high \in Int /\ p.low < p.high
          /\ s.low \in Int /\ s.high \in Int /\ n.low \in Int
      BY <1>2, SpanFacts
    <3>5. p.high < n.low
      BY <3>3, <3>4 DEF CheckMerge
    <3>6. s # p => s.high < p.low
      BY <1>4, <2>1, <3>2, <3>3
    <3>7. QED
      BY <3>4, <3>5, <3>6
  <2>2. UNCHANGED <<spans, node>>
    BY <1>0, <1>6
  <2>3. QED
    BY <1>0, <1>1, <1>k, <2>1, <2>2, MergeSkips
<1>7. QED
  BY <1>5, <1>6

LEMMA MergeNextStep ==
  ASSUME IInv, NEW t \in Threads, MergeNext(t)
  PROVE  IInv'
<1>k. PICK k \in Kinds : k = list[t]
  BY Types
<1>0. /\ pc[t] = "mergeNext" /\ pc' = pc
      /\ UNCHANGED <<owner, list, phase, mem, done, cur, todo, advised, requests, executes>>
  BY DEF MergeNext, calls
<1>1. PICK s \in spans[k] \ {node[t]} :
        /\ IsSeek(s, spans[k] \ {node[t]}, node[t].low)
        /\ CheckMerge(node[t], s) /\ Merge(t, node[t], s)
  BY <1>k DEF MergeNext
<1>2. MergesNow(t) /\ pc' = [pc EXCEPT ![t] = "mergeNext"]
  BY <1>0, Types DEF MergesNow, TypeOK
<1>3. Pointers(t) /\ Merges(t) /\ spans[k] \in SUBSET Spans
  BY <1>k, Types
<1>4. node[t] \in spans[k] /\ \A u \in spans[k] : u.low < node[t].low => u.high < node[t].low
  BY <1>0, <1>2, <1>3, <1>k DEF Pointers, Merges
<1>5. node[t].low <= s.low
  <2>1. s.low \in Int /\ node[t].low \in Int /\ s.low >= node[t].low
    BY <1>1, <1>3, <1>4, SpanFacts DEF IsSeek
  <2>2. QED
    BY <2>1
<1>6. QED
  BY <1>0, <1>1, <1>2, <1>4, <1>5, <1>k, MergeEffect

\* The node after ends the merges: the new one is apart from all others.
LEMMA MergeDoneStep ==
  ASSUME IInv, NEW t \in Threads, MergeDone(t)
  PROVE  IInv'
<1>k. PICK k \in Kinds : k = list[t]
  BY Types
<1> DEFINE S == spans[k]
           n == node[t]
<1>0. /\ pc[t] = "mergeNext" /\ pc' = [pc EXCEPT ![t] = "inserted"]
      /\ UNCHANGED <<spans, owner, list, node, phase, mem, done, cur, todo, advised,
                     requests, executes>>
      /\ \A s \in S \ {n} : IsSeek(s, S \ {n}, n.low) => ~CheckMerge(n, s)
  BY <1>k DEF MergeDone, Goto, calls, locals
<1>1. MergesNow(t) /\ Inserts(t)
  BY <1>0 DEF MergesNow, Inserts
<1>2. S \in SUBSET Spans /\ n \in S /\ n \in Spans
  BY <1>1, <1>k, Types DEF Pointers
<1>3. \A a, b \in S : a # n /\ b # n => a = b \/ Apart(a, b)
  <2>1. Merging(k) = {n}
    BY <1>k, <1>1, Users, OneMerges
  <2>2. QED
    BY <2>1 DEF IInv, ListsApart
<1>4. ASSUME NEW s \in S, s # n PROVE Apart(s, n)
  <2>0. n.low \in Int /\ n.high \in Int /\ s.low \in Int /\ s.high \in Int
    BY <1>2, SpanFacts
  <2>1. CASE s.low < n.low
    <3>1. s.high < n.low
      BY <1>0, <1>k, <2>1, Types DEF Merges
    <3>2. QED
      BY <3>1 DEF Apart
  <2>2. CASE ~(s.low < n.low)
    <3>1. PICK u \in S \ {n} : IsSeek(u, S \ {n}, n.low)
      <4>1. S \ {n} \in SUBSET Spans /\ s \in S \ {n} /\ s.low >= n.low
        BY <1>2, <1>4, <2>0, <2>2
      <4>2. QED
        BY <2>0, <4>1, SeekExists
    <3>2. ~CheckMerge(n, u) /\ s.low >= u.low
      BY <1>0, <1>4, <2>0, <2>2, <3>1 DEF IsSeek
    <3>3. u.low \in Int
      BY <1>2, SpanFacts
    <3>4. n.high < s.low
      BY <2>0, <3>2, <3>3 DEF CheckMerge
    <3>5. QED
      BY <3>4 DEF Apart
  <2>3. QED
    BY <2>1, <2>2
<1>5. AllApart(S)
  BY <1>3, <1>4 DEF AllApart, Apart
<1>6. QED
  BY <1>0, <1>1, <1>5, <1>k, MergeSkips

LEMMA InsertedStep ==
  ASSUME IInv, NEW t \in Threads, Inserted(t)
  PROVE  IInv'
<1>k. PICK k \in Kinds : k = list[t]
  BY Types
<1>0. /\ pc[t] = "inserted" /\ ~InExecution(t) /\ pc' = [pc EXCEPT ![t] = "idle"]
      /\ owner' = [owner EXCEPT ![k] = None]
      /\ node' = [node EXCEPT ![t] = NoSpan] /\ list' = [list EXCEPT ![t] = "write"]
      /\ UNCHANGED <<spans, phase, mem, cur, todo, done, advised, requests, executes>>
  BY <1>k DEF Inserted, Goto, InExecution, calls
<1>1. TypeOK /\ Stage(t) /\ Pointers(t)
  BY Types
<1>2. pc'[t] = "idle" /\ list'[t] = "write" /\ owner'[k] = None
  BY <1>0, <1>1 DEF TypeOK
<1>3. TypeOK'
  BY <1>0, <1>1 DEF TypeOK, PCs, Kinds
<1>4. Others(t)
  BY <1>0, <1>1 DEF Others, TypeOK
<1>5. ~InExecution(t)' /\ Inserts(t) /\ ~Inserts(t)' /\ ~MergesNow(t) /\ ~MergesNow(t)' /\ ~Works(t)'
  BY <1>0, <1>2 DEF InExecution, Inserts, MergesNow, Works
<1>6. Held(t)' = {} /\ Held(t) = {k}
  BY <1>0, <1>2, <1>5, <1>k DEF Held, Inserts
<1>7. Stage(t)' /\ Merges(t)'
  BY <1>2, <1>5 DEF Stage, Merges
<1>8. Pointers(t)'
  BY <1>0, <1>1, <1>5 DEF Pointers
<1>9. AllApart(spans'[k] \ Merging(k)')
  BY <1>0, <1>4, <1>5, ApartKept
<1>10. owner[k] = t /\ \A j \in Kinds \ {k} : owner'[j] = owner[j]
  BY <1>0, <1>1, <1>5, <1>k, Users DEF TypeOK
<1>11. /\ \A j \in Kinds : owner'[j] = t <=> j \in Held(t)'
       /\ \A j \in Kinds, u \in Threads \ {t} : owner'[j] = u <=> owner[j] = u
  BY <1>2, <1>6, <1>10, Users
<1>12. QED
  BY <1>0, <1>3, <1>4, <1>5, <1>7, <1>8, <1>9, <1>10, <1>11, Kept

\* In an execution no list holds a node that still has to be merged.
LEMMA WorkApart ==
  ASSUME IInv, NEW t \in Threads, InExecution(t), Works(t)
  PROVE  AllApart(spans[list[t]])
<1>1. list[t] \in Kinds /\ Merges(t)
  BY Types
<1>2. owner[list[t]] = t
  BY Users
<1>3. CASE MergesNow(t)
  BY <1>1, <1>3 DEF Merges
<1>4. CASE ~MergesNow(t)
  <2>1. PICK k \in Kinds : k = list[t]
    BY <1>1
  <2>2. Merging(k) = {}
    BY <1>2, <1>4, <2>1, OneMerges
  <2>3. QED
    BY <2>1, <2>2 DEF IInv, ListsApart, AllApart
<1>5. QED
  BY <1>3, <1>4

\* A step of list_remove keeps its list apart and its pointers in it.
LEMMA WorkKept ==
  ASSUME IInv, NEW t \in Threads, InExecution(t), Works(t), NEW k \in Kinds, k = list[t],
         UNCHANGED <<owner, list, phase, mem, done, advised, requests, executes>>,
         NEW l \in {"mergePrev", "removeNext"}, pc' = [pc EXCEPT ![t] = l],
         NEW S \in SUBSET Spans, spans' = [spans EXCEPT ![k] = S],
         NEW n \in Spans \cup {NoSpan}, node' = [node EXCEPT ![t] = n],
         NEW c \in Spans \cup {NoSpan}, cur' = [cur EXCEPT ![t] = c],
         NEW d \in Spans \cup {NoSpan}, todo' = [todo EXCEPT ![t] = d],
         AllApart(S), l = "mergePrev" => n \in S, c # NoSpan => c \in S,
         d # NoSpan => l = "mergePrev" /\ \A s \in S : Apart(s, d)
  PROVE  IInv'
<1>1. TypeOK /\ Stage(t) /\ Pointers(t)
  BY Types
<1>2. pc'[t] = l /\ list'[t] = k /\ spans'[k] = S /\ node'[t] = n /\ cur'[t] = c /\ todo'[t] = d
  BY <1>1 DEF TypeOK
<1>3. TypeOK'
  BY <1>1 DEF TypeOK, PCs
<1>4. Others(t)
  BY <1>1 DEF Others, TypeOK
<1>5. /\ InExecution(t)' /\ Works(t)' /\ (Inserts(t)' <=> l = "mergePrev")
      /\ MergesNow(t)' <=> l = "mergePrev"
  BY <1>2 DEF InExecution, Inserts, MergesNow, Works
<1>6. Held(t)' = Held(t)
  BY <1>5 DEF Held
<1>7. phase[t] \in Stronger(k) /\ owner[k] = t /\ phase[t] \in Kinds
  BY Users, Types
<1>8. Stage(t)'
  BY <1>2, <1>5, <1>7 DEF Stage
<1>9. spans'[phase[t]] = spans[phase[t]] /\ pc[t] # "walk"
  <2>1. phase[t] # k
    BY <1>7 DEF Stronger, Kinds
  <2>2. pc[t] # "walk"
    BY DEF Works, Inserts
  <2>3. QED
    BY <1>1, <1>7, <2>1, <2>2 DEF TypeOK
<1>10. Pointers(t)'
  BY <1>1, <1>2, <1>5, <1>9 DEF Pointers
<1>11. Merges(t)'
  BY <1>2, <1>5 DEF Merges
<1>12. AllApart(spans'[k] \ Merging(k)')
  BY <1>2 DEF AllApart
<1>13. \A j \in Kinds \ {k} : spans'[j] = spans[j]
  BY <1>1 DEF TypeOK
<1>14. QED
  BY <1>3, <1>4, <1>6, <1>7, <1>8, <1>10, <1>11, <1>12, <1>13, Users, Kept, SMTT(60)

\* What may be inserted next to apart spans.
LEMMA ApartAdd ==
  ASSUME NEW S, AllApart(S), NEW d, \A s \in S : Apart(s, d)
  PROVE  AllApart(S \cup {d})
BY DEF AllApart, Apart

-----------------------------------------------------------------------------
(* Removal                                                                 *)

\* A part of a span is apart from what the span is apart from.
LEMMA ApartPart ==
  ASSUME NEW S \in SUBSET Spans, AllApart(S), NEW p \in S, NEW q \in Spans,
         p.low <= q.low, q.high <= p.high
  PROVE  AllApart((S \ {p}) \cup {q}) /\ \A s \in S \ {p} : Apart(s, q)
<1>1. ASSUME NEW s \in S \ {p} PROVE Apart(s, q)
  <2>1. Apart(s, p)
    BY DEF AllApart
  <2>2. /\ s.low \in Int /\ s.high \in Int /\ p.low \in Int /\ p.high \in Int
        /\ q.low \in Int /\ q.high \in Int
    BY SpanFacts
  <2>3. QED
    BY <2>1, <2>2 DEF Apart
<1>2. AllApart(S \ {p})
  BY DEF AllApart
<1>3. QED
  BY <1>1, <1>2, ApartAdd

LEMMA OnePrev ==
  ASSUME NEW S \in SUBSET Spans, AllApart(S), NEW low, NEW p \in S, NEW q \in S,
         IsPrev(p, S, low), IsPrev(q, S, low)
  PROVE  p = q
<1>1. p.low <= q.low /\ q.low <= p.low
  BY DEF IsPrev
<1>2. p.low \in Int /\ q.low \in Int /\ p.low < p.high /\ q.low < q.high
      /\ p.high \in Int /\ q.high \in Int
  BY SpanFacts
<1>3. ~Apart(p, q)
  BY <1>1, <1>2 DEF Apart
<1>4. QED
  BY <1>3 DEF AllApart

LEMMA InsertUpperStep ==
  ASSUME IInv, NEW t \in Threads, InsertUpper(t)
  PROVE  IInv'
<1>k. PICK k \in Kinds : k = list[t]
  BY Types
<1>d. PICK d : d = todo[t]
  OBVIOUS
<1>0. /\ pc[t] = "inserted" /\ InExecution(t) /\ d # NoSpan
      /\ pc' = [pc EXCEPT ![t] = "mergePrev"]
      /\ spans' = [spans EXCEPT ![k] = @ \cup {d}]
      /\ node' = [node EXCEPT ![t] = d] /\ todo' = [todo EXCEPT ![t] = NoSpan]
      /\ UNCHANGED <<owner, list, phase, mem, cur, done, advised, requests, executes>>
  BY <1>d, <1>k DEF InsertUpper, Goto, InExecution, calls
<1>1. TypeOK /\ Pointers(t) /\ spans[k] \in SUBSET Spans
  BY <1>k, Types
<1>2. Works(t)
  BY <1>0 DEF Works, Inserts
<1>3. d \in Spans /\ \A s \in spans[k] : Apart(s, d)
  BY <1>0, <1>1, <1>d, <1>k DEF Pointers, TypeOK
<1>4. PICK S \in SUBSET Spans : S = spans[k] \cup {d}
  BY <1>1, <1>3
<1>5. AllApart(S)
  BY <1>0, <1>2, <1>3, <1>4, <1>k, WorkApart, ApartAdd
<1>6. PICK c \in Spans \cup {NoSpan} : c = cur[t]
  BY <1>1 DEF TypeOK
<1>7. c # NoSpan => c \in S
  BY <1>1, <1>4, <1>6, <1>k DEF Pointers
<1>8. /\ spans' = [spans EXCEPT ![k] = S] /\ cur' = [cur EXCEPT ![t] = c]
      /\ d \in S /\ d \in Spans \cup {NoSpan}
  BY <1>0, <1>1, <1>3, <1>4, <1>6 DEF TypeOK
<1>9. QED
  BY <1>0, <1>2, <1>5, <1>7, <1>8, <1>k, WorkKept

LEMMA SplitDoneStep ==
  ASSUME IInv, NEW t \in Threads, SplitDone(t)
  PROVE  IInv'
<1>k. PICK k \in Kinds : k = list[t]
  BY Types
<1>0. /\ pc[t] = "inserted" /\ InExecution(t) /\ todo[t] = NoSpan
      /\ pc' = [pc EXCEPT ![t] = "removeNext"] /\ node' = [node EXCEPT ![t] = NoSpan]
      /\ UNCHANGED <<spans, owner, list, phase, mem, cur, todo, done, advised, requests, executes>>
  BY DEF SplitDone, Goto, InExecution, calls
<1>1. TypeOK /\ Pointers(t)
  BY Types
<1>2. Works(t)
  BY <1>0 DEF Works, Inserts
<1>3. PICK S \in SUBSET Spans : S = spans[k]
  BY <1>k, Types
<1>4. AllApart(S)
  BY <1>0, <1>2, <1>3, <1>k, WorkApart
<1>5. PICK c \in Spans \cup {NoSpan} : c = cur[t]
  BY <1>1 DEF TypeOK
<1>6. c # NoSpan => c \in S
  BY <1>1, <1>3, <1>5, <1>k DEF Pointers
<1>7. /\ spans' = [spans EXCEPT ![k] = S] /\ cur' = [cur EXCEPT ![t] = c]
      /\ todo' = [todo EXCEPT ![t] = NoSpan]
  BY <1>0, <1>1, <1>3, <1>5 DEF TypeOK
<1>8. UNCHANGED <<owner, list, phase, mem, done, advised, requests, executes>>
  BY <1>0
<1>9. PICK n \in Spans \cup {NoSpan} : n = NoSpan
  OBVIOUS
<1>10. node' = [node EXCEPT ![t] = n] /\ todo' = [todo EXCEPT ![t] = n]
       /\ pc' = [pc EXCEPT ![t] = "removeNext"] /\ "removeNext" # "mergePrev"
  BY <1>0, <1>7, <1>9
<1>11. IInv /\ InExecution(t) /\ Works(t)
  BY <1>0, <1>2
<1>12. QED
  BY <1>4, <1>6, <1>7, <1>8, <1>9, <1>10, <1>11, <1>k, WorkKept

LEMMA RemovePrevStep ==
  ASSUME IInv, NEW t \in Threads, RemovePrev(t)
  PROVE  IInv'
<1>k. PICK k \in Kinds : k = list[t]
  BY Types
<1>m. PICK m : m = mem[t]
  OBVIOUS
<1> DEFINE A == spans[k]
<1>0. /\ pc[t] = "removePrev"
      /\ UNCHANGED <<owner, list, phase, mem, done, advised, requests, executes>>
      /\ \/ cur' = [cur EXCEPT ![t] = NoSpan]
         \/ \E s \in A : IsSeek(s, A, m.low) /\ cur' = [cur EXCEPT ![t] = s]
      /\ \/ /\ \E p \in A : IsPrev(p, A, m.low) /\ CheckOverlap(p, m)
            /\ \E p \in A : IsPrev(p, A, m.low) /\ Cut(t, A, p, m)
         \/ Goto(t, "removeNext") /\ UNCHANGED <<spans, node, todo>>
  BY <1>k, <1>m DEF RemovePrev, calls
<1>1. TypeOK /\ Stage(t) /\ Pointers(t) /\ A \in SUBSET Spans
  BY <1>k, Types
<1>2. InExecution(t) /\ Works(t) /\ todo[t] = NoSpan
  <2>1. InExecution(t) /\ Works(t) /\ ~Inserts(t)
    BY <1>0, <1>1 DEF Stage, Works, Inserts
  <2>2. QED
    BY <1>1, <2>1 DEF Pointers
<1>3. m \in Spans /\ AllApart(A)
  BY <1>0, <1>2, <1>k, <1>m, WorkApart, Types
<1>4. m.low \in 0 .. MaxPage /\ m.high \in 0 .. MaxPage /\ m.low < m.high /\ m.low \in Int /\ m.high \in Int
  BY <1>3, SpanFacts
<1>5. PICK c \in Spans \cup {NoSpan} : /\ cur' = [cur EXCEPT ![t] = c]
                                       /\ c # NoSpan => c \in A /\ c.low >= m.low
  BY <1>0, <1>1 DEF IsSeek
<1>6. CASE /\ \E p \in A : IsPrev(p, A, m.low) /\ CheckOverlap(p, m)
           /\ \E p \in A : IsPrev(p, A, m.low) /\ Cut(t, A, p, m)
  <2>1. PICK p \in A : IsPrev(p, A, m.low) /\ Cut(t, A, p, m)
    BY <1>6
  <2>2. /\ p \in Spans /\ p.low \in 0 .. MaxPage /\ p.high \in 0 .. MaxPage /\ p.low < m.low
        /\ p.low \in Int /\ p.high \in Int /\ p.low < p.high
    BY <1>1, <2>1, SpanFacts DEF IsPrev
  <2>3. PICK q : q = Span(p.low, m.low)
    OBVIOUS
  <2>4. q \in Spans /\ q.low = p.low /\ q.high = m.low
    BY <1>4, <2>2, <2>3, SpanFacts
  <2>5. PICK S \in SUBSET Spans : S = (A \ {p}) \cup {q}
    BY <1>1, <2>4
  <2>6. spans' = [spans EXCEPT ![k] = S]
    BY <1>1, <1>k, <2>1, <2>3, <2>5 DEF Cut, Replace
  <2>7. p.high > m.low
    <3>1. PICK o \in A : IsPrev(o, A, m.low) /\ CheckOverlap(o, m)
      BY <1>6
    <3>2. o = p
      BY <1>1, <1>3, <2>1, <3>1, OnePrev
    <3>3. QED
      BY <2>2, <3>1, <3>2 DEF CheckOverlap
  <2>8. c # NoSpan => c \in S
    <3>1. c # NoSpan => c # p
      BY <1>4, <1>5, <2>2
    <3>2. QED
      BY <1>5, <2>5, <3>1
  <2>9. AllApart(S) /\ \A s \in A \ {p} : Apart(s, q)
    BY <1>1, <1>3, <1>4, <2>2, <2>4, <2>5, <2>7, ApartPart
  <2>10. CASE /\ Goto(t, "removeNext")
              /\ UNCHANGED <<node, todo>>
    <3>1. PICK n \in Spans \cup {NoSpan} : n = node[t]
      BY <1>1 DEF TypeOK
    <3>2. /\ node' = [node EXCEPT ![t] = n] /\ todo' = [todo EXCEPT ![t] = NoSpan]
          /\ pc' = [pc EXCEPT ![t] = "removeNext"]
      BY <1>1, <1>2, <2>10, <3>1 DEF TypeOK, Goto
    <3> HIDE DEF A
    <3>3. QED
      BY <1>0, <1>2, <1>5, <1>k, <2>6, <2>8, <2>9, <3>2, WorkKept
  <2>11. CASE /\ p.high > m.high
              /\ node' = [node EXCEPT ![t] = q]
              /\ todo' = [todo EXCEPT ![t] = Span(m.high, p.high)]
              /\ Goto(t, "mergePrev")
    <3>1. PICK d : d = Span(m.high, p.high)
      OBVIOUS
    <3>2. d \in Spans /\ d.low = m.high /\ d.high = p.high
      BY <1>4, <2>2, <2>11, <3>1, SpanFacts
    <3>3. \A s \in A \ {p} : Apart(s, d)
      <4>1. p.low <= d.low /\ d.high <= p.high
        BY <1>4, <2>2, <3>2
      <4>2. QED
        BY <1>1, <1>3, <3>2, <4>1, ApartPart
    <3>4. Apart(q, d)
      BY <1>4, <2>4, <3>2 DEF Apart
    <3>5. \A s \in S : Apart(s, d)
      BY <2>5, <3>3, <3>4
    <3>6. q \in S /\ pc' = [pc EXCEPT ![t] = "mergePrev"] /\ todo' = [todo EXCEPT ![t] = d]
      BY <2>5, <2>11, <3>1 DEF Goto
    <3> HIDE DEF A
    <3>7. QED
      BY <1>0, <1>2, <1>5, <1>k, <2>4, <2>6, <2>8, <2>9, <2>11, <3>2, <3>5, <3>6, WorkKept
  <2>12. QED
    BY <2>1, <2>3, <2>10, <2>11 DEF Cut
<1>7. CASE Goto(t, "removeNext") /\ UNCHANGED <<spans, node, todo>>
  <2>1. PICK S \in SUBSET Spans : S = A
    BY <1>1
  <2>2. PICK n \in Spans \cup {NoSpan} : n = node[t]
    BY <1>1 DEF TypeOK
  <2>3. /\ spans' = [spans EXCEPT ![k] = S] /\ node' = [node EXCEPT ![t] = n]
        /\ todo' = [todo EXCEPT ![t] = NoSpan] /\ pc' = [pc EXCEPT ![t] = "removeNext"]
    BY <1>1, <1>2, <1>7, <2>1, <2>2 DEF TypeOK, Goto
  <2>4. AllApart(S) /\ (c # NoSpan => c \in S)
    BY <1>3, <1>5, <2>1
  <2> HIDE DEF A
  <2>5. QED
    BY <1>0, <1>2, <1>5, <1>k, <2>3, <2>4, WorkKept
<1>8. QED
  BY <1>0, <1>6, <1>7

\* Where a removal goes on.
LEMMA RemovalState ==
  ASSUME IInv, NEW t \in Threads, pc[t] = "removeNext"
  PROVE  /\ InExecution(t) /\ Works(t) /\ ~Inserts(t) /\ todo[t] = NoSpan
         /\ mem[t] \in Spans /\ AllApart(spans[list[t]])
         /\ cur[t] # NoSpan => cur[t] \in spans[list[t]] /\ cur[t] \in Spans
<1>1. InExecution(t) /\ Works(t) /\ ~Inserts(t)
  BY Types DEF Stage, Works, Inserts
<1>2. todo[t] = NoSpan
  BY <1>1, Types DEF Pointers
<1>3. mem[t] \in Spans
  BY <1>1, Types
<1>4. QED
  BY <1>1, <1>2, <1>3, WorkApart, Types DEF Pointers

\* A step of the second loop of list_remove.
LEMMA RemovalStep ==
  ASSUME IInv, NEW t \in Threads, pc[t] = "removeNext", NEW k \in Kinds, k = list[t],
         NEW S \in SUBSET Spans, spans' = [spans EXCEPT ![k] = S], AllApart(S),
         NEW c \in Spans \cup {NoSpan}, cur' = [cur EXCEPT ![t] = c], c # NoSpan => c \in S,
         UNCHANGED <<owner, pc, list, node, phase, mem, done, todo, advised, requests, executes>>
  PROVE  IInv'
<1>1. TypeOK
  BY Types
<1>2. InExecution(t) /\ Works(t) /\ todo[t] = NoSpan
  BY RemovalState
<1>3. PICK n \in Spans \cup {NoSpan} : n = node[t]
  BY <1>1 DEF TypeOK
<1>4. PICK d \in Spans \cup {NoSpan} : d = NoSpan
  OBVIOUS
<1>5. PICK l \in {"mergePrev", "removeNext"} : l = "removeNext"
  OBVIOUS
<1>6. /\ node' = [node EXCEPT ![t] = n] /\ todo' = [todo EXCEPT ![t] = d]
      /\ pc' = [pc EXCEPT ![t] = l]
  BY <1>1, <1>2, <1>3, <1>4, <1>5 DEF TypeOK
<1>7. UNCHANGED <<owner, list, phase, mem, done, advised, requests, executes>>
  OBVIOUS
<1>8. (l = "mergePrev" => n \in S) /\ (d # NoSpan => l = "mergePrev" /\ \A s \in S : Apart(s, d))
  BY <1>4, <1>5
<1>9. QED
  BY <1>2, <1>6, <1>7, <1>8, WorkKept

LEMMA DeleteNextStep ==
  ASSUME IInv, NEW t \in Threads, DeleteNext(t)
  PROVE  IInv'
<1>k. PICK k \in Kinds : k = list[t]
  BY Types
<1>c. PICK c : c = cur[t]
  OBVIOUS
<1> DEFINE A == spans[k]
<1>0. /\ pc[t] = "removeNext" /\ c # NoSpan
      /\ UNCHANGED <<owner, pc, list, node, phase, mem, done, todo, advised, requests, executes>>
      /\ spans' = [spans EXCEPT ![k] = A \ {c}]
      /\ \/ cur' = [cur EXCEPT ![t] = NoSpan]
         \/ \E s \in A : IsSeek(s, A, c.low + 1) /\ cur' = [cur EXCEPT ![t] = s]
  BY <1>k, <1>c DEF DeleteNext, Replace, calls
<1>1. A \in SUBSET Spans /\ AllApart(A) /\ c \in Spans
  BY <1>0, <1>c, <1>k, RemovalState, Types
<1>2. PICK S \in SUBSET Spans : S = A \ {c}
  BY <1>1
<1>3. PICK e \in Spans \cup {NoSpan} : /\ cur' = [cur EXCEPT ![t] = e]
                                       /\ e # NoSpan => e \in A /\ e.low >= c.low + 1
  BY <1>0, <1>1 DEF IsSeek
<1>4. e # NoSpan => e \in S
  <2>1. e # NoSpan => e # c
    BY <1>1, <1>3, SpanFacts
  <2>2. QED
    BY <1>2, <1>3, <2>1
<1>5. AllApart(S)
  BY <1>1, <1>2 DEF AllApart
<1>6. spans' = [spans EXCEPT ![k] = S]
  BY <1>0, <1>2
<1> HIDE DEF A
<1>7. QED
  BY <1>0, <1>3, <1>4, <1>5, <1>6, <1>k, RemovalStep

LEMMA ShortenNextStep ==
  ASSUME IInv, NEW t \in Threads, ShortenNext(t)
  PROVE  IInv'
<1>k. PICK k \in Kinds : k = list[t]
  BY Types
<1>c. PICK c : c = cur[t]
  OBVIOUS
<1>m. PICK m : m = mem[t]
  OBVIOUS
<1> DEFINE A == spans[k]
<1>r. PICK r : r = Span(m.high, c.high)
  OBVIOUS
<1>0. /\ pc[t] = "removeNext" /\ c # NoSpan /\ CheckOverlap(m, c) /\ m.high < c.high
      /\ UNCHANGED <<owner, pc, list, node, phase, mem, done, todo, advised, requests, executes>>
      /\ spans' = [spans EXCEPT ![k] = (A \ {c}) \cup {r}]
      /\ cur' = [cur EXCEPT ![t] = r]
  BY <1>k, <1>c, <1>m, <1>r DEF ShortenNext, Replace, calls
<1>1. A \in SUBSET Spans /\ AllApart(A) /\ c \in Spans /\ c \in A /\ m \in Spans
  BY <1>0, <1>c, <1>k, <1>m, RemovalState, Types
<1>2. m.high \in 0 .. MaxPage /\ c.high \in 0 .. MaxPage /\ c.low \in Int
      /\ m.low < m.high /\ m.low \in Int /\ m.high \in Int /\ c.high \in Int
  BY <1>1, SpanFacts
<1>3. r \in Spans /\ r.low = m.high /\ r.high = c.high
  BY <1>0, <1>2, <1>r, SpanFacts
<1>4. c.low <= r.low /\ r.high <= c.high
  BY <1>0, <1>2, <1>3 DEF CheckOverlap
<1>5. PICK S \in SUBSET Spans : S = (A \ {c}) \cup {r}
  BY <1>1, <1>3
<1>6. AllApart(S)
  BY <1>1, <1>3, <1>4, <1>5, ApartPart
<1>7. spans' = [spans EXCEPT ![k] = S] /\ r \in S
  BY <1>0, <1>5
<1> HIDE DEF A
<1>8. QED
  BY <1>0, <1>3, <1>6, <1>7, <1>k, RemovalStep

\* An execution's step that leaves the lists alone and removes nothing more.
LEMMA RemoveDoneStep ==
  ASSUME IInv, NEW t \in Threads, RemoveDone(t)
  PROVE  IInv'
<1>0. /\ pc[t] = "removeNext"
      /\ cur' = [cur EXCEPT ![t] = NoSpan]
      /\ \/ list[t] = "read" /\ list' = [list EXCEPT ![t] = "release"]
                             /\ pc' = [pc EXCEPT ![t] = "removePrev"]
         \/ list[t] # "read" /\ pc' = [pc EXCEPT ![t] = "advise"] /\ list' = list
      /\ UNCHANGED <<spans, owner, node, phase, mem, done, todo, advised, requests, executes>>
  BY DEF RemoveDone, Goto, calls
<1>1. TypeOK /\ Stage(t) /\ Pointers(t)
  BY Types
<1>2. InExecution(t) /\ Works(t) /\ ~Inserts(t) /\ todo[t] = NoSpan
  BY <1>0, RemovalState
<1>3. /\ pc'[t] \in {"removePrev", "advise"} /\ list'[t] \in Kinds
      /\ pc'[t] = "removePrev" => list[t] = "read" /\ list'[t] = "release"
  BY <1>0, <1>1 DEF TypeOK, Kinds
<1>4. TypeOK'
  BY <1>0, <1>1 DEF TypeOK, PCs, Kinds
<1>5. Others(t)
  BY <1>0, <1>1 DEF Others, TypeOK
<1>6. /\ InExecution(t)' /\ ~Inserts(t)' /\ ~MergesNow(t) /\ ~MergesNow(t)'
      /\ Works(t)' => pc'[t] = "removePrev"
  BY <1>0, <1>2, <1>3 DEF InExecution, Inserts, MergesNow, Works
<1>7. Held(t)' = Held(t)
  BY <1>0, <1>2, <1>6 DEF Held
<1>8. Stage(t)'
  <2>1. Works(t)' => phase[t] \in Stronger(list'[t])
    BY <1>1, <1>2, <1>3, <1>6 DEF Stage, Stronger
  <2>2. QED
    BY <1>0, <1>3, <1>6, <2>1 DEF Stage
<1>9. Pointers(t)'
  <2>1. mem[t] \in spans[phase[t]]
    BY <1>0, <1>1, <1>2 DEF Pointers
  <2>2. cur'[t] = NoSpan
    BY <1>0, <1>1 DEF TypeOK
  <2>3. QED
    BY <1>0, <1>2, <1>6, <2>1, <2>2 DEF Pointers
<1>10. Merges(t)'
  BY <1>3, <1>6 DEF Merges
<1>11. QED
  BY <1>0, <1>4, <1>5, <1>6, <1>7, <1>8, <1>9, <1>10, Users, SpansKept

-----------------------------------------------------------------------------
(* Execution                                                               *)

LEMMA ClearForeignStep ==
  ASSUME IInv, NEW t \in Threads, ClearForeign(t)
  PROVE  IInv'
<1>k. PICK k \in Kinds : k = list[t]
  BY Types
<1>0. /\ pc[t] = "clear" /\ owner[k] = None
      /\ spans' = [spans EXCEPT ![k] = {}]
      /\ \E l \in Kinds : list' = [list EXCEPT ![t] = l]
      /\ pc' = pc \/ pc' = [pc EXCEPT ![t] = "idle"]
      /\ UNCHANGED <<owner, node, phase, mem, cur, todo, done, advised, requests, executes>>
  BY <1>k DEF ClearForeign, Goto, Kinds, calls
<1>1. TypeOK /\ Stage(t) /\ Pointers(t)
  BY Types
<1>2. TypeOK'
  BY <1>0, <1>1 DEF TypeOK, PCs
<1>3. Others(t)
  BY <1>0, <1>1 DEF Others, TypeOK
<1>4. pc'[t] \in {"clear", "idle"} /\ spans'[k] = {} /\ \A j \in Kinds \ {k} : spans'[j] = spans[j]
  BY <1>0, <1>1 DEF TypeOK
<1>5. ~InExecution(t) /\ ~InExecution(t)' /\ ~Inserts(t) /\ ~Inserts(t)' /\ ~MergesNow(t)
      /\ ~MergesNow(t)' /\ ~Works(t)'
  BY <1>0, <1>1, <1>4 DEF Stage, InExecution, Inserts, MergesNow, Works
<1>6. Held(t) = {} /\ Held(t)' = {}
  BY <1>0, <1>4, <1>5 DEF Held
<1>7. Stage(t)' /\ Merges(t)'
  BY <1>4, <1>5 DEF Stage, Merges
<1>8. Pointers(t)'
  BY <1>0, <1>1, <1>5 DEF Pointers
<1>9. AllApart(spans'[k] \ Merging(k)')
  BY <1>4 DEF AllApart
<1>10. QED
  BY <1>0, <1>2, <1>3, <1>4, <1>5, <1>6, <1>7, <1>8, <1>9, Users, Kept

LEMMA LockStep ==
  ASSUME IInv, NEW t \in Threads, LockNext(t) \/ LockLast(t)
  PROVE  IInv'
<1>k. PICK k \in Kinds : k = list[t]
  BY Types
<1>0. /\ pc[t] = "lock" /\ owner[k] = None
      /\ owner' = [owner EXCEPT ![k] = t]
      /\ \/ /\ k # "write" /\ pc' = pc /\ phase' = phase
            /\ list' = [list EXCEPT ![t] = IF k = "release" THEN "read" ELSE "write"]
         \/ /\ k = "write" /\ pc' = [pc EXCEPT ![t] = "walk"] /\ list' = list
            /\ phase' = [phase EXCEPT ![t] = "write"]
      /\ UNCHANGED <<spans, node, mem, cur, todo, done, advised, requests, executes>>
  BY <1>k DEF LockNext, LockLast, Goto, calls
<1>1. TypeOK /\ Stage(t) /\ Pointers(t)
  BY Types
<1>2. TypeOK'
  BY <1>0, <1>1 DEF TypeOK, PCs, Kinds
<1>3. Others(t)
  BY <1>0, <1>1 DEF Others, TypeOK
<1>4. ~InExecution(t) /\ ~Inserts(t) /\ ~MergesNow(t) /\ phase[t] = "none"
  BY <1>0, <1>1 DEF Stage, InExecution, Inserts, MergesNow
<1>5. /\ k # "write" => /\ pc'[t] = "lock" /\ phase'[t] = "none"
                        /\ list'[t] = IF k = "release" THEN "read" ELSE "write"
      /\ k = "write" => pc'[t] = "walk" /\ phase'[t] = "write" /\ list'[t] = "write"
      /\ owner'[k] = t /\ \A j \in Kinds \ {k} : owner'[j] = owner[j]
  BY <1>0, <1>1, <1>4, <1>k DEF TypeOK
<1>6. ~Inserts(t)' /\ ~MergesNow(t)' /\ ~Works(t)' /\ (InExecution(t)' <=> k = "write")
  BY <1>5 DEF Works, InExecution, Inserts, MergesNow
<1>7. Held(t) = {j \in Kinds : (j = "release" /\ k # "release") \/ (j = "read" /\ k = "write")}
  BY <1>0, <1>4, <1>k DEF Held
<1>8. Held(t)' = Held(t) \cup {k}
  <2>1. CASE k = "write"
    <3>1. Held(t) = {"release", "read"}
      BY <1>7, <2>1 DEF Kinds
    <3>2. Held(t)' = {j \in Kinds : j = "write" \/ "write" \in Stronger(j)}
      BY <1>5, <1>6, <2>1 DEF Held
    <3>3. QED
      BY <2>1, <3>1, <3>2 DEF Kinds, Stronger
  <2>2. CASE k # "write"
    <3>1. Held(t)' = {j \in Kinds : \/ j = "release" /\ list'[t] # "release"
                                    \/ j = "read" /\ list'[t] = "write"}
      BY <1>5, <1>6, <2>2 DEF Held
    <3>2. k = "read" \/ k = "release"
      BY <2>2 DEF Kinds
    <3>3. QED
      BY <1>5, <1>7, <2>2, <3>1, <3>2 DEF Kinds
  <2>3. QED
    BY <2>1, <2>2
<1>9. /\ \A j \in Kinds : owner'[j] = t <=> j \in Held(t)'
      /\ \A j \in Kinds, u \in Threads \ {t} : owner'[j] = u <=> owner[j] = u
  BY <1>0, <1>5, <1>8, Users
<1>10. Stage(t)' /\ Merges(t)'
  BY <1>5, <1>6 DEF Stage, Merges
<1>11. Pointers(t)'
  BY <1>0, <1>1, <1>4, <1>5, <1>6 DEF Pointers
<1>12. QED
  BY <1>0, <1>2, <1>3, <1>4, <1>9, <1>10, <1>11, SpansKept

LEMMA WalkStep ==
  ASSUME IInv, NEW t \in Threads, NextSpan(t) \/ Advise(t)
  PROVE  IInv'
<1>0. /\ pc[t] \in {"walk", "advise"}
      /\ UNCHANGED <<spans, owner, node, phase, cur, todo, requests, executes>>
      /\ \/ /\ pc[t] = "walk" /\ done' = done /\ advised' = advised
            /\ \E s \in spans[phase[t]] : mem' = [mem EXCEPT ![t] = s]
            /\ \/ pc' = [pc EXCEPT ![t] = "advise"] /\ list' = list
               \/ /\ phase[t] # "release"
                  /\ list' = [list EXCEPT ![t] = IF phase[t] = "write" THEN "read" ELSE "release"]
                  /\ pc' = [pc EXCEPT ![t] = "removePrev"]
         \/ /\ pc[t] = "advise" /\ list' = list /\ pc' = [pc EXCEPT ![t] = "walk"]
            /\ mem' = [mem EXCEPT ![t] = NoSpan]
            /\ done' = [done EXCEPT ![t] = @ \cup {mem[t]}]
            /\ advised' = [advised EXCEPT ![phase[t]] = @ \cup PagesOf({mem[t]})]
  BY DEF NextSpan, Advise, Goto, calls
<1>1. TypeOK /\ Stage(t) /\ Pointers(t)
  BY Types
<1>2. /\ InExecution(t) /\ ~Inserts(t) /\ ~MergesNow(t) /\ cur[t] = NoSpan /\ todo[t] = NoSpan
      /\ phase[t] \in Kinds /\ spans[phase[t]] \in SUBSET Spans
  <2>1. InExecution(t) /\ ~Inserts(t) /\ ~MergesNow(t)
    BY <1>0, <1>1 DEF Stage, Inserts, MergesNow
  <2>2. cur[t] = NoSpan /\ todo[t] = NoSpan
    BY <1>0, <1>1, <2>1 DEF Pointers
  <2>3. QED
    BY <2>1, <2>2, Types
<1>3. /\ pc'[t] \in {"walk", "advise", "removePrev"} /\ list'[t] \in Kinds
      /\ pc'[t] # "walk" => mem'[t] \in spans[phase[t]]
      /\ pc'[t] = "removePrev" =>
           phase[t] # "release" /\ list'[t] = IF phase[t] = "write" THEN "read" ELSE "release"
  BY <1>0, <1>1 DEF TypeOK, Kinds
<1>4. TypeOK'
  <2>1. pc[t] = "advise" => mem[t] \in Spans
    BY <1>2, Types
  <2>2. pc[t] = "advise" => PagesOf({mem[t]}) \subseteq 0 .. MaxPage - 1
    <3>1. \A m \in Spans : m.low .. m.high - 1 \subseteq 0 .. MaxPage - 1
      <4> SUFFICES ASSUME NEW m \in Spans PROVE m.low .. m.high - 1 \subseteq 0 .. MaxPage - 1
        OBVIOUS
      <4>1. m.low \in 0 .. MaxPage /\ m.high \in 0 .. MaxPage
        BY SpanFacts
      <4>2. QED
        BY <4>1, PrefetchAssumption
    <3>2. QED
      BY <2>1, <3>1 DEF PagesOf
  <2>3. advised' \in [Kinds -> SUBSET (0 .. MaxPage - 1)] /\ done' \in [Threads -> SUBSET Spans]
    <3>1. CASE pc[t] = "walk"
      BY <1>0, <1>1, <3>1 DEF TypeOK
    <3>2. CASE pc[t] = "advise"
      <4>1. /\ done' = [done EXCEPT ![t] = @ \cup {mem[t]}]
            /\ advised' = [advised EXCEPT ![phase[t]] = @ \cup PagesOf({mem[t]})]
        BY <1>0, <3>2
      <4>2. QED
        BY <1>1, <1>2, <2>1, <2>2, <3>2, <4>1 DEF TypeOK
    <3>3. QED
      BY <1>0, <3>1, <3>2
  <2>4. /\ mem' \in [Threads -> Spans \cup {NoSpan}] /\ pc' \in [Threads -> PCs]
        /\ list' \in [Threads -> Kinds]
    BY <1>0, <1>1, <1>2 DEF TypeOK, PCs, Kinds
  <2>5. QED
    BY <1>0, <1>1, <2>3, <2>4 DEF TypeOK
<1>5. Others(t)
  BY <1>0, <1>1 DEF Others, TypeOK
<1>6. InExecution(t)' /\ ~Inserts(t)' /\ ~MergesNow(t)' /\ (Works(t)' => pc'[t] = "removePrev")
  BY <1>0, <1>2, <1>3 DEF Works, InExecution, Inserts, MergesNow
<1>7. Held(t)' = Held(t)
  BY <1>0, <1>2, <1>6 DEF Held
<1>8. Stage(t)'
  <2>1. pc'[t] = "removePrev" => phase[t] \in Stronger(list'[t])
    BY <1>2, <1>3 DEF Stronger, Kinds
  <2>2. QED
    BY <1>0, <1>3, <1>6, <2>1 DEF Stage
<1>9. Pointers(t)' /\ Merges(t)'
  BY <1>0, <1>2, <1>3, <1>6 DEF Pointers, Merges
<1>10. QED
  BY <1>0, <1>2, <1>4, <1>5, <1>7, <1>8, <1>9, Users, SpansKept

LEMMA WalkDoneStep ==
  ASSUME IInv, NEW t \in Threads, WalkDone(t)
  PROVE  IInv'
<1>0. /\ pc[t] = "walk"
      /\ UNCHANGED <<node, mem, cur, todo, requests, executes>>
  BY DEF WalkDone, calls
<1>1. TypeOK /\ Stage(t) /\ Pointers(t)
  BY Types
<1>2. /\ InExecution(t) /\ ~Inserts(t) /\ ~MergesNow(t) /\ cur[t] = NoSpan /\ todo[t] = NoSpan
  <2>1. InExecution(t) /\ ~Inserts(t) /\ ~MergesNow(t)
    BY <1>0, <1>1 DEF Stage, Inserts, MergesNow
  <2>2. QED
    BY <1>0, <1>1, <2>1 DEF Pointers
<1>k. PICK k \in Kinds : k = phase[t]
  BY <1>2, Types
<1>h. PICK h \in Kinds \cup {"none"} :
        h = CASE k = "write" -> "read" [] k = "read" -> "release" [] OTHER -> "none"
  BY DEF Kinds
<1>3. /\ spans' = [spans EXCEPT ![k] = {}] /\ owner' = [owner EXCEPT ![k] = None]
      /\ done' = [done EXCEPT ![t] = {}]
      /\ phase' = [phase EXCEPT ![t] = h]
      /\ list' = [list EXCEPT ![t] = "write"]
      /\ advised' = IF k = "release" THEN [j \in Kinds |-> {}] ELSE advised
      /\ pc' = [pc EXCEPT ![t] = IF k = "release" THEN "idle" ELSE "walk"]
  BY <1>k, <1>h DEF WalkDone, Goto
<1>4. TypeOK'
  BY <1>0, <1>1, <1>3 DEF TypeOK, PCs, Kinds
<1>5. Others(t)
  BY <1>0, <1>1, <1>3 DEF Others, TypeOK
<1>6. /\ pc'[t] = IF k = "release" THEN "idle" ELSE "walk"
      /\ phase'[t] = h /\ list'[t] = "write" /\ spans'[k] = {} /\ owner'[k] = None
      /\ \A j \in Kinds \ {k} : spans'[j] = spans[j] /\ owner'[j] = owner[j]
  BY <1>1, <1>3 DEF TypeOK
<1>7. ~Inserts(t)' /\ ~MergesNow(t)' /\ ~Works(t)' /\ (InExecution(t)' <=> k # "release")
  BY <1>6, <1>h DEF Works, InExecution, Inserts, MergesNow, Kinds
<1>8. Held(t)' = Held(t) \ {k} /\ owner[k] = t
  <2>1. Held(t) = {j \in Kinds : j = k \/ k \in Stronger(j)}
    BY <1>2, <1>k DEF Held
  <2>2. CASE k = "release"
    <3>1. Held(t)' = {}
      BY <1>6, <1>7, <2>2 DEF Held
    <3>2. QED
      BY <1>2, <1>k, <2>1, <2>2, <3>1, Users DEF Stronger, Kinds
  <2>3. CASE k # "release"
    <3>1. Held(t)' = {j \in Kinds : j = h \/ h \in Stronger(j)}
      BY <1>6, <1>7, <2>3 DEF Held
    <3>2. Held(t)' = Held(t) \ {k}
      BY <1>h, <2>1, <2>3, <3>1 DEF Stronger, Kinds
    <3>3. QED
      BY <1>2, <1>k, <3>2, Users
  <2>4. QED
    BY <2>2, <2>3
<1>9. /\ \A j \in Kinds : owner'[j] = t <=> j \in Held(t)'
      /\ \A j \in Kinds, u \in Threads \ {t} : owner'[j] = u <=> owner[j] = u
  BY <1>6, <1>8, Users
<1>10. Stage(t)' /\ Merges(t)'
  BY <1>6, <1>7 DEF Stage, Merges
<1>11. Pointers(t)'
  BY <1>0, <1>2, <1>6, <1>7 DEF Pointers
<1>12. AllApart(spans'[k] \ Merging(k)')
  BY <1>6 DEF AllApart
<1>13. QED
  BY <1>2, <1>4, <1>5, <1>6, <1>8, <1>9, <1>10, <1>11, <1>12, Kept

-----------------------------------------------------------------------------
(* The lists                                                               *)

LEMMA InitIInv == Init => IInv
<1> SUFFICES ASSUME Init PROVE IInv
  OBVIOUS
<1>1. TypeOK
  BY DEF Init, TypeOK, PCs, Kinds
<1>2. ListsApart
  BY DEF Init, ListsApart
<1>3. ASSUME NEW t \in Threads PROVE Stage(t) /\ Pointers(t) /\ Merges(t) /\ Held(t) = {}
  <2>1. pc[t] = "idle" /\ phase[t] = "none" /\ cur[t] = NoSpan /\ todo[t] = NoSpan
    BY DEF Init
  <2>2. ~InExecution(t) /\ ~Inserts(t) /\ ~MergesNow(t) /\ ~Works(t)
    BY <2>1 DEF InExecution, Inserts, MergesNow, Works
  <2>3. QED
    BY <2>1, <2>2 DEF Stage, Pointers, Merges, Held
<1>4. Locks
  BY <1>3, PrefetchAssumption DEF Locks, Init
<1>5. QED
  BY <1>1, <1>2, <1>3, <1>4 DEF IInv

LEMMA NextIInv == IInv /\ [Next]_vars => IInv'
<1> SUFFICES ASSUME IInv, [Next]_vars PROVE IInv'
  OBVIOUS
<1>1. ASSUME UNCHANGED vars PROVE IInv'
  BY <1>1 DEF vars, locals, calls, IInv, TypeOK, Locks, Held, ListsApart, Merging, Stage,
     Pointers, Merges, InExecution, Inserts, MergesNow, Works, AllApart
<1>2. ASSUME NEW t \in Threads, Request(t) \/ Execute(t) \/ Step(t) PROVE IInv'
  <2>1. CASE Request(t) \/ Execute(t)
    BY <2>1, StartStep
  <2>2. CASE Step(t)
    BY <2>2, InsertNodeStep, MergePrevStep, MergeNextStep, MergeDoneStep, InsertedStep,
       InsertUpperStep, SplitDoneStep, RemovePrevStep, DeleteNextStep, ShortenNextStep,
       RemoveDoneStep, ClearForeignStep, LockStep, WalkStep, WalkDoneStep DEF Step
  <2>3. QED
    BY <1>2, <2>1, <2>2
<1>3. QED
  BY <1>1, <1>2 DEF Next, Finished

\* The inductive invariant holds of every state the program reaches, and with
\* it the types: spans are never empty or inverted, nor are the upper parts
\* list_remove is still to insert.
THEOREM InvariantHolds == Spec => []IInv
<1>1. QED
  BY InitIInv, NextIInv, PTL DEF Spec

\* list_insert and list_remove leave neither overlapping nor adjacent spans in
\* a list, however many threads insert and execute.
THEOREM Disjoint == Spec => []ListsApart
<1>1. IInv => ListsApart
  BY DEF IInv
<1>2. QED
  BY <1>1, InvariantHolds, PTL

\* No merge, removal or walk follows a pointer to a node that was freed.
THEOREM Alive == Spec => []PointersAlive
<1>1. IInv => PointersAlive
  BY DEF IInv, PointersAlive, Pointers, Stage, MergesNow
<1>2. QED
  BY <1>1, InvariantHolds, PTL

-----------------------------------------------------------------------------
(* The pages of the lists                                                  *)

SpanPages(s) == s.low .. s.high - 1

\* Who executes holds the lock of the releases, so there is one at most; the
\* pages of a list are those of its spans and of the upper part it splits off.
Paged ==
  /\ \A t, u \in Threads : InExecution(t) /\ InExecution(u) => t = u
  /\ \A k \in Kinds : \A x :
       x \in PagesIn(k) <=> \/ \E s \in spans[k] : x \in SpanPages(s)
                            \/ \E u \in Threads :
                                 InExecution(u) /\ list[u] = k /\ x \in SpanPages(todo[u])

\* The lists taken by an execution, and what is left of them.
Batches ==
  /\ (\A t \in Threads : ~InExecution(t)) => \A k \in Kinds : ~Taken(k)
  /\ \A t \in Threads : InExecution(t) =>
       /\ phase[t] \in Kinds
       /\ \A k \in Kinds : Taken(k) <=> k = phase[t] \/ phase[t] \in Stronger(k)
       /\ \A k \in Kinds : \A x : x \in BatchOf(k) <=>
            \/ k = phase[t] /\ x \in PagesIn(k) /\ x \notin PagesOf(done[t])
            \/ /\ phase[t] \in Stronger(k) /\ x \in PagesIn(k)
               /\ \A s \in Stronger(k) :
                    s = phase[t] \/ phase[t] \in Stronger(s) => x \notin PagesIn(s)
  /\ \A k \in Kinds : ~Taken(k) => BatchOf(k) = {}

LEMMA PagesOfSpans ==
  /\ \A S, x : x \in PagesOf(S) <=> \E s \in S : x \in SpanPages(s)
  /\ SpanPages(NoSpan) = {}
<1>1. \A S, x : x \in PagesOf(S) <=> \E s \in S : x \in SpanPages(s)
  BY DEF PagesOf, SpanPages
<1>2. SpanPages(NoSpan) = {}
  BY DEF SpanPages, NoSpan
<1>3. QED
  BY <1>1, <1>2

LEMMA IsPaged == IInv => Paged
<1> SUFFICES ASSUME IInv PROVE Paged
  OBVIOUS
<1>1. ASSUME NEW t \in Threads, InExecution(t) PROVE owner["release"] = t
  <2>1. phase[t] \in Kinds /\ owner[phase[t]] = t
    BY <1>1, Types, Users
  <2>2. phase[t] = "release" \/ phase[t] \in Stronger("release")
    BY <2>1 DEF Kinds, Stronger
  <2>3. QED
    BY <1>1, <2>1, <2>2, Users DEF Kinds
<1>2. ASSUME NEW k \in Kinds, NEW x
      PROVE  x \in PagesIn(k) <=> \/ \E s \in spans[k] : x \in SpanPages(s)
                                  \/ \E u \in Threads :
                                       InExecution(u) /\ list[u] = k /\ x \in SpanPages(todo[u])
  <2>1. x \in PagesIn(k) <=> \/ \E s \in spans[k] : x \in SpanPages(s)
                             \/ \E u \in Threads : list[u] = k /\ x \in SpanPages(todo[u])
    BY PagesOfSpans DEF PagesIn
  <2>2. \A u \in Threads : x \in SpanPages(todo[u]) => InExecution(u)
    BY Types, PagesOfSpans DEF Pointers
  <2>3. QED
    BY <2>1, <2>2
<1>3. QED
  BY <1>1, <1>2 DEF Paged

LEMMA IsBatches == IInv => Batches
<1> SUFFICES ASSUME IInv PROVE Batches
  OBVIOUS
<1>1. \A k \in Kinds : Taken(k) <=> owner[k] # None /\ InExecution(owner[k])
  BY DEF Taken, InExecution
<1>2. \A k \in Kinds : owner[k] \in Threads \cup {None}
  BY DEF IInv, TypeOK
<1>3. ASSUME NEW t \in Threads, InExecution(t)
      PROVE  /\ phase[t] \in Kinds
             /\ \A k \in Kinds : Taken(k) <=> k = phase[t] \/ phase[t] \in Stronger(k)
             /\ \A k \in Kinds : Taken(k) => owner[k] = t
  <2>1. phase[t] \in Kinds
    BY <1>3, Types
  <2>2. \A k \in Kinds : k = phase[t] \/ phase[t] \in Stronger(k) <=> k \in Held(t)
    BY <1>3 DEF Held
  <2>3. \A k \in Kinds : Taken(k) => owner[k] = t
    BY <1>1, <1>2, <1>3, IsPaged DEF Paged
  <2>4. QED
    BY <1>1, <1>3, <2>1, <2>2, <2>3, Users
<1>4. ASSUME NEW t \in Threads, InExecution(t), NEW k \in Kinds, NEW x
      PROVE  x \in BatchOf(k) <=>
               \/ k = phase[t] /\ x \in PagesIn(k) /\ x \notin PagesOf(done[t])
               \/ /\ phase[t] \in Stronger(k) /\ x \in PagesIn(k)
                  /\ \A s \in Stronger(k) :
                       s = phase[t] \/ phase[t] \in Stronger(s) => x \notin PagesIn(s)
  <2>1. \A s \in Stronger(k) : s \in Kinds
    BY DEF Stronger, Kinds
  <2>2. CASE ~Taken(k)
    BY <1>3, <1>4, <2>2 DEF BatchOf
  <2>3. CASE Taken(k)
    <3>1. owner[k] = t /\ phase[t] \in Kinds /\ (k = phase[t] \/ phase[t] \in Stronger(k))
      BY <1>3, <1>4, <2>3
    <3>2. x \in BatchOf(k) <=>
            /\ x \in PagesIn(k)
            /\ \A s \in Stronger(k) : Taken(s) => x \notin PagesIn(s)
            /\ phase[t] = k => x \notin PagesOf(done[t])
      <4> DEFINE U == UNION {PagesIn(s) : s \in {u \in Stronger(k) : Taken(u)}}
                 D == IF phase[t] = k THEN PagesOf(done[t]) ELSE {}
      <4>1. BatchOf(k) = PagesIn(k) \ (U \cup D)
        <5> DEFINE B == IF phase[owner[k]] = k THEN PagesOf(done[owner[k]]) ELSE {}
        <5>1. BatchOf(k) = PagesIn(k) \ (U \cup B)
          BY <2>3 DEF BatchOf
        <5>2. B = D
          BY <3>1
        <5> HIDE DEF U, B, D
        <5>3. QED
          BY <5>1, <5>2
      <4>2. x \in U <=> \E s \in Stronger(k) : Taken(s) /\ x \in PagesIn(s)
        OBVIOUS
      <4>3. x \in D <=> phase[t] = k /\ x \in PagesOf(done[t])
        OBVIOUS
      <4> HIDE DEF U, D
      <4>4. QED
        BY <4>1, <4>2, <4>3
    <3>3. \A s \in Stronger(k) : Taken(s) <=> s = phase[t] \/ phase[t] \in Stronger(s)
      BY <1>3, <1>4, <2>1
    <3>4. CASE k = phase[t]
      <4>1. \A s \in Stronger(k) : ~Taken(s) /\ phase[t] \notin Stronger(k)
        BY <3>1, <3>3, <3>4 DEF Stronger, Kinds
      <4>2. phase[t] \notin Stronger(k)
        BY <3>1, <3>4 DEF Stronger, Kinds
      <4>3. QED
        BY <3>2, <3>4, <4>1, <4>2
    <3>5. CASE k # phase[t]
      BY <3>1, <3>2, <3>3, <3>5
    <3>6. QED
      BY <3>4, <3>5
  <2>4. QED
    BY <2>2, <2>3
<1>5. \A k \in Kinds : ~Taken(k) => BatchOf(k) = {}
  BY DEF BatchOf
<1>6. (\A t \in Threads : ~InExecution(t)) => \A k \in Kinds : ~Taken(k)
  BY <1>1, <1>2
<1>7. QED
  BY <1>3, <1>4, <1>5, <1>6 DEF Batches

LEMMA FactsNext == IInv' => Paged' /\ Batches'
BY IsPaged, IsBatches, PTL

\* A step of a thread that does not execute leaves a running execution alone.
LEMMA Outside ==
  ASSUME IInv, IInv', NEW t \in Threads, Others(t), ~InExecution(t), ~InExecution(t)',
         \A k \in Kinds : owner[k] \notin {None, t} => spans'[k] = spans[k]
  PROVE  \A k \in Kinds :
           /\ Taken(k)' <=> Taken(k)
           /\ Taken(k) => spans'[k] = spans[k] /\ \A x : x \in PagesIn(k)' <=> x \in PagesIn(k)
           /\ \A x : x \in BatchOf(k)' <=> x \in BatchOf(k)
<1>0. Paged /\ Batches /\ Paged' /\ Batches'
  BY IsPaged, IsBatches, FactsNext
<1>1. /\ \A u \in Threads : InExecution(u)' <=> InExecution(u)
      /\ \A u \in Threads : InExecution(u) => u # t /\ phase'[u] = phase[u] /\ done'[u] = done[u]
                                              /\ list'[u] = list[u] /\ todo'[u] = todo[u]
  BY DEF InExecution, Others
<1>2. CASE \A u \in Threads : ~InExecution(u)
  BY <1>0, <1>1, <1>2 DEF Batches
<1>3. CASE \E u \in Threads : InExecution(u)
  <2>1. PICK e \in Threads : InExecution(e)
    BY <1>3
  <2>2. PICK p \in Kinds : p = phase[e]
    BY <2>1, Types
  <2>3. \A k \in Kinds : /\ Taken(k) <=> k = p \/ p \in Stronger(k)
                         /\ Taken(k)' <=> k = p \/ p \in Stronger(k)
    BY <1>0, <1>1, <2>1, <2>2 DEF Batches
  <2>4. \A k \in Kinds : Taken(k) => spans'[k] = spans[k]
    BY <1>1, <2>1, <2>2, <2>3, Users
  <2>5. \A u \in Threads : (InExecution(u) <=> u = e) /\ (InExecution(u)' <=> u = e)
    BY <1>0, <1>1, <2>1 DEF Paged
  <2>6. ASSUME NEW k \in Kinds, Taken(k), NEW x PROVE x \in PagesIn(k)' <=> x \in PagesIn(k)
    <3>1. x \in PagesIn(k) <=> \/ \E s \in spans[k] : x \in SpanPages(s)
                               \/ list[e] = k /\ x \in SpanPages(todo[e])
      BY <1>0, <2>5 DEF Paged
    <3>2. x \in PagesIn(k)' <=> \/ \E s \in spans'[k] : x \in SpanPages(s)
                                \/ list'[e] = k /\ x \in SpanPages(todo'[e])
      <4>1. x \in PagesIn(k)' <=>
              \/ \E s \in spans'[k] : x \in SpanPages(s)
              \/ \E u \in Threads : InExecution(u)' /\ list'[u] = k /\ x \in SpanPages(todo'[u])
        BY <1>0 DEF Paged, SpanPages
      <4>2. QED
        BY <2>5, <4>1
    <3>3. QED
      BY <1>1, <2>1, <2>4, <2>6, <3>1, <3>2
  <2>7. ASSUME NEW k \in Kinds, NEW x PROVE x \in BatchOf(k)' <=> x \in BatchOf(k)
    <3>1. x \in BatchOf(k) <=>
            \/ k = p /\ x \in PagesIn(k) /\ x \notin PagesOf(done[e])
            \/ /\ p \in Stronger(k) /\ x \in PagesIn(k)
               /\ \A s \in Stronger(k) : s = p \/ p \in Stronger(s) => x \notin PagesIn(s)
      BY <1>0, <2>1, <2>2 DEF Batches
    <3>2. x \in BatchOf(k)' <=>
            \/ k = p /\ x \in PagesIn(k)' /\ x \notin PagesOf(done[e])
            \/ /\ p \in Stronger(k) /\ x \in PagesIn(k)'
               /\ \A s \in Stronger(k) : s = p \/ p \in Stronger(s) => x \notin PagesIn(s)'
      <4>1. InExecution(e)' /\ phase'[e] = p /\ done'[e] = done[e]
        BY <1>1, <2>1, <2>2
      <4>2. PagesOf(done[e])' = PagesOf(done[e])
        BY <4>1 DEF PagesOf
      <4>3. QED
        BY <1>0, <4>1, <4>2 DEF Batches
    <3>3. \A s \in Stronger(k) : s \in Kinds
      BY DEF Stronger, Kinds
    <3>4. QED
      BY <2>3, <2>6, <3>1, <3>2, <3>3
  <2>8. QED
    BY <2>3, <2>4, <2>6, <2>7
<1>4. QED
  BY <1>2, <1>3

LEMMA NoneStronger == \A k : "none" \notin Stronger(k)
BY DEF Stronger

LEMMA OutsideKeeps ==
  ASSUME IInv, IInv', PageInv, NEW t \in Threads, Others(t), ~InExecution(t), ~InExecution(t)',
         \A k \in Kinds : owner[k] \notin {None, t} => spans'[k] = spans[k],
         done' = done, advised' = advised
  PROVE  PageInv'
<1>1. \A u \in Threads : InExecution(u)' <=> InExecution(u)
  BY DEF InExecution, Others
<1>2. Advises'
  BY <1>1 DEF PageInv, Advises
<1>3. ASSUME NEW u \in Threads, ~InExecution(u) PROVE Cuts(u)' /\ Walks(u)'
  <2>1. ~InExecution(u)' /\ phase'[u] = "none" /\ done'[u] = {}
    BY <1>1, <1>3 DEF InExecution, PageInv, Walks
  <2>2. QED
    BY <2>1, NoneStronger DEF Cuts, Walks
<1>4. ASSUME NEW u \in Threads, InExecution(u) PROVE Cuts(u)' /\ Walks(u)'
  <2>0. /\ pc'[u] = pc[u] /\ list'[u] = list[u] /\ phase'[u] = phase[u] /\ mem'[u] = mem[u]
        /\ cur'[u] = cur[u] /\ todo'[u] = todo[u] /\ done'[u] = done[u] /\ InExecution(u)'
    BY <1>1, <1>4 DEF Others
  <2>1. (Inserts(u)' <=> Inserts(u)) /\ (Works(u)' <=> Works(u))
    BY <2>0 DEF Inserts, Works
  <2>2. phase[u] \in Kinds /\ u # t /\ list[u] \in Kinds
    BY <1>4, Types
  <2>3. spans'[phase[u]] = spans[phase[u]] /\ (Works(u) => spans'[list[u]] = spans[list[u]])
    BY <1>4, <2>2, Users
  <2>4. Cuts(u)'
    <3>1. Inserts(u) \/ pc[u] = "removeNext" => Works(u)
      BY DEF Works
    <3>2. QED
      BY <1>4, <2>0, <2>1, <2>3, <3>1 DEF PageInv, Cuts
  <2>5. ASSUME NEW k \in Kinds, phase[u] \in Stronger(k), NEW S
        PROVE  PagesIn(k) \cap S = {} => PagesIn(k)' \cap S = {}
    <3>1. Taken(k)
      BY <1>4, <2>5, IsBatches DEF Batches
    <3>2. QED
      BY <3>1, Outside
  <2>6. PagesOf(done[u])' = PagesOf(done[u]) /\ PagesOf({mem[u]})' = PagesOf({mem[u]})
    BY <2>0 DEF PagesOf
  <2>7. Walks(u)'
    <3>1. Walks(u)
      BY DEF PageInv
    <3>2. QED
      BY <1>4, <2>0, <2>1, <2>3, <2>5, <2>6, <3>1, ZenonT(60) DEF Walks
  <2>8. QED
    BY <2>4, <2>7
<1>5. QED
  BY <1>2, <1>3, <1>4 DEF PageInv

\* In a step of an execution only its own part of the invariant is at stake.
LEMMA InsideKeeps ==
  ASSUME IInv, IInv', PageInv, NEW t \in Threads, Others(t), InExecution(t) \/ InExecution(t)',
         InExecution(t)' => Cuts(t)' /\ Walks(t)',
         ~InExecution(t)' => done'[t] = {} /\ advised' = [k \in Kinds |-> {}]
  PROVE  PageInv'
<1>1. \A u \in Threads \ {t} : (InExecution(u)' <=> InExecution(u)) /\ done'[u] = done[u]
  BY DEF InExecution, Others
<1>2. \A u \in Threads \ {t} : ~InExecution(u) /\ ~InExecution(u)'
  <2>1. Paged /\ Paged'
    BY IsPaged, FactsNext
  <2>2. QED
    BY <1>1, <2>1 DEF Paged
<1>3. \A u \in Threads : ~InExecution(u)' => Cuts(u)' /\ Walks(u)'
  <2>1. \A u \in Threads : ~InExecution(u)' => done'[u] = {} /\ phase'[u] = "none"
    BY <1>1, <1>2 DEF InExecution, PageInv, Walks
  <2>2. QED
    BY <2>1, NoneStronger DEF Cuts, Walks
<1>4. Advises'
  BY DEF Advises
<1>5. QED
  BY <1>2, <1>3, <1>4 DEF PageInv

-----------------------------------------------------------------------------
(* Requests, insertion and clearing implement PrefetchQueue                *)

\* The steps of a thread that does not execute, up to LockLast.
OutsideStep(t) ==
  /\ ~InExecution(t)
  /\ \/ Request(t) \/ Execute(t) \/ InsertNode(t) \/ MergePrev(t) \/ MergeNext(t)
     \/ MergeDone(t) \/ Inserted(t) \/ ClearForeign(t) \/ LockNext(t)

\* list_merge of two spans that overlap or touch.
Joins(t) ==
  \E a, b \in spans[list[t]] : /\ a # b /\ a.low <= b.low /\ CheckMerge(a, b) /\ Merge(t, a, b)
                               /\ MergesNow(t)

LEMMA MergeJoins ==
  ASSUME IInv, NEW t \in Threads, MergePrev(t) \/ MergeNext(t)
  PROVE  spans' = spans \/ Joins(t)
<1>k. PICK k \in Kinds : k = list[t]
  BY Types
<1> DEFINE A == spans[k]
           n == node[t]
<1>1. MergesNow(t) /\ Inserts(t)
  BY DEF MergePrev, MergeNext, MergesNow, Inserts
<1>2. A \in SUBSET Spans /\ n \in A
  BY <1>1, <1>k, Types DEF Pointers
<1>3. CASE MergeNext(t)
  <2>1. PICK s \in A \ {n} : IsSeek(s, A \ {n}, n.low) /\ CheckMerge(n, s) /\ Merge(t, n, s)
    BY <1>3, <1>k DEF MergeNext
  <2>2. s.low \in Int /\ n.low \in Int /\ s.low >= n.low
    BY <1>2, <2>1, SpanFacts DEF IsSeek
  <2>3. n.low <= s.low /\ n # s
    BY <2>2
  <2>4. QED
    BY <1>1, <1>2, <1>k, <2>1, <2>3 DEF Joins
<1>4. CASE MergePrev(t) /\ spans' # spans
  <2>1. PICK p, q \in A : /\ IsPrev(p, A, n.low) /\ Merge(t, p, n)
                          /\ IsPrev(q, A, n.low) /\ CheckMerge(q, n)
    BY <1>4, <1>k DEF MergePrev
  <2>2. p.low \in Int /\ q.low \in Int /\ n.low \in Int /\ p.low < n.low /\ q.low < n.low
    BY <1>2, <2>1, SpanFacts DEF IsPrev
  <2>3. PICK B \in SUBSET Spans : B = A \ {n}
    BY <1>2
  <2>4. AllApart(B)
    <3>1. Merging(k) = {n}
      BY <1>k, <1>1, Users, OneMerges
    <3>2. QED
      BY <2>3, <3>1 DEF IInv, ListsApart, AllApart
  <2>5. p \in B /\ q \in B /\ IsPrev(p, B, n.low) /\ IsPrev(q, B, n.low)
    BY <2>1, <2>2, <2>3 DEF IsPrev
  <2>6. p = q
    BY <2>4, <2>5, OnePrev
  <2>7. p.low <= n.low /\ p # n
    BY <2>2
  <2>8. QED
    BY <1>1, <1>2, <1>k, <2>1, <2>6, <2>7 DEF Joins
<1>5. QED
  BY <1>3, <1>4

\* list_merge keeps the pages.
LEMMA JoinsPages ==
  ASSUME IInv, NEW t \in Threads, Joins(t)
  PROVE  /\ \A j \in Kinds \ {list[t]} : spans'[j] = spans[j]
         /\ \A x : (\E s \in spans'[list[t]] : x \in SpanPages(s)) <=>
                   (\E s \in spans[list[t]] : x \in SpanPages(s))
<1>k. PICK k \in Kinds : k = list[t]
  BY Types
<1>1. PICK a, b \in spans[k] : a # b /\ a.low <= b.low /\ CheckMerge(a, b) /\ Merge(t, a, b)
  BY <1>k DEF Joins
<1>2. a \in Spans /\ b \in Spans /\ TypeOK
  BY <1>k, Types
<1>3. PICK ab \in Spans : /\ spans' = [spans EXCEPT ![k] = (@ \ {a, b}) \cup {ab}]
                          /\ ab.low = a.low /\ ab.high >= a.high /\ ab.high >= b.high
                          /\ ab.high \in {a.high, b.high}
  BY <1>1, <1>2, <1>k, MergedSpan DEF Merge
<1>4. \A x : x \in SpanPages(ab) <=> x \in SpanPages(a) \/ x \in SpanPages(b)
  <2>1. /\ a.low \in Int /\ a.high \in Int /\ b.low \in Int /\ b.high \in Int
        /\ ab.low \in Int /\ ab.high \in Int /\ a.low < a.high /\ b.low < b.high
    BY <1>2, SpanFacts
  <2>2. b.low <= a.high /\ a.low <= b.low
    BY <1>1, <2>1 DEF CheckMerge
  <2>3. QED
    BY <1>3, <2>1, <2>2 DEF SpanPages
<1>5. spans'[k] = (spans[k] \ {a, b}) \cup {ab} /\ \A j \in Kinds \ {k} : spans'[j] = spans[j]
  BY <1>2, <1>3 DEF TypeOK
<1>6. QED
  BY <1>1, <1>4, <1>5, <1>k

LEMMA OutsideSteps ==
  ASSUME IInv, NEW t \in Threads, OutsideStep(t)
  PROVE  /\ Others(t) /\ ~InExecution(t) /\ ~InExecution(t)'
         /\ \A k \in Kinds : owner[k] \notin {None, t} => spans'[k] = spans[k]
         /\ done' = done /\ advised' = advised
<1>1. TypeOK /\ ~InExecution(t)
  BY Types DEF OutsideStep
<1>2. phase' = phase /\ done' = done /\ advised' = advised
  BY DEF OutsideStep, Request, Execute, InsertNode, MergePrev, MergeNext, MergeDone, Inserted,
     ClearForeign, LockNext, locals
<1>3. ~InExecution(t)'
  BY <1>1, <1>2 DEF InExecution
<1>4. Others(t)
  <2>1. \/ pc' = pc
        \/ \E l \in PCs : pc' = [pc EXCEPT ![t] = l]
    BY DEF OutsideStep, Request, Execute, InsertNode, MergePrev, MergeNext, MergeDone, Inserted,
       ClearForeign, LockNext, Goto, PCs
  <2>2. list' = list \/ \E l \in Kinds : list' = [list EXCEPT ![t] = l]
    BY DEF OutsideStep, Request, Execute, InsertNode, MergePrev, MergeNext, MergeDone, Inserted,
       ClearForeign, LockNext, locals, Kinds
  <2>3. node' = node \/ \E n : node' = [node EXCEPT ![t] = n]
    BY DEF OutsideStep, Request, Execute, InsertNode, MergePrev, MergeNext, MergeDone, Inserted,
       ClearForeign, LockNext, locals, Merge
  <2>4. mem' = mem /\ cur' = cur /\ todo' = todo
    BY DEF OutsideStep, Request, Execute, InsertNode, MergePrev, MergeNext, MergeDone, Inserted,
       ClearForeign, LockNext, locals
  <2>5. QED
    BY <1>1, <1>2, <2>1, <2>2, <2>3, <2>4 DEF Others, TypeOK
<1>5. ASSUME NEW k \in Kinds, owner[k] \notin {None, t} PROVE spans'[k] = spans[k]
  <2>1. CASE MergePrev(t) \/ MergeNext(t)
    <3>1. CASE Joins(t)
      <4>1. list[t] # k
        BY <1>5, <3>1, Users DEF Joins, MergesNow, Inserts
      <4>2. QED
        BY <3>1, <4>1, JoinsPages
    <3>2. QED
      BY <2>1, <3>1, MergeJoins
  <2>2. CASE InsertNode(t) \/ ClearForeign(t)
    <3>1. list[t] # k /\ list[t] \in Kinds
      BY <1>5, <2>2, Types DEF InsertNode, ClearForeign
    <3>2. QED
      BY <1>1, <2>2, <3>1 DEF InsertNode, ClearForeign, TypeOK
  <2>3. CASE Request(t) \/ Execute(t) \/ MergeDone(t) \/ Inserted(t) \/ LockNext(t)
    BY <2>3 DEF Request, Execute, MergeDone, Inserted, LockNext
  <2>4. QED
    BY <2>1, <2>2, <2>3 DEF OutsideStep
<1>6. QED
  BY <1>1, <1>2, <1>3, <1>4, <1>5

LEMMA OutsidePages ==
  ASSUME IInv, IInv', NEW t \in Threads, OutsideStep(t), NEW k \in Kinds
  PROVE  \A x : x \in PagesIn(k)' <=>
           \/ \E s \in spans'[k] : x \in SpanPages(s)
           \/ \E u \in Threads : InExecution(u) /\ list[u] = k /\ x \in SpanPages(todo[u])
<1>1. /\ \A u \in Threads : InExecution(u)' <=> InExecution(u)
      /\ \A u \in Threads : InExecution(u) => list'[u] = list[u] /\ todo'[u] = todo[u]
  BY OutsideSteps DEF InExecution, Others
<1>2. Paged'
  BY FactsNext
<1>3. ASSUME NEW x
      PROVE  x \in PagesIn(k)' <=>
               \/ \E s \in spans'[k] : x \in SpanPages(s)
               \/ \E u \in Threads : InExecution(u)' /\ list'[u] = k /\ x \in SpanPages(todo'[u])
  BY <1>2 DEF Paged, SpanPages
<1>4. QED
  BY <1>1, <1>3

LEMMA PagesBound ==
  ASSUME NEW m \in Spans
  PROVE  PagesOf({m}) \in SUBSET (0 .. MaxPage - 1) /\ PagesOf({m}) = SpanPages(m)
<1>1. m.low \in 0 .. MaxPage /\ m.high \in 0 .. MaxPage
  BY SpanFacts
<1>2. m.low .. m.high - 1 \subseteq 0 .. MaxPage - 1
  BY <1>1, PrefetchAssumption
<1>3. PagesOf({m}) = m.low .. m.high - 1
  BY DEF PagesOf
<1>4. QED
  BY <1>2, <1>3 DEF SpanPages

\* The variables of PrefetchQueue, list by list.
Pend(k) == IF Taken(k) THEN {} ELSE PagesIn(k)

LEMMA QueueVars ==
  ASSUME \A k \in Kinds : Pend(k)' = Pend(k), \A k \in Kinds : BatchOf(k)' = BatchOf(k),
         advised' = advised
  PROVE  UNCHANGED Queue!queue
<1>1. [k \in Kinds |-> Pend(k)]' = [k \in Kinds |-> Pend(k)]
  OBVIOUS
<1>2. [k \in Kinds |-> BatchOf(k)]' = [k \in Kinds |-> BatchOf(k)]
  OBVIOUS
<1>3. QED
  BY <1>1, <1>2 DEF Queue!queue, Pend

LEMMA OutsideBatch ==
  ASSUME IInv, IInv', NEW t \in Threads, OutsideStep(t)
  PROVE  /\ \A k \in Kinds : BatchOf(k)' = BatchOf(k)
         /\ \A k \in Kinds : Taken(k)' <=> Taken(k)
         /\ \A k \in Kinds : Taken(k) => Pend(k)' = Pend(k)
<1>1. \A k \in Kinds : /\ Taken(k)' <=> Taken(k)
                       /\ \A x : x \in BatchOf(k)' <=> x \in BatchOf(k)
  BY OutsideSteps, Outside
<1>2. ASSUME NEW k \in Kinds PROVE BatchOf(k)' = BatchOf(k)
  <2>1. PICK B : B = BatchOf(k)
    OBVIOUS
  <2>2. PICK C : C = BatchOf(k)'
    OBVIOUS
  <2>3. \A x : x \in B <=> x \in C
    BY <1>1, <2>1, <2>2
  <2>4. QED
    BY <1>1, <2>1, <2>2, <2>3 DEF BatchOf
<1>3. QED
  BY <1>1, <1>2 DEF Pend

\* Nothing is split off a list that nobody has locked.
LEMMA FreeList ==
  ASSUME IInv, NEW k \in Kinds, owner[k] = None
  PROVE  /\ ~Taken(k)
         /\ \A x : x \in PagesIn(k) <=> \E s \in spans[k] : x \in SpanPages(s)
         /\ \A u \in Threads : InExecution(u) /\ list[u] = k => SpanPages(todo[u]) = {}
<1>1. ~Taken(k)
  BY DEF Taken
<1>2. ASSUME NEW u \in Threads, InExecution(u), list[u] = k PROVE SpanPages(todo[u]) = {}
  <2>1. ~Inserts(u)
    BY <1>2, Users
  <2>2. todo[u] = NoSpan
    BY <2>1, Types DEF Pointers
  <2>3. QED
    BY <2>2, PagesOfSpans
<1>3. QED
  BY <1>1, <1>2, IsPaged DEF Paged

LEMMA InsertQueue ==
  ASSUME IInv, IInv', NEW t \in Threads, InsertNode(t)
  PROVE  Queue!Request
<1>k. PICK k \in Kinds : k = list[t]
  BY Types
<1>P. PICK P : P = PagesOf({node[t]})
  OBVIOUS
<1>0. /\ owner[k] = None /\ spans' = [spans EXCEPT ![k] = @ \cup {node[t]}]
      /\ advised' = advised /\ TypeOK
  BY <1>k, Types DEF InsertNode
<1>1. OutsideStep(t) /\ node[t] \in Spans
  BY Types DEF InsertNode, OutsideStep, Stage
<1>2. P \in SUBSET (0 .. MaxPage - 1) /\ P = SpanPages(node[t])
  BY <1>1, <1>P, PagesBound
<1>3. spans'[k] = spans[k] \cup {node[t]} /\ \A j \in Kinds \ {k} : spans'[j] = spans[j]
  BY <1>0 DEF TypeOK
<1>4. \A j \in Kinds : BatchOf(j)' = BatchOf(j)
  BY <1>1, OutsideBatch
<1>5. ASSUME NEW j \in Kinds, j # k PROVE Pend(j)' = Pend(j)
  <2>1. \A x : x \in PagesIn(j)' <=> x \in PagesIn(j)
    BY <1>1, <1>3, <1>5, OutsidePages, IsPaged DEF Paged
  <2>2. PagesIn(j)' = PagesIn(j)
    BY <2>1 DEF PagesIn, PagesOf
  <2>3. QED
    BY <1>1, <2>2, OutsideBatch DEF Pend
<1>6. Pend(k)' = Pend(k) \cup P
  <2>1. ~Taken(k) /\ ~Taken(k)'
    BY <1>0, <1>1, FreeList, OutsideBatch
  <2>2. \A x : x \in PagesIn(k)' <=> x \in PagesIn(k) \/ x \in P
    BY <1>1, <1>2, <1>3, OutsidePages, IsPaged DEF Paged
  <2>3. PagesIn(k)' = PagesIn(k) \cup P
    BY <2>2 DEF PagesIn, PagesOf
  <2>4. QED
    BY <2>1, <2>3 DEF Pend
<1>7. [j \in Kinds |-> Pend(j)]' = [[j \in Kinds |-> Pend(j)] EXCEPT ![k] = @ \cup P]
  BY <1>5, <1>6
<1>8. [j \in Kinds |-> BatchOf(j)]' = [j \in Kinds |-> BatchOf(j)]
  BY <1>4
<1>9. k \in Queue!Kinds
  BY DEF Queue!Kinds, Kinds
<1>10. QED
  BY <1>0, <1>2, <1>7, <1>8, <1>9 DEF Queue!Request, Pend

LEMMA ClearQueue ==
  ASSUME IInv, IInv', NEW t \in Threads, ClearForeign(t)
  PROVE  Queue!Drop
<1>k. PICK k \in Kinds : k = list[t]
  BY Types
<1>0. owner[k] = None /\ spans' = [spans EXCEPT ![k] = {}] /\ advised' = advised /\ TypeOK
  BY <1>k, Types DEF ClearForeign
<1>1. OutsideStep(t)
  BY Types DEF ClearForeign, OutsideStep, Stage
<1>3. spans'[k] = {} /\ \A j \in Kinds \ {k} : spans'[j] = spans[j]
  BY <1>0 DEF TypeOK
<1>4. \A j \in Kinds : BatchOf(j)' = BatchOf(j)
  BY <1>1, OutsideBatch
<1>5. ASSUME NEW j \in Kinds, j # k PROVE Pend(j)' = Pend(j)
  <2>1. \A x : x \in PagesIn(j)' <=> x \in PagesIn(j)
    BY <1>1, <1>3, <1>5, OutsidePages, IsPaged DEF Paged
  <2>2. PagesIn(j)' = PagesIn(j)
    BY <2>1 DEF PagesIn, PagesOf
  <2>3. QED
    BY <1>1, <2>2, OutsideBatch DEF Pend
<1>6. Pend(k)' = {}
  <2>1. \A x : x \notin PagesIn(k)'
    BY <1>0, <1>1, <1>3, OutsidePages, FreeList
  <2>2. PagesIn(k)' = {}
    BY <2>1
  <2>3. QED
    BY <2>2 DEF Pend
<1>7. [j \in Kinds |-> Pend(j)]' = [[j \in Kinds |-> Pend(j)] EXCEPT ![k] = {}]
  BY <1>5, <1>6
<1>8. [j \in Kinds |-> BatchOf(j)]' = [j \in Kinds |-> BatchOf(j)]
  BY <1>4
<1>9. k \in Queue!Kinds
  BY DEF Queue!Kinds, Kinds
<1>10. QED
  BY <1>0, <1>7, <1>8, <1>9 DEF Queue!Drop, Pend

LEMMA OutsideStutter ==
  ASSUME IInv, IInv', NEW t \in Threads, OutsideStep(t), ~InsertNode(t), ~ClearForeign(t)
  PROVE  UNCHANGED Queue!queue
<1>k. PICK k \in Kinds : k = list[t]
  BY Types
<1>1. \/ spans' = spans
      \/ /\ \A j \in Kinds \ {k} : spans'[j] = spans[j]
         /\ \A x : (\E s \in spans'[k] : x \in SpanPages(s)) <=> (\E s \in spans[k] : x \in SpanPages(s))
  <2>1. CASE MergePrev(t) \/ MergeNext(t)
    BY <1>k, <2>1, MergeJoins, JoinsPages
  <2>2. CASE Request(t) \/ Execute(t) \/ MergeDone(t) \/ Inserted(t) \/ LockNext(t)
    BY <2>2 DEF Request, Execute, MergeDone, Inserted, LockNext
  <2>3. QED
    BY <2>1, <2>2 DEF OutsideStep
<1>2. ASSUME NEW j \in Kinds, NEW x
      PROVE  (\E s \in spans'[j] : x \in SpanPages(s)) <=> (\E s \in spans[j] : x \in SpanPages(s))
  BY <1>1
<1>3. ASSUME NEW j \in Kinds PROVE Pend(j)' = Pend(j)
  <2>1. \A x : x \in PagesIn(j)' <=> x \in PagesIn(j)
    BY <1>2, OutsidePages, IsPaged DEF Paged
  <2>2. PagesIn(j)' = PagesIn(j)
    BY <2>1 DEF PagesIn, PagesOf
  <2>3. QED
    BY <2>2, OutsideBatch DEF Pend
<1>4. advised' = advised /\ \A j \in Kinds : BatchOf(j)' = BatchOf(j)
  BY OutsideSteps, OutsideBatch
<1>5. QED
  BY <1>3, <1>4, QueueVars

-----------------------------------------------------------------------------
(* The steps of a removal take nothing from the batch                      *)

\* Lists of weaker accesses lose pages of mem at most; mem is in the list of
\* the walk, so what is left to advise stays.
LEMMA InsideStutter ==
  ASSUME IInv, IInv', NEW t \in Threads, InExecution(t),
         UNCHANGED <<phase, done, advised>>,
         NEW M, \A x \in M : x \in PagesIn(phase[t]),
         \A j \in Kinds : \A x : x \in PagesIn(j)' => x \in PagesIn(j),
         \A j \in Kinds : \A x :
           x \in PagesIn(j) /\ ~(phase[t] \in Stronger(j) /\ x \in M) => x \in PagesIn(j)'
  PROVE  UNCHANGED Queue!queue
<1>p. PICK p \in Kinds : p = phase[t]
  BY Types
<1>0. InExecution(t)' /\ phase'[t] = p /\ done'[t] = done[t] /\ Batches /\ Batches'
  BY <1>p, IsBatches, FactsNext DEF InExecution
<1>1. \A k \in Kinds : (Taken(k) <=> k = p \/ p \in Stronger(k)) /\ (Taken(k)' <=> Taken(k))
  BY <1>0, <1>p DEF Batches
<1>2. \A j \in Kinds : \A x : x \in PagesIn(j)' <=>
        x \in PagesIn(j) /\ (p \in Stronger(j) /\ x \in M => x \in PagesIn(j)')
  BY <1>p
<1>3. p \notin Stronger(p)
  BY DEF Stronger, Kinds
<1>4. \A x : x \in PagesIn(p)' <=> x \in PagesIn(p)
  BY <1>2, <1>3
<1>5. ASSUME NEW j \in Kinds PROVE Pend(j)' = Pend(j)
  <2>1. CASE Taken(j)
    BY <1>1, <2>1 DEF Pend
  <2>2. CASE ~Taken(j)
    <3>1. \A x : x \in PagesIn(j)' <=> x \in PagesIn(j)
      BY <1>1, <1>2, <2>2
    <3>2. PagesIn(j)' = PagesIn(j)
      BY <3>1 DEF PagesIn, PagesOf
    <3>3. QED
      BY <1>1, <3>2 DEF Pend
  <2>3. QED
    BY <2>1, <2>2
<1>6. ASSUME NEW k \in Kinds PROVE BatchOf(k)' = BatchOf(k)
  <2>1. ASSUME NEW x PROVE x \in BatchOf(k)' <=> x \in BatchOf(k)
    <3>1. x \in BatchOf(k) <=>
            \/ k = p /\ x \in PagesIn(k) /\ x \notin PagesOf(done[t])
            \/ /\ p \in Stronger(k) /\ x \in PagesIn(k)
               /\ \A s \in Stronger(k) : s = p \/ p \in Stronger(s) => x \notin PagesIn(s)
      BY <1>0, <1>p DEF Batches
    <3>2. x \in BatchOf(k)' <=>
            \/ k = p /\ x \in PagesIn(k)' /\ x \notin PagesOf(done[t])
            \/ /\ p \in Stronger(k) /\ x \in PagesIn(k)'
               /\ \A s \in Stronger(k) : s = p \/ p \in Stronger(s) => x \notin PagesIn(s)'
      <4>1. PagesOf(done[t])' = PagesOf(done[t])
        BY <1>0 DEF PagesOf
      <4>2. QED
        BY <1>0, <4>1 DEF Batches
    <3>3. \A s \in Stronger(k) : s \in Kinds
      BY DEF Stronger, Kinds
    <3>4. CASE k = p
      BY <1>3, <1>4, <3>1, <3>2, <3>4
    <3>5. CASE k # p /\ x \in PagesIn(p)
      BY <1>4, <3>1, <3>2, <3>5
    <3>6. CASE x \notin PagesIn(p)
      <4>1. x \notin M
        BY <1>p, <3>6
      <4>2. \A j \in Kinds : x \in PagesIn(j)' <=> x \in PagesIn(j)
        BY <1>2, <4>1
      <4>3. QED
        BY <3>1, <3>2, <3>3, <4>2
    <3>7. QED
      BY <3>4, <3>5, <3>6
  <2>2. PICK B : B = BatchOf(k)
    OBVIOUS
  <2>3. PICK C : C = BatchOf(k)'
    OBVIOUS
  <2>4. \A x : x \in B <=> x \in C
    BY <2>1, <2>2, <2>3
  <2>5. QED
    BY <2>2, <2>3, <2>4 DEF BatchOf
<1>7. QED
  BY <1>5, <1>6, QueueVars

\* The same for the invariant.
LEMMA InsideWalks ==
  ASSUME IInv, PageInv, NEW t \in Threads, InExecution(t), UNCHANGED <<phase, done, mem>>,
         spans'[phase[t]] = spans[phase[t]],
         \A j \in Kinds : \A x : x \in PagesIn(j)' => x \in PagesIn(j),
         pc[t] # "walk", pc'[t] # "advise",
         Works(t)' /\ list'[t] = "release" => Works(t) /\ list[t] = "release"
  PROVE  Walks(t)'
<1>1. Walks(t) /\ InExecution(t)'
  BY DEF PageInv, InExecution
<1>2. PagesOf(done[t])' = PagesOf(done[t]) /\ PagesOf({mem[t]})' = PagesOf({mem[t]})
  BY DEF PagesOf
<1>3. \A j \in Kinds : \A S : PagesIn(j) \cap S = {} => PagesIn(j)' \cap S = {}
  OBVIOUS
<1>4. QED
  BY <1>1, <1>2, <1>3 DEF Walks

\* The pages of a list in an execution.
LEMMA ExecPages ==
  ASSUME IInv, NEW t \in Threads, InExecution(t), NEW k \in Kinds
  PROVE  \A x : x \in PagesIn(k) <=> \/ \E s \in spans[k] : x \in SpanPages(s)
                                     \/ list[t] = k /\ x \in SpanPages(todo[t])
BY IsPaged DEF Paged

LEMMA ExecPagesNext ==
  ASSUME IInv', NEW t \in Threads, InExecution(t)', NEW k \in Kinds
  PROVE  \A x : x \in PagesIn(k)' <=> \/ \E s \in spans'[k] : x \in SpanPages(s)
                                      \/ list'[t] = k /\ x \in SpanPages(todo'[t])
<1>1. Paged'
  BY FactsNext
<1>2. ASSUME NEW x
      PROVE  x \in PagesIn(k)' <=>
               \/ \E s \in spans'[k] : x \in SpanPages(s)
               \/ \E u \in Threads : InExecution(u)' /\ list'[u] = k /\ x \in SpanPages(todo'[u])
  BY <1>1 DEF Paged, SpanPages
<1>3. \A u \in Threads : InExecution(u)' <=> u = t
  BY <1>1 DEF Paged
<1>4. QED
  BY <1>2, <1>3

\* An execution's insertions merge nothing.
LEMMA ExecInserts ==
  ASSUME IInv, NEW t \in Threads, InExecution(t),
         MergePrev(t) \/ MergeNext(t) \/ MergeDone(t) \/ SplitDone(t)
  PROVE  /\ UNCHANGED <<spans, list, phase, mem, done, cur, todo, advised>>
         /\ Inserts(t) /\ Works(t) /\ Works(t)' /\ Others(t) /\ InExecution(t)'
         /\ pc[t] # "walk" /\ pc'[t] \notin {"walk", "advise"}
         /\ pc'[t] = "removeNext" => todo[t] = NoSpan
<1>1. TypeOK /\ Merges(t)
  BY Types
<1>2. spans' = spans
  <2>1. CASE MergePrev(t) \/ MergeNext(t)
    <3>1. ~Joins(t)
      <4> SUFFICES ASSUME Joins(t) PROVE FALSE
        OBVIOUS
      <4>1. PICK a, b \in spans[list[t]] : a # b /\ a.low <= b.low /\ CheckMerge(a, b) /\ MergesNow(t)
        BY DEF Joins
      <4>2. Apart(a, b)
        BY <1>1, <4>1 DEF Merges, AllApart
      <4>3. /\ a.low \in Int /\ a.high \in Int /\ b.low \in Int /\ b.high \in Int
            /\ a.low < a.high /\ b.low < b.high
        BY Types, SpanFacts
      <4>4. QED
        BY <4>1, <4>2, <4>3 DEF CheckMerge, Apart
    <3>2. QED
      BY <2>1, <3>1, MergeJoins
  <2>2. CASE MergeDone(t) \/ SplitDone(t)
    BY <2>2 DEF MergeDone, SplitDone
  <2>3. QED
    BY <2>1, <2>2
<1>3. /\ UNCHANGED <<list, phase, mem, done, cur, todo, advised>>
      /\ pc[t] \in {"mergePrev", "mergeNext", "inserted"}
      /\ \E l \in {"mergeNext", "inserted", "removeNext"} : pc' = [pc EXCEPT ![t] = l]
      /\ node' = node \/ \E n : node' = [node EXCEPT ![t] = n]
      /\ pc'[t] = "removeNext" => todo[t] = NoSpan
  <2>1. CASE MergePrev(t)
    BY <1>1, <2>1 DEF MergePrev, Merge, Goto, TypeOK
  <2>2. CASE MergeNext(t)
    <3>1. pc[t] = "mergeNext" /\ pc' = pc
      BY <2>2 DEF MergeNext
    <3>2. pc' = [pc EXCEPT ![t] = "mergeNext"]
      BY <1>1, <3>1 DEF TypeOK
    <3>3. UNCHANGED <<list, phase, mem, done, cur, todo, advised>>
      BY <2>2 DEF MergeNext
    <3>4. \E n : node' = [node EXCEPT ![t] = n]
      BY <2>2 DEF MergeNext, Merge
    <3>5. QED
      BY <3>1, <3>2, <3>3, <3>4
  <2>3. CASE MergeDone(t)
    BY <1>1, <2>3 DEF MergeDone, Goto, TypeOK, locals
  <2>4. CASE SplitDone(t)
    BY <1>1, <2>4 DEF SplitDone, Goto, TypeOK
  <2>5. QED
    BY <2>1, <2>2, <2>3, <2>4
<1>4. pc'[t] \in {"mergeNext", "inserted", "removeNext"}
  BY <1>1, <1>3 DEF TypeOK
<1>5. Others(t)
  BY <1>1, <1>3 DEF Others, TypeOK
<1>6. QED
  BY <1>2, <1>3, <1>4, <1>5 DEF Inserts, Works, InExecution

\* What a step of an execution has to show: the invariant of its own, and that
\* it stutters.
LEMMA ExecInsertPages ==
  ASSUME IInv, IInv', PageInv, NEW t \in Threads, InExecution(t),
         MergePrev(t) \/ MergeNext(t) \/ MergeDone(t) \/ SplitDone(t)
  PROVE  PageInv' /\ UNCHANGED Queue!queue
<1>1. /\ UNCHANGED <<spans, list, phase, mem, done, cur, todo, advised>>
      /\ Inserts(t) /\ Works(t) /\ Works(t)' /\ Others(t) /\ InExecution(t)'
      /\ pc[t] # "walk" /\ pc'[t] \notin {"walk", "advise"}
  BY ExecInserts
<1>2. \A j \in Kinds : \A x : x \in PagesIn(j)' <=> x \in PagesIn(j)
  BY <1>1, ExecPages, ExecPagesNext
<1>3. Cuts(t)'
  BY <1>1 DEF PageInv, Cuts
<1>4. Walks(t)'
  BY <1>1, <1>2, InsideWalks
<1>5. PageInv'
  BY <1>1, <1>3, <1>4, InsideKeeps
<1>6. PICK M : M = {}
  OBVIOUS
<1>7. UNCHANGED Queue!queue
  BY <1>1, <1>2, <1>6, InsideStutter
<1>8. QED
  BY <1>5, <1>7

LEMMA InsertUpperPages ==
  ASSUME IInv, IInv', PageInv, NEW t \in Threads, InsertUpper(t)
  PROVE  PageInv' /\ UNCHANGED Queue!queue
<1>k. PICK k \in Kinds : k = list[t]
  BY Types
<1>d. PICK d : d = todo[t]
  OBVIOUS
<1>0. /\ pc[t] = "inserted" /\ InExecution(t) /\ d # NoSpan
      /\ pc' = [pc EXCEPT ![t] = "mergePrev"]
      /\ spans' = [spans EXCEPT ![k] = @ \cup {d}]
      /\ node' = [node EXCEPT ![t] = d] /\ todo' = [todo EXCEPT ![t] = NoSpan]
      /\ UNCHANGED <<list, phase, mem, cur, done, advised>>
  BY <1>d, <1>k DEF InsertUpper, Goto, InExecution, calls
<1>1. TypeOK
  BY Types
<1>2. Others(t)
  BY <1>0, <1>1 DEF Others, TypeOK
<1>3. /\ spans'[k] = spans[k] \cup {d} /\ \A j \in Kinds \ {k} : spans'[j] = spans[j]
      /\ todo'[t] = NoSpan /\ pc'[t] = "mergePrev"
  BY <1>0, <1>1 DEF TypeOK
<1>4. Inserts(t) /\ Works(t) /\ InExecution(t)' /\ phase[t] # k /\ phase[t] \in Kinds
  <2>1. Inserts(t) /\ Works(t)
    BY <1>0 DEF Inserts, Works
  <2>2. phase[t] \in Stronger(k) /\ phase[t] \in Kinds
    BY <1>0, <1>k, <2>1, Users, Types
  <2>3. QED
    BY <1>0, <2>1, <2>2 DEF InExecution, Stronger, Kinds
<1>5. \A j \in Kinds : \A x : x \in PagesIn(j)' <=> x \in PagesIn(j)
  <2>1. \A x : x \in PagesIn(k)' <=> x \in PagesIn(k)
    BY <1>0, <1>3, <1>4, <1>d, <1>k, ExecPages, ExecPagesNext, PagesOfSpans
  <2>2. \A j \in Kinds \ {k} : \A x : x \in PagesIn(j)' <=> x \in PagesIn(j)
    BY <1>0, <1>3, <1>4, <1>k, ExecPages, ExecPagesNext
  <2>3. QED
    BY <2>1, <2>2
<1>6. Cuts(t)'
  <2>1. mem[t] \in Spans /\ d \in Spans
    BY <1>0, <1>1, <1>d, Types DEF TypeOK
  <2>2. /\ mem[t].low \in Int /\ mem[t].high \in Int /\ mem[t].low < mem[t].high
        /\ d.low \in Int /\ mem[t].high <= d.low
    BY <1>0, <1>4, <1>d, <2>1, SpanFacts DEF PageInv, Cuts
  <2>3. ~(d.low < mem[t].low) /\ ~(d.low < mem[t].high)
    BY <2>2
  <2>4. Cuts(t)
    BY DEF PageInv
  <2>5. QED
    BY <1>0, <1>3, <1>4, <1>k, <2>3, <2>4 DEF Cuts
<1>7. Walks(t)'
  BY <1>0, <1>3, <1>4, <1>5, InsideWalks
<1>8. PageInv'
  BY <1>0, <1>2, <1>4, <1>6, <1>7, InsideKeeps
<1>9. PICK M : M = {}
  OBVIOUS
<1>10. UNCHANGED Queue!queue
  BY <1>0, <1>5, <1>9, InsideStutter
<1>11. QED
  BY <1>8, <1>10

LEMMA MemPages ==
  ASSUME IInv, NEW t \in Threads, InExecution(t), pc[t] # "walk"
  PROVE  /\ mem[t] \in Spans /\ PagesOf({mem[t]}) = SpanPages(mem[t])
         /\ \A x \in SpanPages(mem[t]) : x \in PagesIn(phase[t])
<1>1. mem[t] \in Spans /\ mem[t] \in spans[phase[t]] /\ phase[t] \in Kinds
  BY Types DEF Pointers
<1>2. QED
  BY <1>1, PagesBound, ExecPages

\* A removal from list k that takes nothing but pages of mem.
LEMMA RemovalPages ==
  ASSUME IInv, IInv', PageInv, NEW t \in Threads, InExecution(t), Works(t),
         pc[t] # "walk", pc'[t] \notin {"walk", "advise"},
         UNCHANGED <<list, phase, mem, done, advised>>, Others(t), Works(t)',
         NEW k \in Kinds, k = list[t], \A j \in Kinds \ {k} : spans'[j] = spans[j],
         Cuts(t)',
         \A x : (\E s \in spans'[k] : x \in SpanPages(s)) \/ x \in SpanPages(todo'[t])
                => (\E s \in spans[k] : x \in SpanPages(s)) \/ x \in SpanPages(todo[t]),
         \A x : (\E s \in spans[k] : x \in SpanPages(s)) \/ x \in SpanPages(todo[t])
                => \/ (\E s \in spans'[k] : x \in SpanPages(s)) \/ x \in SpanPages(todo'[t])
                   \/ x \in SpanPages(mem[t])
  PROVE  PageInv' /\ UNCHANGED Queue!queue
<1>1. InExecution(t)' /\ phase[t] \in Stronger(k) /\ phase[t] \in Kinds /\ phase[t] # k
  <2>1. phase[t] \in Stronger(k) /\ phase[t] \in Kinds
    BY Users, Types
  <2>2. QED
    BY <2>1 DEF InExecution, Stronger, Kinds
<1>M. PICK M : M = SpanPages(mem[t])
  OBVIOUS
<1>2. \A j \in Kinds \ {k} : \A x : x \in PagesIn(j)' <=> x \in PagesIn(j)
  BY <1>1, ExecPages, ExecPagesNext
<1>3. \A x : /\ x \in PagesIn(k) <=> (\E s \in spans[k] : x \in SpanPages(s)) \/ x \in SpanPages(todo[t])
             /\ x \in PagesIn(k)' <=> (\E s \in spans'[k] : x \in SpanPages(s)) \/ x \in SpanPages(todo'[t])
  BY <1>1, ExecPages, ExecPagesNext
<1>4. \A j \in Kinds : \A x : x \in PagesIn(j)' => x \in PagesIn(j)
  BY <1>2, <1>3
<1>5. \A j \in Kinds : \A x :
        x \in PagesIn(j) /\ ~(phase[t] \in Stronger(j) /\ x \in M) => x \in PagesIn(j)'
  BY <1>1, <1>2, <1>3, <1>M
<1>6. \A x \in M : x \in PagesIn(phase[t])
  BY <1>M, MemPages
<1>7. Walks(t)'
  BY <1>1, <1>4, InsideWalks
<1>8. PageInv'
  BY <1>1, <1>7, InsideKeeps
<1>9. UNCHANGED Queue!queue
  BY <1>4, <1>5, <1>6, InsideStutter
<1>10. QED
  BY <1>8, <1>9

LEMMA DeleteNextPages ==
  ASSUME IInv, IInv', PageInv, NEW t \in Threads, DeleteNext(t)
  PROVE  PageInv' /\ UNCHANGED Queue!queue
<1>k. PICK k \in Kinds : k = list[t]
  BY Types
<1>c. PICK c : c = cur[t]
  OBVIOUS
<1>m. PICK m : m = mem[t]
  OBVIOUS
<1> DEFINE A == spans[k]
<1>0. /\ pc[t] = "removeNext" /\ c # NoSpan /\ CheckOverlap(m, c) /\ m.high >= c.high
      /\ UNCHANGED <<pc, list, node, phase, mem, done, todo, advised>>
      /\ spans' = [spans EXCEPT ![k] = A \ {c}]
      /\ \/ (\A s \in A : s.low <= c.low) /\ cur' = [cur EXCEPT ![t] = NoSpan]
         \/ \E s \in A : IsSeek(s, A, c.low + 1) /\ cur' = [cur EXCEPT ![t] = s]
  BY <1>k, <1>c, <1>m DEF DeleteNext, Replace, calls
<1>1. /\ TypeOK /\ A \in SUBSET Spans /\ AllApart(A) /\ c \in A /\ c \in Spans /\ m \in Spans
      /\ InExecution(t) /\ Works(t) /\ todo[t] = NoSpan /\ ~Inserts(t)
  BY <1>0, <1>c, <1>k, <1>m, RemovalState, Types
<1>2. Others(t)
  BY <1>0, <1>1 DEF Others, TypeOK
<1>3. Works(t)' /\ ~Inserts(t)' /\ InExecution(t)'
  BY <1>0, <1>1 DEF Works, Inserts, InExecution
<1>4. spans'[k] = A \ {c} /\ \A j \in Kinds \ {k} : spans'[j] = spans[j]
  BY <1>0, <1>1 DEF TypeOK
<1>5. /\ \A s \in A : s.low < m.low => s.high <= m.low
      /\ \A s \in A : m.low <= s.low /\ s.low < m.high => c.low <= s.low
      /\ m.low <= c.low
  BY <1>0, <1>1, <1>c, <1>k, <1>m DEF PageInv, Cuts
<1>6. /\ \A s \in A : s.low \in Int /\ s.high \in Int /\ s.low < s.high
      /\ m.low \in Int /\ m.high \in Int
  BY <1>1, SpanFacts
<1>7. \A s \in A \ {c} : s.low # c.low
  BY <1>1, <1>6 DEF AllApart, Apart
<1>8. \A s \in A \ {c} : m.low <= s.low /\ s.low < m.high => s.low >= c.low + 1
  BY <1>1, <1>5, <1>6, <1>7
<1>9. PICK e \in Spans \cup {NoSpan} :
        /\ cur' = [cur EXCEPT ![t] = e]
        /\ \A s \in A : s.low >= c.low + 1 => e # NoSpan /\ e.low <= s.low
        /\ e # NoSpan => e.low >= c.low + 1 /\ e \in A
  <2>1. CASE (\A s \in A : s.low <= c.low) /\ cur' = [cur EXCEPT ![t] = NoSpan]
    <3>1. \A s \in A : ~(s.low >= c.low + 1)
      BY <1>1, <1>6, <2>1
    <3>2. PICK e \in Spans \cup {NoSpan} : e = NoSpan
      OBVIOUS
    <3>3. QED
      BY <2>1, <3>1, <3>2
  <2>2. CASE \E s \in A : IsSeek(s, A, c.low + 1) /\ cur' = [cur EXCEPT ![t] = s]
    <3>1. PICK e \in A : IsSeek(e, A, c.low + 1) /\ cur' = [cur EXCEPT ![t] = e]
      BY <2>2
    <3>2. \A s \in A : s.low >= c.low + 1 => e # NoSpan /\ e.low <= s.low
      BY <1>1, <1>6, <3>1, SpanFacts DEF IsSeek
    <3>3. e \in Spans /\ e.low >= c.low + 1
      BY <1>1, <3>1 DEF IsSeek
    <3>4. QED
      BY <3>1, <3>2, <3>3
  <2>3. QED
    BY <1>0, <2>1, <2>2
<1>10. cur'[t] = e
  BY <1>1, <1>9 DEF TypeOK
<1>11. Cuts(t)'
  <2>1. \A s \in spans'[k] : s.low < m.low => s.high <= m.low
    BY <1>4, <1>5
  <2>2. \A s \in spans'[k] : m.low <= s.low /\ s.low < m.high => e # NoSpan /\ e.low <= s.low
    BY <1>4, <1>8, <1>9
  <2>3. e # NoSpan => m.low <= e.low
    <3>1. e # NoSpan => e.low \in Int /\ c.low \in Int /\ e.low >= c.low + 1
      BY <1>1, <1>6, <1>9
    <3>2. QED
      BY <1>5, <1>6, <3>1
  <2> HIDE DEF A
  <2>4. QED
    BY <1>0, <1>1, <1>10, <1>k, <1>m, <2>1, <2>2, <2>3 DEF Cuts
<1>12. \A x \in SpanPages(c) : x \in SpanPages(m)
  BY <1>0, <1>1, <1>5, <1>6 DEF SpanPages
<1>13. todo'[t] = todo[t] /\ pc[t] # "walk" /\ pc'[t] \notin {"walk", "advise"}
  BY <1>0
<1>14. \A x : /\ (\E s \in spans'[k] : x \in SpanPages(s)) => (\E s \in spans[k] : x \in SpanPages(s))
              /\ (\E s \in spans[k] : x \in SpanPages(s)) =>
                   (\E s \in spans'[k] : x \in SpanPages(s)) \/ x \in SpanPages(m)
  BY <1>4, <1>12
<1> HIDE DEF A
<1>15. UNCHANGED <<list, phase, mem, done, advised>>
  BY <1>0
<1>16. QED
  BY <1>1, <1>2, <1>3, <1>4, <1>11, <1>13, <1>14, <1>15, <1>k, <1>m, RemovalPages

LEMMA ShortenNextPages ==
  ASSUME IInv, IInv', PageInv, NEW t \in Threads, ShortenNext(t)
  PROVE  PageInv' /\ UNCHANGED Queue!queue
<1>k. PICK k \in Kinds : k = list[t]
  BY Types
<1>c. PICK c : c = cur[t]
  OBVIOUS
<1>m. PICK m : m = mem[t]
  OBVIOUS
<1> DEFINE A == spans[k]
<1>r. PICK r : r = Span(m.high, c.high)
  OBVIOUS
<1>0. /\ pc[t] = "removeNext" /\ c # NoSpan /\ CheckOverlap(m, c) /\ m.high < c.high
      /\ UNCHANGED <<pc, list, node, phase, mem, done, todo, advised>>
      /\ spans' = [spans EXCEPT ![k] = (A \ {c}) \cup {r}]
      /\ cur' = [cur EXCEPT ![t] = r]
  BY <1>k, <1>c, <1>m, <1>r DEF ShortenNext, Replace, calls
<1>1. /\ TypeOK /\ A \in SUBSET Spans /\ AllApart(A) /\ c \in A /\ c \in Spans /\ m \in Spans
      /\ InExecution(t) /\ Works(t) /\ todo[t] = NoSpan /\ ~Inserts(t)
  BY <1>0, <1>c, <1>k, <1>m, RemovalState, Types
<1>2. Others(t)
  BY <1>0, <1>1 DEF Others, TypeOK
<1>3. Works(t)' /\ ~Inserts(t)' /\ InExecution(t)'
  BY <1>0, <1>1 DEF Works, Inserts, InExecution
<1>4. /\ spans'[k] = (A \ {c}) \cup {r} /\ \A j \in Kinds \ {k} : spans'[j] = spans[j]
      /\ cur'[t] = r
  BY <1>0, <1>1 DEF TypeOK
<1>5. /\ \A s \in A : s.low < m.low => s.high <= m.low
      /\ \A s \in A : m.low <= s.low /\ s.low < m.high => c.low <= s.low
      /\ m.low <= c.low
  BY <1>0, <1>1, <1>c, <1>k, <1>m DEF PageInv, Cuts
<1>6. /\ \A s \in A : s.low \in Int /\ s.high \in Int /\ s.low < s.high
      /\ m.low \in Int /\ m.high \in Int /\ m.low < m.high
      /\ m.high \in 0 .. MaxPage /\ c.high \in 0 .. MaxPage
  BY <1>1, SpanFacts
<1>7. r \in Spans /\ r.low = m.high /\ r.high = c.high
  BY <1>0, <1>6, <1>r, SpanFacts
<1>8. c.low <= m.high
  BY <1>0, <1>1, <1>6 DEF CheckOverlap
<1>9. \A s \in A \ {c} : ~(m.low <= s.low /\ s.low < m.high)
  <2>1. \A s \in A \ {c} : Apart(s, c)
    BY <1>1 DEF AllApart
  <2>2. QED
    BY <1>0, <1>1, <1>5, <1>6, <2>1 DEF Apart
<1>11. Cuts(t)'
  <2>1. \A s \in spans'[k] : s.low < m.low => s.high <= m.low
    BY <1>4, <1>5, <1>6, <1>7
  <2>2. \A s \in spans'[k] : ~(m.low <= s.low /\ s.low < m.high)
    BY <1>4, <1>6, <1>7, <1>9
  <2>3. m.low <= r.low
    BY <1>6, <1>7
  <2> HIDE DEF A
  <2>4. QED
    BY <1>0, <1>1, <1>4, <1>k, <1>m, <2>1, <2>2, <2>3 DEF Cuts
<1>12. \A x : /\ x \in SpanPages(r) => x \in SpanPages(c)
              /\ x \in SpanPages(c) => x \in SpanPages(m) \/ x \in SpanPages(r)
  BY <1>0, <1>1, <1>5, <1>6, <1>7, <1>8 DEF SpanPages
<1>13. todo'[t] = todo[t] /\ pc[t] # "walk" /\ pc'[t] \notin {"walk", "advise"}
  BY <1>0
<1>14. \A x : /\ (\E s \in spans'[k] : x \in SpanPages(s)) => (\E s \in spans[k] : x \in SpanPages(s))
              /\ (\E s \in spans[k] : x \in SpanPages(s)) =>
                   (\E s \in spans'[k] : x \in SpanPages(s)) \/ x \in SpanPages(m)
  BY <1>1, <1>4, <1>12
<1> HIDE DEF A
<1>15. UNCHANGED <<list, phase, mem, done, advised>>
  BY <1>0
<1>16. QED
  BY <1>1, <1>2, <1>3, <1>4, <1>11, <1>13, <1>14, <1>15, <1>k, <1>m, RemovalPages

\* What the first part of list_remove leaves: nothing before mem reaches into
\* it, and cur is the first span from mem on.
LEMMA RemovePrevPages ==
  ASSUME IInv, IInv', PageInv, NEW t \in Threads, RemovePrev(t)
  PROVE  PageInv' /\ UNCHANGED Queue!queue
<1>k. PICK k \in Kinds : k = list[t]
  BY Types
<1>m. PICK m : m = mem[t]
  OBVIOUS
<1> DEFINE A == spans[k]
<1>0. /\ pc[t] = "removePrev"
      /\ UNCHANGED <<list, phase, mem, done, advised>>
      /\ \/ (\A s \in A : s.low < m.low) /\ cur' = [cur EXCEPT ![t] = NoSpan]
         \/ \E s \in A : IsSeek(s, A, m.low) /\ cur' = [cur EXCEPT ![t] = s]
      /\ \/ /\ \E p \in A : IsPrev(p, A, m.low) /\ CheckOverlap(p, m)
            /\ \E p \in A : IsPrev(p, A, m.low) /\ Cut(t, A, p, m)
         \/ /\ ~ \E p \in A : IsPrev(p, A, m.low) /\ CheckOverlap(p, m)
            /\ Goto(t, "removeNext") /\ UNCHANGED <<spans, node, todo>>
  BY <1>k, <1>m DEF RemovePrev, calls
<1>1. TypeOK /\ Stage(t) /\ Pointers(t) /\ A \in SUBSET Spans
  BY <1>k, Types
<1>2. InExecution(t) /\ Works(t) /\ todo[t] = NoSpan /\ InExecution(t)'
  <2>1. InExecution(t) /\ Works(t) /\ ~Inserts(t)
    BY <1>0, <1>1 DEF Stage, Works, Inserts
  <2>2. QED
    BY <1>0, <1>1, <2>1 DEF Pointers, InExecution
<1>3. m \in Spans /\ AllApart(A)
  BY <1>0, <1>2, <1>k, <1>m, WorkApart, Types
<1>4. /\ m.low \in 0 .. MaxPage /\ m.high \in 0 .. MaxPage /\ m.low < m.high
      /\ m.low \in Int /\ m.high \in Int
      /\ \A s \in A : s.low \in Int /\ s.high \in Int /\ s.low < s.high /\ s.low \in 0 .. MaxPage
                      /\ s.high \in 0 .. MaxPage
  BY <1>1, <1>3, SpanFacts
<1>5. PICK c \in Spans \cup {NoSpan} :
        /\ cur' = [cur EXCEPT ![t] = c]
        /\ c # NoSpan => m.low <= c.low
        /\ \A s \in A : m.low <= s.low => c # NoSpan /\ c.low <= s.low
  <2>1. CASE (\A s \in A : s.low < m.low) /\ cur' = [cur EXCEPT ![t] = NoSpan]
    <3>1. \A s \in A : ~(m.low <= s.low)
      BY <1>4, <2>1
    <3>2. PICK c \in Spans \cup {NoSpan} : c = NoSpan
      OBVIOUS
    <3>3. QED
      BY <2>1, <3>1, <3>2
  <2>2. CASE \E s \in A : IsSeek(s, A, m.low) /\ cur' = [cur EXCEPT ![t] = s]
    <3>1. PICK c \in A : IsSeek(c, A, m.low) /\ cur' = [cur EXCEPT ![t] = c]
      BY <2>2
    <3>2. c # NoSpan /\ c \in Spans
      BY <1>1, SpanFacts
    <3>3. m.low <= c.low /\ \A s \in A : m.low <= s.low => c.low <= s.low
      BY <1>4, <3>1 DEF IsSeek
    <3>4. QED
      BY <3>1, <3>2, <3>3
  <2>3. QED
    BY <1>0, <2>1, <2>2
<1>6. cur'[t] = c
  BY <1>1, <1>5 DEF TypeOK
<1>7. CASE /\ \E p \in A : IsPrev(p, A, m.low) /\ CheckOverlap(p, m)
           /\ \E p \in A : IsPrev(p, A, m.low) /\ Cut(t, A, p, m)
  <2>1. PICK p \in A : IsPrev(p, A, m.low) /\ Cut(t, A, p, m)
    BY <1>7
  <2>2. p \in Spans /\ p.low < m.low
    BY <1>1, <2>1 DEF IsPrev
  <2>3. p.high > m.low
    <3>1. PICK o \in A : IsPrev(o, A, m.low) /\ CheckOverlap(o, m)
      BY <1>7
    <3>2. o = p
      BY <1>1, <1>3, <2>1, <3>1, OnePrev
    <3>3. QED
      BY <1>4, <2>2, <3>1, <3>2 DEF CheckOverlap
  <2>4. PICK q : q = Span(p.low, m.low)
    OBVIOUS
  <2>5. q \in Spans /\ q.low = p.low /\ q.high = m.low
    BY <1>4, <2>2, <2>4, SpanFacts
  <2>6. spans' = [spans EXCEPT ![k] = (A \ {p}) \cup {q}]
    BY <1>k, <2>1, <2>4 DEF Cut, Replace
  <2>7. spans'[k] = (A \ {p}) \cup {q} /\ \A j \in Kinds \ {k} : spans'[j] = spans[j]
    BY <1>1, <2>6 DEF TypeOK
  <2>8. \A s \in A \ {p} : s.low < m.low => s.high <= m.low
    <3>1. \A s \in A \ {p} : Apart(s, p)
      BY <1>3 DEF AllApart
    <3>2. \A s \in A : s.low < m.low => s.low <= p.low
      BY <2>1 DEF IsPrev
    <3>3. QED
      BY <1>4, <2>2, <3>1, <3>2 DEF Apart
  <2>9. /\ \A s \in spans'[k] : s.low < m.low => s.high <= m.low
        /\ \A s \in spans'[k] : m.low <= s.low => c # NoSpan /\ c.low <= s.low
    <3>1. q.low < m.low /\ q.high <= m.low /\ ~(m.low <= q.low)
      BY <1>4, <2>2, <2>5
    <3>2. QED
      BY <1>5, <2>7, <2>8, <3>1
  <2>10. CASE p.high <= m.high /\ Goto(t, "removeNext") /\ UNCHANGED <<node, todo>>
    <3>1. pc'[t] = "removeNext" /\ todo'[t] = NoSpan /\ todo'[t] = todo[t]
      BY <1>1, <1>2, <2>10 DEF Goto, TypeOK
    <3>2. Works(t)' /\ Others(t)
      BY <1>0, <1>1, <1>5, <2>10, <3>1 DEF Works, Others, Goto, TypeOK
    <3>3. Cuts(t)'
      BY <1>0, <1>5, <1>6, <1>k, <1>m, <2>9, <3>1 DEF Cuts
    <3>4. \A x : /\ x \in SpanPages(q) => x \in SpanPages(p)
                 /\ x \in SpanPages(p) => x \in SpanPages(q) \/ x \in SpanPages(m)
      BY <1>4, <2>2, <2>3, <2>5, <2>10 DEF SpanPages
    <3>5. \A x : /\ (\E s \in spans'[k] : x \in SpanPages(s)) => (\E s \in spans[k] : x \in SpanPages(s))
                 /\ (\E s \in spans[k] : x \in SpanPages(s)) =>
                      (\E s \in spans'[k] : x \in SpanPages(s)) \/ x \in SpanPages(m)
      BY <2>1, <2>7, <3>4
    <3>6. UNCHANGED <<list, phase, mem, done, advised>> /\ pc[t] # "walk"
          /\ pc'[t] \notin {"walk", "advise"}
      BY <1>0, <3>1
    <3> HIDE DEF A
    <3>7. QED
      BY <1>2, <1>k, <1>m, <2>7, <3>1, <3>2, <3>3, <3>5, <3>6, RemovalPages
  <2>11. CASE /\ p.high > m.high
              /\ node' = [node EXCEPT ![t] = q]
              /\ todo' = [todo EXCEPT ![t] = Span(m.high, p.high)]
              /\ Goto(t, "mergePrev")
    <3>d. PICK d : d = Span(m.high, p.high)
      OBVIOUS
    <3>0. d \in Spans /\ d.low = m.high /\ d.high = p.high
      BY <1>4, <2>2, <2>11, <3>d, SpanFacts
    <3>1. pc'[t] = "mergePrev" /\ todo'[t] = d
      BY <1>1, <2>11, <3>d DEF Goto, TypeOK
    <3>2. Works(t)' /\ Others(t)
      BY <1>0, <1>1, <1>5, <2>11, <3>1 DEF Works, Inserts, Others, Goto, TypeOK
    <3>3. Cuts(t)'
      <4>1. m.high <= d.low
        BY <1>4, <3>0
      <4>2. QED
        BY <1>0, <1>5, <1>6, <1>k, <1>m, <2>9, <3>1, <4>1 DEF Cuts
    <3>4. \A x : /\ x \in SpanPages(q) => x \in SpanPages(p)
                 /\ x \in SpanPages(d) => x \in SpanPages(p)
                 /\ x \in SpanPages(p) => x \in SpanPages(q) \/ x \in SpanPages(m) \/ x \in SpanPages(d)
      BY <1>4, <2>2, <2>3, <2>5, <2>11, <3>0 DEF SpanPages
    <3>5. \A x : /\ (\E s \in spans'[k] : x \in SpanPages(s)) \/ x \in SpanPages(d)
                      => (\E s \in spans[k] : x \in SpanPages(s))
                 /\ (\E s \in spans[k] : x \in SpanPages(s)) =>
                      (\E s \in spans'[k] : x \in SpanPages(s)) \/ x \in SpanPages(m) \/ x \in SpanPages(d)
      BY <2>1, <2>7, <3>4
    <3>6. UNCHANGED <<list, phase, mem, done, advised>> /\ pc[t] # "walk"
          /\ pc'[t] \notin {"walk", "advise"} /\ SpanPages(todo[t]) = {}
      BY <1>0, <1>2, <3>1, PagesOfSpans
    <3> HIDE DEF A
    <3>7. QED
      BY <1>2, <1>k, <1>m, <2>7, <3>1, <3>2, <3>3, <3>5, <3>6, RemovalPages
  <2>12. QED
    BY <2>1, <2>4, <2>10, <2>11 DEF Cut
<1>8. CASE /\ ~ \E p \in A : IsPrev(p, A, m.low) /\ CheckOverlap(p, m)
           /\ Goto(t, "removeNext") /\ UNCHANGED <<spans, node, todo>>
  <2>1. ASSUME NEW s \in A, s.low < m.low PROVE s.high <= m.low
    <3>1. PICK p \in A : IsPrev(p, A, m.low)
      BY <1>1, <1>4, <2>1, PrevExists
    <3>2. p.low < m.low /\ ~CheckOverlap(p, m) /\ s.low <= p.low
      BY <1>8, <2>1, <3>1 DEF IsPrev
    <3>3. p.high <= m.low
      BY <1>4, <3>2 DEF CheckOverlap
    <3>4. s = p \/ Apart(s, p)
      BY <1>3 DEF AllApart
    <3>5. QED
      BY <1>4, <3>2, <3>3, <3>4 DEF Apart
  <2>2. pc'[t] = "removeNext" /\ todo'[t] = NoSpan /\ todo'[t] = todo[t] /\ spans' = spans
    BY <1>1, <1>2, <1>8 DEF Goto, TypeOK
  <2>3. Works(t)' /\ Others(t)
    BY <1>0, <1>1, <1>5, <1>8, <2>2 DEF Works, Others, Goto, TypeOK
  <2>4. Cuts(t)'
    BY <1>0, <1>5, <1>6, <1>k, <1>m, <2>1, <2>2 DEF Cuts
  <2>5. UNCHANGED <<list, phase, mem, done, advised>> /\ pc[t] # "walk"
        /\ pc'[t] \notin {"walk", "advise"}
    BY <1>0, <2>2
  <2> HIDE DEF A
  <2>6. QED
    BY <1>2, <1>k, <1>m, <2>2, <2>3, <2>4, <2>5, RemovalPages
<1>9. QED
  BY <1>0, <1>7, <1>8

LEMMA RemoveDonePages ==
  ASSUME IInv, IInv', PageInv, NEW t \in Threads, RemoveDone(t)
  PROVE  PageInv' /\ UNCHANGED Queue!queue
<1>k. PICK k \in Kinds : k = list[t]
  BY Types
<1>p. PICK p : p = phase[t]
  OBVIOUS
<1>m. PICK m : m = mem[t]
  OBVIOUS
<1>0. /\ pc[t] = "removeNext"
      /\ cur[t] = NoSpan \/ ~CheckOverlap(m, cur[t])
      /\ cur' = [cur EXCEPT ![t] = NoSpan]
      /\ \/ k = "read" /\ list' = [list EXCEPT ![t] = "release"]
                       /\ pc' = [pc EXCEPT ![t] = "removePrev"]
         \/ k # "read" /\ pc' = [pc EXCEPT ![t] = "advise"] /\ list' = list
      /\ UNCHANGED <<spans, node, phase, mem, done, todo, advised>>
  BY <1>k, <1>m DEF RemoveDone, Goto, calls
<1>1. /\ TypeOK /\ InExecution(t) /\ Works(t) /\ ~Inserts(t) /\ todo[t] = NoSpan /\ m \in Spans
      /\ InExecution(t)' /\ spans[k] \in SUBSET Spans /\ (cur[t] # NoSpan => cur[t] \in Spans)
  BY <1>0, <1>k, <1>m, RemovalState, Types DEF InExecution
<1>2. Others(t)
  BY <1>0, <1>1 DEF Others, TypeOK
<1>3. /\ k = "read" => pc'[t] = "removePrev" /\ list'[t] = "release"
      /\ k # "read" => pc'[t] = "advise" /\ list'[t] = k
      /\ p \in Stronger(k) /\ p \in Kinds
  BY <1>0, <1>1, <1>k, <1>p, Users, Types DEF TypeOK
<1>4. \A j \in Kinds : \A x : x \in PagesIn(j)' <=> x \in PagesIn(j)
  BY <1>0, <1>1, ExecPages, ExecPagesNext, PagesOfSpans
<1>5. \A x : x \in PagesIn(k) => x \notin SpanPages(m)
  <2>1. ASSUME NEW s \in spans[k], NEW x, x \in SpanPages(s), x \in SpanPages(m) PROVE FALSE
    <3>1. /\ s.low < m.low => s.high <= m.low
          /\ m.low <= s.low /\ s.low < m.high => cur[t] # NoSpan /\ cur[t].low <= s.low
          /\ cur[t] # NoSpan => m.low <= cur[t].low
      BY <1>0, <1>1, <1>k, <1>m DEF PageInv, Cuts
    <3>2. /\ s.low \in Int /\ s.high \in Int /\ m.low \in Int /\ m.high \in Int
          /\ cur[t] # NoSpan => cur[t].low \in Int
      BY <1>1, SpanFacts
    <3>3. x \in Int /\ s.low <= x /\ x < s.high /\ m.low <= x /\ x < m.high
      BY <2>1, <3>2 DEF SpanPages
    <3>4. m.low <= s.low /\ s.low < m.high
      BY <3>1, <3>2, <3>3
    <3>5. ~(m.high > cur[t].low)
      BY <1>0, <3>1, <3>4 DEF CheckOverlap
    <3>6. QED
      BY <3>1, <3>2, <3>4, <3>5
  <2>2. QED
    BY <1>1, <1>k, <2>1, ExecPages, PagesOfSpans
<1>6. Cuts(t)'
  BY <1>3 DEF Cuts, Inserts
<1>7. PagesOf(done[t])' = PagesOf(done[t]) /\ PagesOf({mem[t]})' = PagesOf({mem[t]})
      /\ PagesOf({mem[t]}) = SpanPages(m)
  BY <1>0, <1>1, <1>m, PagesBound DEF PagesOf
<1>8. Walks(t)
  BY DEF PageInv
<1>9. ASSUME NEW j \in Kinds, p \in Stronger(j)
      PROVE  /\ PagesIn(j)' \cap PagesOf(done[t])' = {}
             /\ pc'[t] = "advise" => PagesIn(j)' \cap PagesOf({mem[t]})' = {}
             /\ Works(t)' /\ j = "read" /\ list'[t] = "release" =>
                  PagesIn(j)' \cap PagesOf({mem[t]})' = {}
  <2>1. PagesIn(j)' \cap PagesOf(done[t])' = {}
    BY <1>4, <1>7, <1>8, <1>9, <1>p DEF Walks
  <2>2. j = k => PagesIn(j)' \cap PagesOf({mem[t]})' = {}
    BY <1>4, <1>5, <1>7
  <2>3. k = "release" /\ j = "read" => PagesIn(j) \cap SpanPages(m) = {}
    BY <1>1, <1>7, <1>8, <1>9, <1>k, <1>p DEF Walks
  <2>4. k # "read" => k = "release"
    BY <1>3 DEF Stronger, Kinds
  <2>5. j = "read" \/ j = "release"
    BY <1>9 DEF Stronger, Kinds
  <2>6. Works(t)' => k = "read"
    BY <1>3 DEF Works, Inserts
  <2>7. QED
    BY <1>3, <1>4, <1>7, <2>1, <2>2, <2>3, <2>4, <2>5, <2>6
<1>10. Walks(t)'
  <2>1. /\ done[t] \subseteq spans[phase[t]] /\ mem[t] \notin done[t]
    BY <1>0, <1>1, <1>8 DEF Walks
  <2>2. phase'[t] = p /\ spans' = spans /\ done'[t] = done[t] /\ mem'[t] = mem[t]
    BY <1>0, <1>p
  <2>3. QED
    BY <1>1, <1>9, <1>p, <2>1, <2>2 DEF Walks
<1>11. PageInv'
  BY <1>1, <1>2, <1>6, <1>10, InsideKeeps
<1>12. PICK M : M = {}
  OBVIOUS
<1>13. UNCHANGED Queue!queue
  BY <1>0, <1>1, <1>4, <1>12, InsideStutter
<1>14. QED
  BY <1>11, <1>13

LEMMA NextSpanPages ==
  ASSUME IInv, IInv', PageInv, NEW t \in Threads, NextSpan(t)
  PROVE  PageInv' /\ UNCHANGED Queue!queue
<1>0. /\ pc[t] = "walk"
      /\ UNCHANGED <<spans, node, phase, done, cur, todo, advised>>
      /\ \E s \in spans[phase[t]] \ done[t] : mem' = [mem EXCEPT ![t] = s]
      /\ \/ /\ phase[t] = "release" /\ pc' = [pc EXCEPT ![t] = "advise"] /\ list' = list
         \/ /\ phase[t] # "release" /\ pc' = [pc EXCEPT ![t] = "removePrev"]
            /\ list' = [list EXCEPT ![t] = IF phase[t] = "write" THEN "read" ELSE "release"]
  BY DEF NextSpan, Goto, calls
<1>1. TypeOK /\ Stage(t) /\ Pointers(t)
  BY Types
<1>2. InExecution(t) /\ InExecution(t)' /\ ~Inserts(t) /\ todo[t] = NoSpan /\ todo'[t] = NoSpan
  BY <1>0, <1>1 DEF Stage, Inserts, Pointers, InExecution
<1>p. PICK p \in Kinds : p = phase[t]
  BY <1>2, Types
<1>3. Others(t)
  BY <1>0, <1>1 DEF Others, TypeOK
<1>4. /\ mem'[t] \in spans[p] \ done[t]
      /\ p = "release" => pc'[t] = "advise"
      /\ p # "release" => pc'[t] = "removePrev" /\ list'[t] = IF p = "write" THEN "read" ELSE "release"
  BY <1>0, <1>1, <1>p DEF TypeOK
<1>5. \A j \in Kinds : \A x : x \in PagesIn(j)' <=> x \in PagesIn(j)
  BY <1>0, <1>2, ExecPages, ExecPagesNext, PagesOfSpans
<1>6. Cuts(t)'
  BY <1>4 DEF Cuts, Inserts
<1>7. Walks(t)'
  <2>1. Walks(t) /\ phase'[t] = p /\ done'[t] = done[t] /\ spans' = spans
    BY <1>0, <1>p DEF PageInv
  <2>2. PagesOf(done[t])' = PagesOf(done[t])
    BY <2>1 DEF PagesOf
  <2>3. ASSUME NEW j \in Kinds, p \in Stronger(j)
        PROVE  /\ PagesIn(j)' \cap PagesOf(done[t])' = {}
               /\ pc'[t] # "advise" /\ ~(j = "read" /\ list'[t] = "release")
    <3>1. PagesIn(j)' \cap PagesOf(done[t])' = {}
      BY <1>5, <1>p, <2>1, <2>2, <2>3 DEF Walks
    <3>2. p # "release" /\ (j = "read" => p = "write")
      BY <2>3 DEF Stronger, Kinds
    <3>3. QED
      BY <1>4, <3>1, <3>2
  <2>4. done[t] \subseteq spans[p]
    BY <1>2, <1>p, <2>1 DEF Walks
  <2>5. QED
    BY <1>2, <1>4, <2>1, <2>3, <2>4 DEF Walks
<1>8. PageInv'
  BY <1>2, <1>3, <1>6, <1>7, InsideKeeps
<1>9. PICK M : M = {}
  OBVIOUS
<1>10. UNCHANGED Queue!queue
  BY <1>0, <1>2, <1>5, <1>9, InsideStutter
<1>11. QED
  BY <1>8, <1>10

-----------------------------------------------------------------------------
(* The steps of PrefetchQueue that an execution takes                      *)

LEMMA AdvisePages ==
  ASSUME IInv, IInv', PageInv, NEW t \in Threads, Advise(t)
  PROVE  PageInv' /\ Queue!Advise
<1>m. PICK m : m = mem[t]
  OBVIOUS
<1>0. /\ pc[t] = "advise" /\ pc' = [pc EXCEPT ![t] = "walk"]
      /\ UNCHANGED <<spans, list, node, phase, cur, todo>>
      /\ mem' = [mem EXCEPT ![t] = NoSpan]
      /\ done' = [done EXCEPT ![t] = @ \cup {m}]
  BY <1>m DEF Advise, Goto, calls
<1>1. TypeOK /\ Stage(t) /\ Pointers(t)
  BY Types
<1>2. InExecution(t) /\ InExecution(t)' /\ ~MergesNow(t) /\ ~Inserts(t)
  BY <1>0, <1>1 DEF Stage, MergesNow, Inserts, InExecution
<1>p. PICK p \in Kinds : p = phase[t]
  BY <1>2, Types
<1>P. PICK P : P = SpanPages(m)
  OBVIOUS
<1>3. /\ m \in Spans /\ PagesOf({m}) = P /\ P \in SUBSET (0 .. MaxPage - 1)
      /\ m \in spans[p] /\ spans[p] \in SUBSET Spans
      /\ \A x \in P : x \in PagesIn(p)
  <2>1. m \in Spans /\ PagesOf({m}) = P /\ \A x \in P : x \in PagesIn(p)
    BY <1>0, <1>2, <1>P, <1>m, <1>p, MemPages
  <2>2. m \in spans[p] /\ spans[p] \in SUBSET Spans
    BY <1>0, <1>1, <1>2, <1>m, <1>p, Types DEF Pointers
  <2>3. QED
    BY <2>1, <2>2, PagesBound
<1>4. advised' = [advised EXCEPT ![p] = @ \cup P]
  BY <1>3, <1>m, <1>p DEF Advise
<1>5. Others(t)
  BY <1>0, <1>1 DEF Others, TypeOK
<1>6. /\ pc'[t] = "walk" /\ phase'[t] = p /\ list'[t] = list[t] /\ todo'[t] = todo[t]
      /\ done'[t] = done[t] \cup {m} /\ spans' = spans
  BY <1>0, <1>1, <1>p DEF TypeOK
<1>7. \A j \in Kinds : \A x : x \in PagesIn(j)' <=> x \in PagesIn(j)
  BY <1>2, <1>6, ExecPages, ExecPagesNext
<1>8. \A x : x \in PagesOf(done[t])' <=> x \in PagesOf(done[t]) \/ x \in P
  <2>1. \A x : x \in PagesOf(done[t])' <=> \E s \in done'[t] : x \in SpanPages(s)
    BY PagesOfSpans DEF PagesOf, SpanPages
  <2>2. QED
    BY <1>6, <1>P, <2>1, PagesOfSpans
<1>9. Walks(t) /\ m \notin done[t] /\ done[t] \subseteq spans[p]
  BY <1>0, <1>2, <1>m, <1>p DEF PageInv, Walks
<1>10. PageInv'
  <2>1. Cuts(t)'
    BY <1>6 DEF Cuts, Inserts
  <2>2. ASSUME NEW j \in Kinds, p \in Stronger(j) PROVE PagesIn(j)' \cap PagesOf(done[t])' = {}
    <3>1. PagesIn(j) \cap PagesOf(done[t]) = {} /\ PagesIn(j) \cap P = {}
      BY <1>0, <1>3, <1>9, <1>m, <1>p, <2>2 DEF Walks
    <3>2. QED
      BY <1>7, <1>8, <3>1
  <2>3. ~Works(t)'
    BY <1>6 DEF Works, Inserts
  <2>4. Walks(t)'
    BY <1>2, <1>3, <1>6, <1>9, <2>2, <2>3 DEF Walks
  <2>5. QED
    BY <1>2, <1>5, <2>1, <2>4, InsideKeeps
<1>11. \A x \in P : x \notin PagesOf(done[t])
  <2>1. owner[p] = t
    BY <1>2, <1>p, Users
  <2>2. Merging(p) = {}
    BY <1>2, <2>1, OneMerges
  <2>3. \A s \in done[t] : Apart(s, m)
    BY <1>3, <1>9, <2>2 DEF IInv, ListsApart
  <2>4. ASSUME NEW s \in done[t], NEW x, x \in SpanPages(s), x \in SpanPages(m) PROVE FALSE
    <3>1. s.low \in Int /\ s.high \in Int /\ m.low \in Int /\ m.high \in Int
      BY <1>3, <1>9, SpanFacts
    <3>2. x \in Int /\ s.low <= x /\ x < s.high /\ m.low <= x /\ x < m.high
      BY <2>4, <3>1 DEF SpanPages
    <3>3. Apart(s, m)
      BY <2>3
    <3>4. QED
      BY <3>1, <3>2, <3>3 DEF Apart
  <2>5. QED
    BY <1>P, <2>4, PagesOfSpans
<1>12. Batches /\ Batches'
  BY IsBatches, FactsNext
<1>13. \A j \in Kinds : (Taken(j) <=> j = p \/ p \in Stronger(j)) /\ (Taken(j)' <=> Taken(j))
  BY <1>2, <1>6, <1>12, <1>p DEF Batches
<1>14. ASSUME NEW j \in Kinds PROVE Pend(j)' = Pend(j)
  <2>1. PagesIn(j)' = PagesIn(j)
    BY <1>7 DEF PagesIn, PagesOf
  <2>2. QED
    BY <1>13, <2>1 DEF Pend
<1>15. p \notin Stronger(p) /\ \A k \in Kinds : \A s \in Stronger(k) : s \in Kinds
  BY DEF Stronger, Kinds
<1>16. \A k \in Kinds : \A x : x \in BatchOf(k) <=>
         \/ k = p /\ x \in PagesIn(k) /\ x \notin PagesOf(done[t])
         \/ /\ p \in Stronger(k) /\ x \in PagesIn(k)
            /\ \A s \in Stronger(k) : s = p \/ p \in Stronger(s) => x \notin PagesIn(s)
  BY <1>2, <1>12, <1>p DEF Batches
<1>17. \A k \in Kinds : \A x : x \in BatchOf(k)' <=>
         \/ k = p /\ x \in PagesIn(k)' /\ x \notin PagesOf(done[t])'
         \/ /\ p \in Stronger(k) /\ x \in PagesIn(k)'
            /\ \A s \in Stronger(k) : s = p \/ p \in Stronger(s) => x \notin PagesIn(s)'
  BY <1>2, <1>6, <1>12 DEF Batches
<1>18. \A k \in Kinds : \A x : k # p => (x \in BatchOf(k)' <=> x \in BatchOf(k))
  BY <1>7, <1>15, <1>16, <1>17
<1>19. \A x : x \in BatchOf(p)' <=> x \in BatchOf(p) /\ x \notin P
  BY <1>7, <1>8, <1>15, <1>16, <1>17
<1>20. P \subseteq BatchOf(p)
  BY <1>3, <1>11, <1>16
<1>B. PICK B : B = [k \in Kinds |-> BatchOf(k)]
  OBVIOUS
<1>C. PICK C : C = [k \in Kinds |-> BatchOf(k)]'
  OBVIOUS
<1>21. C = [B EXCEPT ![p] = @ \ P]
  <2>1. \A k \in Kinds : B[k] = BatchOf(k) /\ C[k] = BatchOf(k)'
    BY <1>B, <1>C
  <2>2. ASSUME NEW k \in Kinds \ {p} PROVE C[k] = B[k]
    <3>1. \A x : x \in BatchOf(k)' <=> x \in BatchOf(k)
      BY <1>18
    <3>2. BatchOf(k)' = BatchOf(k)
      BY <3>1 DEF BatchOf
    <3>3. QED
      BY <2>1, <3>2
  <2>3. C[p] = B[p] \ P
    BY <1>19, <2>1 DEF BatchOf
  <2>4. B = [k \in Kinds |-> B[k]] /\ C = [k \in Kinds |-> C[k]]
    BY <1>B, <1>C
  <2>5. QED
    BY <2>2, <2>3, <2>4
<1>22. [k \in Kinds |-> Pend(k)]' = [k \in Kinds |-> Pend(k)]
  BY <1>14
<1>23. p \in Queue!Kinds /\ P \subseteq B[p]
  BY <1>20, <1>B DEF Queue!Kinds, Kinds
<1>24. Queue!Advise
  BY <1>3, <1>4, <1>21, <1>22, <1>23, <1>B, <1>C DEF Queue!Advise, Pend
<1>25. QED
  BY <1>10, <1>24

\* Sets of pages are equal when they have the same pages.
LEMMA BatchNext ==
  ASSUME NEW k \in Kinds, NEW S, \A x : x \in BatchOf(k)' <=> x \in S
  PROVE  BatchOf(k)' = S
BY DEF BatchOf

LEMMA LockLastPages ==
  ASSUME IInv, IInv', PageInv, NEW t \in Threads, LockLast(t)
  PROVE  PageInv' /\ Queue!Begin
<1>0. /\ pc[t] = "lock" /\ list[t] = "write" /\ pc' = [pc EXCEPT ![t] = "walk"]
      /\ phase' = [phase EXCEPT ![t] = "write"]
      /\ UNCHANGED <<spans, list, node, mem, done, cur, todo, advised>>
  BY DEF LockLast, Goto, calls
<1>1. TypeOK /\ Stage(t) /\ Pointers(t)
  BY Types
<1>2. ~InExecution(t) /\ ~Inserts(t) /\ todo[t] = NoSpan
  BY <1>0, <1>1 DEF Stage, Inserts, Pointers
<1>3. pc'[t] = "walk" /\ phase'[t] = "write" /\ InExecution(t)'
  BY <1>0, <1>1 DEF TypeOK, InExecution
<1>4. Others(t)
  BY <1>0, <1>1 DEF Others, TypeOK
<1>5. ASSUME NEW u \in Threads PROVE ~InExecution(u)
  <2>1. "release" \in Held(t)
    BY <1>0, <1>2 DEF Held, Kinds
  <2>2. owner["release"] = t
    BY <2>1, Users DEF Kinds
  <2>3. InExecution(u) => owner["release"] = u
    <3>1. InExecution(u) => phase[u] \in Kinds /\ (phase[u] = "release" \/ phase[u] \in Stronger("release"))
      BY Types DEF Kinds, Stronger
    <3>2. QED
      BY <3>1, Users DEF Kinds
  <2>4. QED
    BY <1>2, <2>2, <2>3
<1>6. done[t] = {} /\ advised = [k \in Kinds |-> {}]
  BY <1>2, <1>5 DEF PageInv, Walks, Advises
<1>7. Batches /\ Batches' /\ Paged
  BY IsBatches, IsPaged, FactsNext
<1>8. \A k \in Kinds : ~Taken(k) /\ BatchOf(k) = {} /\ Taken(k)'
  <2>1. \A k \in Kinds : k = "write" \/ "write" \in Stronger(k)
    BY DEF Kinds, Stronger
  <2>2. QED
    BY <1>3, <1>5, <1>7, <2>1 DEF Batches
<1>9. \A k \in Kinds : \A x : x \in PagesIn(k)' <=> x \in PagesIn(k)
  BY <1>0, <1>2, <1>3, <1>5, <1>7, ExecPagesNext, PagesOfSpans DEF Paged
<1>10. PagesOf(done[t])' = {}
  <2>1. done'[t] = {}
    BY <1>0, <1>6
  <2>2. QED
    BY <2>1 DEF PagesOf
<1>11. PageInv'
  <2>1. Cuts(t)' /\ ~Works(t)'
    BY <1>3 DEF Cuts, Works, Inserts
  <2>2. done'[t] = {}
    BY <1>0, <1>6
  <2>3. Walks(t)'
    BY <1>3, <1>10, <2>1, <2>2 DEF Walks
  <2>4. QED
    BY <1>3, <1>4, <2>1, <2>3, InsideKeeps
<1>12. ASSUME NEW k \in Kinds
       PROVE  BatchOf(k)' = PagesIn(k) \ UNION {Pend(s) : s \in Queue!Stronger(k)}
  <2>1. Queue!Stronger(k) = Stronger(k) /\ \A s \in Stronger(k) : s \in Kinds /\ (s = "write" \/ "write" \in Stronger(s))
    BY DEF Queue!Stronger, Stronger, Kinds
  <2>2. \A s \in Stronger(k) : Pend(s) = PagesIn(s)
    BY <1>8, <2>1 DEF Pend
  <2>3. ASSUME NEW x
        PROVE  x \in BatchOf(k)' <=> x \in PagesIn(k) /\ \A s \in Stronger(k) : x \notin PagesIn(s)
    <3>1. x \in BatchOf(k)' <=>
            \/ k = "write" /\ x \in PagesIn(k)' /\ x \notin PagesOf(done[t])'
            \/ /\ "write" \in Stronger(k) /\ x \in PagesIn(k)'
               /\ \A s \in Stronger(k) : s = "write" \/ "write" \in Stronger(s) => x \notin PagesIn(s)'
      BY <1>3, <1>7 DEF Batches
    <3>2. k = "write" => Stronger(k) = {}
      BY DEF Stronger
    <3>3. k = "write" \/ "write" \in Stronger(k)
      BY DEF Stronger, Kinds
    <3>4. QED
      BY <1>9, <1>10, <2>1, <3>1, <3>2, <3>3
  <2>4. \A x : x \in UNION {Pend(s) : s \in Queue!Stronger(k)} <=> \E s \in Stronger(k) : x \in PagesIn(s)
    BY <2>1, <2>2
  <2>5. PICK S : S = PagesIn(k) \ UNION {Pend(s) : s \in Queue!Stronger(k)}
    OBVIOUS
  <2>6. \A x : x \in BatchOf(k)' <=> x \in S
    BY <2>3, <2>4, <2>5
  <2>7. QED
    BY <2>5, <2>6, BatchNext
<1>13. \A k \in Kinds : Pend(k) = PagesIn(k) /\ Pend(k)' = {}
  BY <1>8 DEF Pend
<1>14. QED
  <2>1. Queue!Kinds = Kinds /\ Queue!Nothing = [k \in Kinds |-> {}]
    BY DEF Queue!Kinds, Queue!Nothing, Kinds
  <2>2. [k \in Kinds |-> BatchOf(k)] = Queue!Nothing /\ advised = Queue!Nothing
    BY <1>6, <1>8, <2>1
  <2>3. [k \in Kinds |-> Pend(k)]' = Queue!Nothing
    BY <1>13, <2>1
  <2>4. [k \in Kinds |-> BatchOf(k)]' =
          [k \in Queue!Kinds |-> [j \in Kinds |-> Pend(j)][k]
                                 \ UNION {[j \in Kinds |-> Pend(j)][s] : s \in Queue!Stronger(k)}]
    <3>1. ASSUME NEW k \in Kinds
          PROVE  UNION {[j \in Kinds |-> Pend(j)][s] : s \in Queue!Stronger(k)}
                   = UNION {Pend(s) : s \in Queue!Stronger(k)}
      <4>1. \A s \in Queue!Stronger(k) : s \in Kinds
        BY DEF Queue!Stronger, Kinds
      <4>2. {[j \in Kinds |-> Pend(j)][s] : s \in Queue!Stronger(k)} = {Pend(s) : s \in Queue!Stronger(k)}
        BY <4>1
      <4>3. QED
        BY <4>2
    <3>2. \A k \in Kinds : BatchOf(k)' = [j \in Kinds |-> Pend(j)][k]
                                 \ UNION {[j \in Kinds |-> Pend(j)][s] : s \in Queue!Stronger(k)}
      BY <1>12, <1>13, <3>1
    <3>3. QED
      BY <2>1, <3>2
  <2>5. advised' = advised
    BY <1>0
  <2>6. Queue!Begin
    BY <2>2, <2>3, <2>4, <2>5 DEF Queue!Begin, Pend
  <2>7. QED
    BY <1>11, <2>6

\* The end of a walk: its list is empty, the next one keeps what it has.
LEMMA WalkDonePages ==
  ASSUME IInv, IInv', PageInv, NEW t \in Threads, WalkDone(t)
  PROVE  PageInv' /\ (UNCHANGED Queue!queue \/ Queue!End)
<1>0. pc[t] = "walk" /\ UNCHANGED <<node, mem, cur, todo>>
  BY DEF WalkDone, calls
<1>1. TypeOK /\ Stage(t) /\ Pointers(t)
  BY Types
<1>2. InExecution(t) /\ ~Inserts(t) /\ todo[t] = NoSpan
  BY <1>0, <1>1 DEF Stage, Inserts, Pointers
<1>k. PICK k \in Kinds : k = phase[t]
  BY <1>2, Types
<1>h. PICK h \in Kinds \cup {"none"} :
        h = CASE k = "write" -> "read" [] k = "read" -> "release" [] OTHER -> "none"
  BY DEF Kinds
<1>3. /\ spans' = [spans EXCEPT ![k] = {}] /\ done' = [done EXCEPT ![t] = {}]
      /\ phase' = [phase EXCEPT ![t] = h] /\ list' = [list EXCEPT ![t] = "write"]
      /\ advised' = IF k = "release" THEN [j \in Kinds |-> {}] ELSE advised
      /\ pc' = [pc EXCEPT ![t] = IF k = "release" THEN "idle" ELSE "walk"]
      /\ spans[k] \subseteq done[t]
  BY <1>k, <1>h DEF WalkDone, Goto
<1>4. Others(t)
  BY <1>0, <1>1, <1>3 DEF Others, TypeOK
<1>5. /\ pc'[t] = IF k = "release" THEN "idle" ELSE "walk"
      /\ phase'[t] = h /\ spans'[k] = {} /\ done'[t] = {} /\ todo'[t] = NoSpan
      /\ \A j \in Kinds \ {k} : spans'[j] = spans[j]
      /\ InExecution(t)' <=> k # "release"
  BY <1>0, <1>1, <1>2, <1>3, <1>h DEF TypeOK, InExecution, Kinds
<1>6. Paged /\ Paged' /\ Batches /\ Batches'
  BY IsPaged, IsBatches, FactsNext
<1>7. \A u \in Threads \ {t} : ~InExecution(u) /\ ~InExecution(u)'
  BY <1>2, <1>4, <1>6 DEF Paged, Others, InExecution
<1>8. \A j \in Kinds : \A x : x \in PagesIn(j) <=> \E s \in spans[j] : x \in SpanPages(s)
  BY <1>2, ExecPages, PagesOfSpans
<1>9. ASSUME NEW j \in Kinds, NEW x
      PROVE  x \in PagesIn(j)' <=> \E s \in spans'[j] : x \in SpanPages(s)
  <2>1. x \in PagesIn(j)' <=>
          \/ \E s \in spans'[j] : x \in SpanPages(s)
          \/ \E u \in Threads : InExecution(u)' /\ list'[u] = j /\ x \in SpanPages(todo'[u])
    BY <1>6 DEF Paged, SpanPages
  <2>2. QED
    BY <1>5, <1>7, <2>1, PagesOfSpans
<1>10. /\ \A x : x \notin PagesIn(k)'
       /\ \A j \in Kinds \ {k} : \A x : x \in PagesIn(j)' <=> x \in PagesIn(j)
  BY <1>5, <1>8, <1>9
<1>11. Walks(t)
  BY DEF PageInv
<1>12. \A x : x \in PagesIn(k) => x \in PagesOf(done[t])
  BY <1>3, <1>8, PagesOfSpans
<1>13. \A j \in Kinds : \A x : k \in Stronger(j) /\ x \in PagesIn(j) => x \notin PagesIn(k)
  BY <1>11, <1>12, <1>k DEF Walks
<1>14. PagesOf(done[t])' = {}
  BY <1>5 DEF PagesOf
<1>15. PageInv'
  <2>1. CASE k = "release"
    BY <1>2, <1>3, <1>4, <1>5, <2>1, InsideKeeps
  <2>2. CASE k # "release"
    <3>1. pc'[t] = "walk" /\ InExecution(t)'
      BY <1>5, <2>2
    <3>2. Cuts(t)' /\ ~Works(t)'
      BY <3>1 DEF Cuts, Works, Inserts
    <3>3. Walks(t)'
      BY <1>5, <1>14, <3>1, <3>2 DEF Walks
    <3>4. QED
      BY <1>2, <1>4, <3>1, <3>2, <3>3, InsideKeeps
  <2>3. QED
    BY <2>1, <2>2
<1>16. \A j \in Kinds : Taken(j) <=> j = k \/ k \in Stronger(j)
  BY <1>2, <1>6, <1>k DEF Batches
<1>17. \A j \in Kinds : Taken(j)' <=> Taken(j) /\ j # k
  <2>1. CASE k = "release"
    <3>1. \A j \in Kinds : ~Taken(j)'
      BY <1>5, <1>7, <2>1, <1>6 DEF Batches
    <3>2. QED
      BY <1>16, <2>1, <3>1 DEF Stronger, Kinds
  <2>2. CASE k # "release"
    <3>1. \A j \in Kinds : Taken(j)' <=> j = h \/ h \in Stronger(j)
      BY <1>5, <1>6, <2>2 DEF Batches
    <3>2. QED
      BY <1>16, <1>h, <2>2, <3>1 DEF Stronger, Kinds
  <2>3. QED
    BY <2>1, <2>2
<1>18. ASSUME NEW j \in Kinds PROVE Pend(j)' = Pend(j)
  <2>1. CASE j = k
    <3>1. PagesIn(k)' = {}
      BY <1>10
    <3>2. QED
      BY <1>16, <1>17, <2>1, <3>1 DEF Pend
  <2>2. CASE j # k
    <3>1. \A x : x \in PagesIn(j)' <=> x \in PagesIn(j)
      BY <1>10, <2>2
    <3>2. PagesIn(j)' = PagesIn(j)
      BY <3>1 DEF PagesIn, PagesOf
    <3>3. QED
      BY <1>17, <2>2, <3>2 DEF Pend
  <2>3. QED
    BY <2>1, <2>2
<1>19. \A j \in Kinds : \A x : x \in BatchOf(j) <=>
         \/ j = k /\ x \in PagesIn(j) /\ x \notin PagesOf(done[t])
         \/ /\ k \in Stronger(j) /\ x \in PagesIn(j)
            /\ \A s \in Stronger(j) : s = k \/ k \in Stronger(s) => x \notin PagesIn(s)
  BY <1>2, <1>6, <1>k DEF Batches
<1>20. \A x : x \notin BatchOf(k)
  BY <1>12, <1>19 DEF Stronger, Kinds
<1>21. CASE k = "release"
  <2>1. \A j \in Kinds : BatchOf(j) = {} /\ BatchOf(j)' = {}
    <3>1. \A j \in Kinds : \A x : x \notin BatchOf(j)
      BY <1>19, <1>20, <1>21 DEF Stronger
    <3>2. \A j \in Kinds : ~Taken(j)'
      BY <1>16, <1>17, <1>21 DEF Stronger, Kinds
    <3>3. \A j \in Kinds : BatchOf(j)' = {}
      BY <1>6, <3>2 DEF Batches
    <3>4. QED
      BY <3>1, <3>3
  <2>2. Queue!Kinds = Kinds /\ Queue!Nothing = [j \in Kinds |-> {}]
    BY DEF Queue!Kinds, Queue!Nothing, Kinds
  <2>3. [j \in Kinds |-> BatchOf(j)] = Queue!Nothing /\ [j \in Kinds |-> BatchOf(j)]' = Queue!Nothing
    BY <2>1, <2>2
  <2>4. [j \in Kinds |-> Pend(j)]' = [j \in Kinds |-> Pend(j)]
    BY <1>18
  <2>5. advised' = Queue!Nothing
    BY <1>3, <1>21, <2>2
  <2>6. Queue!End
    BY <2>3, <2>4, <2>5 DEF Queue!End, Pend
  <2>7. QED
    BY <1>15, <2>6
<1>22. CASE k # "release"
  <2>1. \A j \in Kinds : \A x : x \in BatchOf(j)' <=>
          \/ j = h /\ x \in PagesIn(j)'
          \/ /\ h \in Stronger(j) /\ x \in PagesIn(j)'
             /\ \A s \in Stronger(j) : s = h \/ h \in Stronger(s) => x \notin PagesIn(s)'
    BY <1>5, <1>6, <1>14, <1>22 DEF Batches
  <2>2. ASSUME NEW j \in Kinds, NEW x PROVE x \in BatchOf(j)' <=> x \in BatchOf(j)
    <3>1. CASE j = k
      <4>1. BatchOf(k)' = {}
        BY <1>6, <1>17 DEF Batches
      <4>2. QED
        BY <1>20, <3>1, <4>1
    <3>2. CASE j = h /\ j # k
      <4>1. k \in Stronger(j) /\ \A s \in Stronger(j) : s = k \/ k \in Stronger(s) => s = k
        BY <1>h, <1>22, <3>2 DEF Stronger, Kinds
      <4>2. x \in BatchOf(j)' <=> x \in PagesIn(j)
        BY <1>10, <2>1, <3>2
      <4>3. x \in BatchOf(j) <=> x \in PagesIn(j)
        BY <1>13, <1>19, <3>2, <4>1
      <4>4. QED
        BY <4>2, <4>3
    <3>3. CASE k = "write" /\ j = "release"
      <4>1. h = "read" /\ Stronger(j) = {"write", "read"} /\ "write" \notin Stronger("write")
            /\ "write" \in Stronger("read") /\ "read" \notin Stronger("write")
        BY <1>h, <3>3 DEF Stronger
      <4>2. x \in BatchOf(j)' <=> x \in PagesIn(j) /\ x \notin PagesIn("read")
        BY <1>10, <2>1, <3>3, <4>1 DEF Kinds
      <4>3. x \in BatchOf(j) <=> x \in PagesIn(j) /\ x \notin PagesIn("write") /\ x \notin PagesIn("read")
        BY <1>19, <3>3, <4>1
      <4>4. QED
        BY <1>13, <3>3, <4>1, <4>2, <4>3
    <3>4. CASE k = "read" /\ j = "write"
      <4>1. ~Taken(j) /\ ~Taken(j)'
        BY <1>16, <1>17, <3>4 DEF Stronger
      <4>2. QED
        BY <1>6, <4>1 DEF Batches
    <3>5. QED
      BY <1>22, <1>h, <3>1, <3>2, <3>3, <3>4 DEF Kinds
  <2>3. ASSUME NEW j \in Kinds PROVE BatchOf(j)' = BatchOf(j)
    <3>1. PICK S : S = BatchOf(j)
      OBVIOUS
    <3>2. QED
      BY <2>2, <3>1, BatchNext
  <2>4. advised' = advised
    BY <1>3, <1>22
  <2>5. QED
    BY <1>15, <1>18, <2>3, <2>4, QueueVars
<1>23. QED
  BY <1>21, <1>22

-----------------------------------------------------------------------------
(* The refinement                                                          *)

LEMMA InitPages == Init => PageInv /\ Queue!Init
<1> SUFFICES ASSUME Init PROVE PageInv /\ Queue!Init
  OBVIOUS
<1>0. IInv
  BY InitIInv
<1>1. \A t \in Threads : ~InExecution(t) /\ done[t] = {} /\ phase[t] = "none"
  BY DEF Init, InExecution
<1>2. advised = [k \in Kinds |-> {}] /\ \A k \in Kinds : spans[k] = {}
  BY DEF Init
<1>3. PageInv
  BY <1>1, <1>2, NoneStronger DEF PageInv, Advises, Cuts, Walks
<1>4. \A k \in Kinds : ~Taken(k) /\ BatchOf(k) = {}
  BY <1>0, <1>1, IsBatches DEF Batches
<1>5. \A k \in Kinds : PagesIn(k) = {}
  <2>1. \A k \in Kinds : \A x : x \notin PagesIn(k)
    BY <1>0, <1>1, <1>2, IsPaged DEF Paged
  <2>2. QED
    BY <2>1
<1>6. Queue!Kinds = Kinds /\ Queue!Nothing = [k \in Kinds |-> {}]
  BY DEF Queue!Kinds, Queue!Nothing, Kinds
<1>7. [k \in Kinds |-> Pend(k)] = Queue!Nothing /\ [k \in Kinds |-> BatchOf(k)] = Queue!Nothing
  BY <1>4, <1>5, <1>6 DEF Pend
<1>8. QED
  BY <1>2, <1>3, <1>6, <1>7 DEF Queue!Init, Pend

LEMMA NextPages == IInv /\ IInv' /\ PageInv /\ [Next]_vars => PageInv' /\ [Queue!Next]_(Queue!queue)
<1> SUFFICES ASSUME IInv, IInv', PageInv, [Next]_vars
             PROVE  PageInv' /\ [Queue!Next]_(Queue!queue)
  OBVIOUS
<1>1. ASSUME UNCHANGED vars PROVE PageInv' /\ UNCHANGED Queue!queue
  <2>1. PageInv'
    BY <1>1 DEF vars, locals, calls, PageInv, Advises, Cuts, Walks, InExecution, Inserts, Works,
       PagesIn, PagesOf
  <2>2. \A k \in Kinds : PagesIn(k)' = PagesIn(k) /\ (Taken(k)' <=> Taken(k))
    BY <1>1 DEF vars, locals, calls, PagesIn, PagesOf, Taken
  <2>3. \A k \in Kinds : Pend(k)' = Pend(k)
    BY <2>2 DEF Pend
  <2>4. \A k \in Kinds : BatchOf(k)' = BatchOf(k)
    BY <1>1 DEF vars, locals, calls, BatchOf, PagesIn, PagesOf, Taken
  <2>5. advised' = advised
    BY <1>1 DEF vars
  <2>6. QED
    BY <2>1, <2>3, <2>4, <2>5, QueueVars
<1>2. ASSUME NEW t \in Threads, OutsideStep(t)
      PROVE  PageInv' /\ (UNCHANGED Queue!queue \/ Queue!Request \/ Queue!Drop)
  <2>1. PageInv'
    BY <1>2, OutsideSteps, OutsideKeeps
  <2>2. QED
    BY <1>2, <2>1, InsertQueue, ClearQueue, OutsideStutter
<1>3. ASSUME NEW t \in Threads, Request(t) \/ Execute(t) \/ Step(t)
      PROVE  PageInv' /\ (UNCHANGED Queue!queue \/ Queue!Next)
  <2>1. CASE OutsideStep(t)
    BY <1>2, <2>1 DEF Queue!Next
  <2>2. CASE InExecution(t) /\ (MergePrev(t) \/ MergeNext(t) \/ MergeDone(t))
    BY <2>2, ExecInsertPages
  <2>3. CASE SplitDone(t)
    <3>1. InExecution(t)
      BY <2>3 DEF SplitDone, InExecution
    <3>2. QED
      BY <2>3, <3>1, ExecInsertPages
  <2>4. CASE InsertUpper(t)
    BY <2>4, InsertUpperPages
  <2>5. CASE RemovePrev(t)
    BY <2>5, RemovePrevPages
  <2>6. CASE DeleteNext(t)
    BY <2>6, DeleteNextPages
  <2>7. CASE ShortenNext(t)
    BY <2>7, ShortenNextPages
  <2>8. CASE RemoveDone(t)
    BY <2>8, RemoveDonePages
  <2>9. CASE NextSpan(t)
    BY <2>9, NextSpanPages
  <2>10. CASE Advise(t)
    BY <2>10, AdvisePages DEF Queue!Next
  <2>11. CASE LockLast(t)
    BY <2>11, LockLastPages DEF Queue!Next
  <2>12. CASE WalkDone(t)
    BY <2>12, WalkDonePages DEF Queue!Next
  <2>13. Request(t) \/ Execute(t) \/ InsertNode(t) \/ Inserted(t) \/ ClearForeign(t) \/ LockNext(t)
           => ~InExecution(t)
    BY Types DEF Stage, Request, Execute, InsertNode, Inserted, ClearForeign, LockNext, InExecution
  <2>14. QED
    BY <1>3, <2>1, <2>2, <2>3, <2>4, <2>5, <2>6, <2>7, <2>8, <2>9, <2>10, <2>11, <2>12, <2>13
       DEF Step, OutsideStep
<1>4. QED
  BY <1>1, <1>3 DEF Next, Finished

\* A removal, when it is done, has taken all pages of the span of the walk out
\* of the lists of weaker accesses.
THEOREM PagesInvariant == Spec => []PageInv
<1>1. QED
  BY InitPages, NextPages, InvariantHolds, PTL DEF Spec

\* The lists implement sets of pages: an execution advises everything that was
\* requested before it, each page once and for the strongest access.
THEOREM Refinement == Spec => ImplementsQueue
<1>1. QED
  BY InitPages, NextPages, InvariantHolds, PagesInvariant, PTL DEF Spec, ImplementsQueue, Queue!Spec
=============================================================================
