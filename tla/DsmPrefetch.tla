---------------------------- MODULE DsmPrefetch ----------------------------
(***************************************************************************)
(* lib/dsm-prefetch for one node: the three lists of spans requested for   *)
(* writing, reading and release (list.c), each with a recursive lock, and  *)
(* the execution of the requests (dsm-prefetch.c), which walks the lists   *)
(* of writes and of reads and cuts every span it advises the kernel of out *)
(* of the lists of weaker accesses.                                        *)
(*                                                                         *)
(* A linked list is the set of its spans: its order is that of their lower *)
(* bounds, and the node before or after another one is found by it.  Bounds *)
(* are page numbers (popcorn_prefetch_node rounds them), the upper one is  *)
(* excluded.  Two nodes with the same span, which exist while the second   *)
(* one is merged, are one element.  Node memory (the cache of nodes) and   *)
(* statistics are left out, and so is the thread of the asynchronous       *)
(* variant, an executor like the others.                                   *)
(***************************************************************************)
EXTENDS Integers, FiniteSets

CONSTANTS
  Threads,      \* threads that request and execute
  MaxPage,      \* bound: pages are 0 .. MaxPage - 1
  MaxRequests,  \* bound: requests in total
  MaxExecutes,  \* bound: calls of popcorn_prefetch_execute_node in total
  None          \* no thread

ASSUME PrefetchAssumption ==
  /\ None \notin Threads
  /\ MaxPage \in Nat /\ MaxRequests \in Nat /\ MaxExecutes \in Nat

Kinds == {"write", "read", "release"}
\* The lists that an execution walks before list k.
Stronger(k) == CASE k = "write" -> {} [] k = "read" -> {"write"} [] OTHER -> {"write", "read"}
Spans == {s \in [low : 0 .. MaxPage, high : 0 .. MaxPage] : s.low < s.high}
NoSpan == [low |-> 0, high |-> 0]
PagesOf(S) == UNION {s.low .. s.high - 1 : s \in S}
Span(low, high) == [low |-> low, high |-> high]

VARIABLES
  spans,     \* requests[nid].write, read, release
  owner,     \* who holds the lock of each list
  pc,        \* what a thread does next
  list,      \* the list the thread inserts into, removes from, locks or clears
  node,      \* local `n` of list_insert
  phase,     \* the list an execution walks, "none" when it holds no locks
  mem,       \* local `span`: the span of the walk
  done,      \* spans of the walk before it
  cur,       \* local `cur` of list_remove
  todo,      \* list_remove: the upper part of a span that was split
  advised,   \* pages advised by the current execution
  requests, executes   \* bounds: calls so far

locals == <<list, node, phase, mem, done, cur, todo>>
calls == <<requests, executes>>
vars == <<spans, owner, pc, locals, advised, calls>>

Init ==
  /\ spans = [k \in Kinds |-> {}]
  /\ owner = [k \in Kinds |-> None]
  /\ pc = [t \in Threads |-> "idle"]
  /\ list = [t \in Threads |-> "write"]
  /\ node = [t \in Threads |-> NoSpan] /\ mem = [t \in Threads |-> NoSpan]
  /\ cur = [t \in Threads |-> NoSpan] /\ todo = [t \in Threads |-> NoSpan]
  /\ phase = [t \in Threads |-> "none"]
  /\ done = [t \in Threads |-> {}]
  /\ advised = [k \in Kinds |-> {}]
  /\ requests = 0 /\ executes = 0

Goto(t, label) == pc' = [pc EXCEPT ![t] = label]

\* p is the node before a span that begins at low; s is the node list_seek
\* finds for it.
IsPrev(p, S, low) ==
  p \in S /\ p.low < low /\ \A s \in S : s.low < low => s.low <= p.low
IsSeek(s, S, low) ==
  s \in S /\ s.low >= low /\ \A u \in S : u.low >= low => u.low >= s.low

\* list_check_merge and list_check_overlap; a begins before b.
CheckMerge(a, b)   == a.low = b.low \/ a.high >= b.low
CheckOverlap(a, b) == a.low = b.low \/ a.high > b.low

-----------------------------------------------------------------------------
(* popcorn_prefetch_node and list_insert                                   *)

Request(t) ==
  /\ pc[t] = "idle" /\ requests < MaxRequests
  /\ requests' = requests + 1
  /\ \E k \in Kinds, m \in Spans :
       /\ list' = [list EXCEPT ![t] = k]
       /\ node' = [node EXCEPT ![t] = m]
  /\ Goto(t, "insert")
  /\ UNCHANGED <<spans, owner, phase, mem, done, cur, todo, advised, executes>>

\* Take the lock and link the new node in.
InsertNode(t) ==
  LET k == list[t]
  IN  /\ pc[t] = "insert" /\ owner[k] = None
      /\ owner' = [owner EXCEPT ![k] = t]
      /\ spans' = [spans EXCEPT ![k] = @ \cup {node[t]}]
      /\ Goto(t, "mergePrev")
      /\ UNCHANGED <<locals, advised, calls>>

\* list_merge: b into a.
Merge(t, a, b) ==
  LET ab == Span(a.low, IF a.high > b.high THEN a.high ELSE b.high)
  IN  /\ spans' = [spans EXCEPT ![list[t]] = (@ \ {a, b}) \cup {ab}]
      /\ node' = [node EXCEPT ![t] = ab]

\* With the predecessor, at most once.
MergePrev(t) ==
  LET S == spans[list[t]]
      n == node[t]
  IN  /\ pc[t] = "mergePrev"
      /\ IF \E p \in S : IsPrev(p, S, n.low) /\ CheckMerge(p, n)
         THEN \E p \in S : IsPrev(p, S, n.low) /\ Merge(t, p, n)
         ELSE UNCHANGED <<spans, node>>
      /\ Goto(t, "mergeNext")
      /\ UNCHANGED <<owner, list, phase, mem, done, cur, todo, advised, calls>>

\* Mutant of MergeNext: with one successor only.
MergeNextOnce(t) ==
  LET S == spans[list[t]]
      n == node[t]
  IN  /\ pc[t] = "mergeNext"
      /\ \E s \in S \ {n} :
           IsSeek(s, S \ {n}, n.low) /\ CheckMerge(n, s) /\ Merge(t, n, s)
      /\ Goto(t, "inserted")
      /\ UNCHANGED <<owner, list, phase, mem, done, cur, todo, advised, calls>>

\* With successors, as long as there is one to merge.
MergeNext(t) ==
  LET S == spans[list[t]]
      n == node[t]
  IN  /\ pc[t] = "mergeNext"
      /\ \E s \in S \ {n} :
           IsSeek(s, S \ {n}, n.low) /\ CheckMerge(n, s) /\ Merge(t, n, s)
      /\ UNCHANGED <<owner, pc, list, phase, mem, done, cur, todo, advised, calls>>

MergeDone(t) ==
  LET S == spans[list[t]]
      n == node[t]
  IN  /\ pc[t] = "mergeNext"
      /\ \A s \in S \ {n} : IsSeek(s, S \ {n}, n.low) => ~CheckMerge(n, s)
      /\ Goto(t, "inserted")
      /\ UNCHANGED <<spans, owner, locals, advised, calls>>

\* The return of list_insert: to the program, or to list_remove, which
\* inserts the upper part of the span it split.
Inserted(t) ==
  /\ pc[t] = "inserted" /\ phase[t] = "none"
  /\ owner' = [owner EXCEPT ![list[t]] = None]
  /\ node' = [node EXCEPT ![t] = NoSpan]
  /\ list' = [list EXCEPT ![t] = "write"]
  /\ Goto(t, "idle")
  /\ UNCHANGED <<spans, phase, mem, done, cur, todo, advised, calls>>

InsertUpper(t) ==
  /\ pc[t] = "inserted" /\ phase[t] # "none" /\ todo[t] # NoSpan
  /\ spans' = [spans EXCEPT ![list[t]] = @ \cup {todo[t]}]
  /\ node' = [node EXCEPT ![t] = todo[t]]
  /\ todo' = [todo EXCEPT ![t] = NoSpan]
  /\ Goto(t, "mergePrev")
  /\ UNCHANGED <<owner, list, phase, mem, done, cur, advised, calls>>

SplitDone(t) ==
  /\ pc[t] = "inserted" /\ phase[t] # "none" /\ todo[t] = NoSpan
  /\ node' = [node EXCEPT ![t] = NoSpan]
  /\ Goto(t, "removeNext")
  /\ UNCHANGED <<spans, owner, list, phase, mem, done, cur, todo, advised, calls>>

-----------------------------------------------------------------------------
(* list_remove, called with the lock held                                  *)

Replace(t, S, old, new) == spans' = [spans EXCEPT ![list[t]] = (S \ {old}) \cup new]

\* Mutant of Cut: a predecessor that reaches beyond mem is not split.
CutTail(t, S, p, m) ==
  /\ Replace(t, S, p, {Span(p.low, m.low)})
  /\ Goto(t, "removeNext")
  /\ UNCHANGED <<node, todo>>

\* Shorten the predecessor p; or delete it and insert what it has on both
\* sides of m.
Cut(t, S, p, m) ==
  \/ /\ p.high <= m.high
     /\ Replace(t, S, p, {Span(p.low, m.low)})
     /\ Goto(t, "removeNext")
     /\ UNCHANGED <<node, todo>>
  \/ /\ p.high > m.high
     /\ Replace(t, S, p, {Span(p.low, m.low)})
     /\ node' = [node EXCEPT ![t] = Span(p.low, m.low)]
     /\ todo' = [todo EXCEPT ![t] = Span(m.high, p.high)]
     /\ Goto(t, "mergePrev")

RemovePrev(t) ==
  LET S == spans[list[t]]
      m == mem[t]
  IN  /\ pc[t] = "removePrev"
      /\ \/ (\A s \in S : s.low < m.low) /\ cur' = [cur EXCEPT ![t] = NoSpan]
         \/ \E s \in S : IsSeek(s, S, m.low) /\ cur' = [cur EXCEPT ![t] = s]
      /\ IF \E p \in S : IsPrev(p, S, m.low) /\ CheckOverlap(p, m)
         THEN \E p \in S : IsPrev(p, S, m.low) /\ Cut(t, S, p, m)
         ELSE Goto(t, "removeNext") /\ UNCHANGED <<spans, node, todo>>
      /\ UNCHANGED <<owner, list, phase, mem, done, advised, calls>>

\* Mutant of DeleteNext: goes on with the node it deleted.
DeleteNextStale(t) ==
  LET S == spans[list[t]]
  IN  /\ pc[t] = "removeNext"
      /\ cur[t] # NoSpan /\ CheckOverlap(mem[t], cur[t]) /\ mem[t].high >= cur[t].high
      /\ Replace(t, S, cur[t], {})
      /\ UNCHANGED <<owner, pc, locals, advised, calls>>

\* A successor inside mem is deleted; list_delete returns the next one.
DeleteNext(t) ==
  LET S == spans[list[t]]
      c == cur[t]
  IN  /\ pc[t] = "removeNext"
      /\ c # NoSpan /\ CheckOverlap(mem[t], c) /\ mem[t].high >= c.high
      /\ Replace(t, S, c, {})
      /\ \/ (\A s \in S : s.low <= c.low) /\ cur' = [cur EXCEPT ![t] = NoSpan]
         \/ \E s \in S : IsSeek(s, S, c.low + 1) /\ cur' = [cur EXCEPT ![t] = s]
      /\ UNCHANGED <<owner, pc, list, node, phase, mem, done, todo, advised, calls>>

\* One that reaches beyond mem is shortened.
ShortenNext(t) ==
  LET S == spans[list[t]]
      c == cur[t]
      rest == Span(mem[t].high, c.high)
  IN  /\ pc[t] = "removeNext"
      /\ c # NoSpan /\ CheckOverlap(mem[t], c) /\ mem[t].high < c.high
      /\ Replace(t, S, c, {rest})
      /\ cur' = [cur EXCEPT ![t] = rest]
      /\ UNCHANGED <<owner, pc, list, node, phase, mem, done, todo, advised, calls>>

\* The removal is done; a write is removed from the reads, then the releases.
RemoveDone(t) ==
  /\ pc[t] = "removeNext"
  /\ cur[t] = NoSpan \/ ~CheckOverlap(mem[t], cur[t])
  /\ IF list[t] = "read" THEN /\ list' = [list EXCEPT ![t] = "release"]
                              /\ Goto(t, "removePrev")
                         ELSE Goto(t, "advise") /\ UNCHANGED list
  /\ cur' = [cur EXCEPT ![t] = NoSpan]
  /\ UNCHANGED <<spans, owner, node, phase, mem, done, todo, advised, calls>>

-----------------------------------------------------------------------------
(* popcorn_prefetch_execute_internal                                       *)

\* Threads migrate: the caller runs on the node, or does not.
Execute(t) ==
  /\ pc[t] = "idle" /\ executes < MaxExecutes
  /\ executes' = executes + 1
  /\ \/ list' = [list EXCEPT ![t] = "release"] /\ Goto(t, "lock")
     \/ list' = [list EXCEPT ![t] = "write"] /\ Goto(t, "clear")
  /\ UNCHANGED <<spans, owner, node, phase, mem, done, cur, todo, advised, requests>>

\* Not on the node: list_clear of each list, under its own lock.
ClearForeign(t) ==
  LET k == list[t]
  IN  /\ pc[t] = "clear" /\ owner[k] = None
      /\ spans' = [spans EXCEPT ![k] = {}]
      /\ \/ k = "write"   /\ list' = [list EXCEPT ![t] = "read"]    /\ UNCHANGED pc
         \/ k = "read"    /\ list' = [list EXCEPT ![t] = "release"] /\ UNCHANGED pc
         \/ k = "release" /\ list' = [list EXCEPT ![t] = "write"] /\ Goto(t, "idle")
      /\ UNCHANGED <<owner, node, phase, mem, done, cur, todo, advised, calls>>

\* list_atomic_start of release, read and write, in this order.
LockNext(t) ==
  LET k == list[t]
  IN  /\ pc[t] = "lock" /\ k # "write" /\ owner[k] = None
      /\ owner' = [owner EXCEPT ![k] = t]
      /\ list' = [list EXCEPT ![t] = IF k = "release" THEN "read" ELSE "write"]
      /\ UNCHANGED <<spans, pc, node, phase, mem, done, cur, todo, advised, calls>>

LockLast(t) ==
  /\ pc[t] = "lock" /\ list[t] = "write" /\ owner["write"] = None
  /\ owner' = [owner EXCEPT !["write"] = t]
  /\ phase' = [phase EXCEPT ![t] = "write"]
  /\ Goto(t, "walk")
  /\ UNCHANGED <<spans, list, node, mem, done, cur, todo, advised, calls>>

\* list_begin and list_next: the first span after those that are done.
NextSpan(t) ==
  LET left == spans[phase[t]] \ done[t]
  IN  /\ pc[t] = "walk"
      /\ \E s \in left : IsSeek(s, left, 0) /\ mem' = [mem EXCEPT ![t] = s]
      /\ \/ /\ phase[t] = "release"
            /\ Goto(t, "advise") /\ UNCHANGED list
         \/ /\ phase[t] # "release"
            /\ list' = [list EXCEPT ![t] = IF phase[t] = "write" THEN "read" ELSE "release"]
            /\ Goto(t, "removePrev")
      /\ UNCHANGED <<spans, owner, node, phase, done, cur, todo, advised, calls>>

\* Mutant of Advise: does not go on to the next span.
AdviseAgain(t) ==
  /\ pc[t] = "advise"
  /\ advised' = [advised EXCEPT ![phase[t]] = @ \cup PagesOf({mem[t]})]
  /\ mem' = [mem EXCEPT ![t] = NoSpan]
  /\ Goto(t, "walk")
  /\ UNCHANGED <<spans, owner, list, node, phase, done, cur, todo, calls>>

\* prefetch_span.
Advise(t) ==
  /\ pc[t] = "advise"
  /\ advised' = [advised EXCEPT ![phase[t]] = @ \cup PagesOf({mem[t]})]
  /\ done' = [done EXCEPT ![t] = @ \cup {mem[t]}]
  /\ mem' = [mem EXCEPT ![t] = NoSpan]
  /\ Goto(t, "walk")
  /\ UNCHANGED <<spans, owner, list, node, phase, cur, todo, calls>>

\* list_clear and list_atomic_end of the list of the walk.
WalkDone(t) ==
  LET k == phase[t]
  IN  /\ pc[t] = "walk" /\ spans[k] \ done[t] = {}
      /\ spans' = [spans EXCEPT ![k] = {}]
      /\ owner' = [owner EXCEPT ![k] = None]
      /\ done' = [done EXCEPT ![t] = {}]
      /\ phase' = [phase EXCEPT ![t] = CASE k = "write" -> "read" [] k = "read" -> "release"
                                         [] OTHER -> "none"]
      /\ list' = [list EXCEPT ![t] = "write"]
      /\ advised' = IF k = "release" THEN [j \in Kinds |-> {}] ELSE advised
      /\ Goto(t, IF k = "release" THEN "idle" ELSE "walk")
      /\ UNCHANGED <<node, mem, cur, todo, calls>>

-----------------------------------------------------------------------------
\* The steps of a call that has begun.
Step(t) ==
  \/ InsertNode(t) \/ MergePrev(t) \/ MergeNext(t) \/ MergeDone(t)
  \/ Inserted(t) \/ InsertUpper(t) \/ SplitDone(t)
  \/ RemovePrev(t) \/ DeleteNext(t) \/ ShortenNext(t) \/ RemoveDone(t)
  \/ ClearForeign(t) \/ LockNext(t) \/ LockLast(t)
  \/ NextSpan(t) \/ Advise(t) \/ WalkDone(t)

Finished ==
  /\ \A t \in Threads : pc[t] = "idle"
  /\ requests = MaxRequests /\ executes = MaxExecutes
  /\ UNCHANGED vars

Next == Finished \/ \E t \in Threads : Request(t) \/ Execute(t) \/ Step(t)

Spec == Init /\ [][Next]_vars

\* A thread that is inside a call is scheduled; nobody has to call.
FairSpec == Spec /\ \A t \in Threads : WF_vars(Step(t))

-----------------------------------------------------------------------------
(* Properties                                                              *)

PCs == {"idle", "insert", "mergePrev", "mergeNext", "inserted", "removePrev", "removeNext", "lock",
        "clear", "walk", "advise"}

\* Spans are never empty or inverted.
TypeOK ==
  /\ spans \in [Kinds -> SUBSET Spans]
  /\ owner \in [Kinds -> Threads \cup {None}]
  /\ pc \in [Threads -> PCs]
  /\ list \in [Threads -> Kinds]
  /\ node \in [Threads -> Spans \cup {NoSpan}]
  /\ phase \in [Threads -> Kinds \cup {"none"}]
  /\ mem \in [Threads -> Spans \cup {NoSpan}]
  /\ done \in [Threads -> SUBSET Spans]
  /\ cur \in [Threads -> Spans \cup {NoSpan}]
  /\ todo \in [Threads -> Spans \cup {NoSpan}]
  /\ advised \in [Kinds -> SUBSET (0 .. MaxPage - 1)]
  /\ requests \in Nat /\ executes \in Nat

Apart(a, b) == a.high < b.low \/ b.high < a.low

\* The node being merged into list k, if any.
Merging(k) ==
  {node[t] : t \in {u \in Threads : list[u] = k /\ pc[u] \in {"mergePrev", "mergeNext"}}}

\* list_insert leaves neither overlapping nor adjacent spans in a list, and
\* list_remove does not either: apart from a node that is being merged, all
\* spans of a list are apart.
ListsApart ==
  \A k \in Kinds : \A a, b \in spans[k] \ Merging(k) : a = b \/ Apart(a, b)

\* Nobody follows a pointer to a node that was freed: the node a merge goes
\* on with, the node a removal goes on with, also after it has inserted the
\* parts of a split span, and the node of a walk, also after removals.
PointersAlive ==
  \A t \in Threads :
    /\ pc[t] \in {"mergePrev", "mergeNext"} => node[t] \in spans[list[t]]
    /\ cur[t] # NoSpan => cur[t] \in spans[list[t]]
    /\ pc[t] \in {"removePrev", "removeNext", "advise"} => mem[t] \in spans[phase[t]]

\* The lists that belong to an execution: it holds their locks.
Taken(k) == owner[k] # None /\ phase[owner[k]] # "none"

\* The pages of list k; while a span is split, its upper part is not in the
\* list.
PagesIn(k) == PagesOf(spans[k] \cup {todo[t] : t \in {u \in Threads : list[u] = k}})

\* What is left of list k to advise: nothing that it has lost, or is going to
\* lose, to the walks of the stronger lists, and not what is done.
BatchOf(k) ==
  IF ~Taken(k) THEN {}
  ELSE PagesIn(k) \ ((UNION {PagesIn(s) : s \in {u \in Stronger(k) : Taken(u)}})
                       \cup (IF phase[owner[k]] = k THEN PagesOf(done[owner[k]]) ELSE {}))

\* The lists implement sets of pages: an execution advises everything that
\* was requested before it, each page once and for the strongest access, and
\* requests made meanwhile wait for the next one.
Queue == INSTANCE PrefetchQueue WITH
  Pages   <- 0 .. MaxPage - 1,
  pending <- [k \in Kinds |-> IF Taken(k) THEN {} ELSE PagesIn(k)],
  batch   <- [k \in Kinds |-> BatchOf(k)]

ImplementsQueue == Queue!Spec

\* Every call returns: locks are taken in one order, walks and removals end.
EveryoneReturns == \A t \in Threads : pc[t] # "idle" ~> pc[t] = "idle"
=============================================================================
