--------------------------- MODULE PopcornMalloc ---------------------------
(***************************************************************************)
(* The heap with an arena for each node (musl's malloc/popcorn_malloc.c    *)
(* and expand_heap.c): chunks with a header (csize) and a footer, which is *)
(* the psize of the next chunk, bins of free chunks with a lock each, the  *)
(* lock that serializes the change of chunks from used to free, and the    *)
(* lock under which the first caller maps the arena.                       *)
(*                                                                         *)
(* Sizes and offsets are in units of SIZE_ALIGN.  A header exists only at  *)
(* the boundary of a chunk; one that ends up inside another chunk is       *)
(* forgotten, so that reading it would be an error.  What is written under *)
(* a lock and released in the same operation is one step where no other    *)
(* lock is waited for in between; the reads the code does without a lock   *)
(* are steps of their own.  The contents of blocks are left out, and so is *)
(* giving pages in the middle of a free chunk back (RECLAIM).              *)
(***************************************************************************)
EXTENDS Integers, Sequences, FiniteSets, SequencesExt

CONSTANTS
  Threads,     \* callers
  Nodes,       \* nodes that have an arena
  NoNode,      \* a node number out of range
  ArenaUnits,  \* ARENA_SIZE
  Requests,    \* bytes asked for
  MaxCalls,    \* bound: calls by the program in total
  OtherBlocks, \* bound: blocks at a time of each other heap
  None         \* no block

SizeAlign == 32
Overhead == 16
PageUnits == 4096 \div SizeAlign
MmapThreshold == 7168      \* 0x1c00
Bins == 0 .. 63

ASSUME HeapAssumption ==
  \* an arena has room for every request that is not mapped on its own
  /\ ArenaUnits \in Nat /\ ArenaUnits > MmapThreshold
  /\ MaxCalls \in Nat /\ OtherBlocks \in Nat
  /\ Requests \subseteq Nat
  /\ {NoNode, "mmap", "global"} \cap Nodes = {}
  /\ None \notin [heap : Nodes \cup {"mmap", "global"}, at : Nat, size : Nat]

VARIABLES
  mapped, initialized,  \* per node: the arena is mapped; mal[n].initialized
  binmap,               \* mal[n].binmap, the set of its bits
  bins,                 \* mal[n].bins: chunks from head to tail
  csize, psize,         \* per node: words at the chunk that begins at an offset
  owner,                \* the thread that holds a lock, for locks that are held
  live,                 \* blocks the program uses
  pc, loc,              \* what a thread does next and its locals
  calls                 \* bound: calls so far

tags == <<csize, psize>>
lists == <<binmap, bins>>
arenas == <<mapped, initialized>>
vars == <<arenas, lists, tags, owner, live, pc, loc, calls>>

Word(size, inuse) == [size |-> size, inuse |-> inuse]
Block(heap, at, size) == [heap |-> heap, at |-> at, size |-> size]

Idle == [want |-> 0, node |-> NoNode, self |-> 0, next |-> 0, size |-> 0, k |-> 0,
         init |-> FALSE, then |-> "idle", old |-> None, res |-> None]

Init ==
  /\ mapped = [n \in Nodes |-> FALSE] /\ initialized = [n \in Nodes |-> FALSE]
  /\ binmap = [n \in Nodes |-> {}]
  /\ bins = [n \in Nodes |-> [i \in Bins |-> <<>>]]
  /\ csize = [n \in Nodes |-> <<>>] /\ psize = [n \in Nodes |-> <<>>]
  /\ owner = <<>>
  /\ live = {}
  /\ pc = [t \in Threads |-> "idle"]
  /\ loc = [t \in Threads |-> Idle]
  /\ calls = 0

-----------------------------------------------------------------------------
(* Sizes, bins and locks                                                   *)

\* adjust_size: bytes to units, with room for the header.
AdjustSize(bytes) == IF bytes = 0 THEN 1 ELSE (bytes + Overhead + SizeAlign - 1) \div SizeAlign

BinTab == <<32, 33, 34, 35, 36, 36, 37, 37, 38, 38, 39, 39,
            40, 40, 40, 40, 41, 41, 41, 41, 42, 42, 42, 42, 43, 43, 43, 43,
            44, 44, 44, 44, 44, 44, 44, 44, 45, 45, 45, 45, 45, 45, 45, 45,
            46, 46, 46, 46, 46, 46, 46, 46, 47, 47, 47, 47, 47, 47, 47, 47>>

BinIndex(size) ==
  LET x == size - 1
  IN  IF x <= 32 THEN x
      ELSE IF x < 512 THEN BinTab[x \div 8 - 3]
      ELSE IF x > 7168 THEN 63
      ELSE BinTab[x \div 128 - 3] + 16

\* The first bin all of whose chunks are large enough.
BinIndexUp(size) ==
  LET x == size - 2
  IN  IF x < 32 THEN x + 1
      ELSE IF x < 512 THEN BinTab[x \div 8 - 3] + 1
      ELSE BinTab[x \div 128 - 3] + 17

BinLock(n, i) == <<"bin", n, i>>
FreeLock(n) == <<"free", n, 0>>
InitLock(n) == <<"init", n, 0>>

Unlocked(l) == l \notin DOMAIN owner
Lock(t, l) ==
  /\ Unlocked(l)
  /\ owner' = [m \in DOMAIN owner \cup {l} |-> IF m = l THEN t ELSE owner[m]]
Unlock(L) == owner' = [l \in DOMAIN owner \ L |-> owner[l]]

Goto(t, label) == pc' = [pc EXCEPT ![t] = label]
Become(t, r) == loc' = [loc EXCEPT ![t] = r]

\* The call, or the part of it that ends here, is over.
Resume(t) ==
  /\ Goto(t, loc[t].then)
  /\ Become(t, IF loc[t].then = "idle" THEN Idle ELSE loc[t])

Return(t) == Goto(t, "idle") /\ Become(t, Idle)

\* The words of node n where the chunk [at, at + size) begins and ends get the
\* given mark; headers inside it are gone.
Outside(n, at, size) == {o \in DOMAIN csize[n] : o <= at \/ o >= at + size}

Label(n, at, size, inuse) ==
  /\ csize' = [csize EXCEPT ![n] =
       [o \in Outside(n, at, size) |-> IF o = at THEN Word(size, inuse) ELSE csize[n][o]]]
  /\ psize' = [psize EXCEPT ![n] =
       [o \in Outside(n, at, size) |-> IF o = at + size THEN Word(size, inuse) ELSE psize[n][o]]]

\* Divide the chunk at `at' into one of size want and one that has the rest.
Split(n, at, want, inuse) ==
  LET size == csize[n][at].size
      rest == at + want
      marks == DOMAIN csize[n] \cup {rest}
  IN  /\ csize' = [csize EXCEPT ![n] =
           [o \in marks |-> CASE o = at   -> Word(want, TRUE)
                              [] o = rest -> Word(size - want, inuse)
                              [] OTHER    -> csize[n][o]]]
      /\ psize' = [psize EXCEPT ![n] =
           [o \in marks |-> CASE o = rest      -> Word(want, TRUE)
                              [] o = at + size -> Word(size - want, inuse)
                              [] OTHER         -> psize[n][o]]]

\* unbin, with the lock of bin i.
Unbin(n, c, i) ==
  LET p == CHOOSE q \in DOMAIN bins[n][i] : bins[n][i][q] = c
  IN  /\ bins' = [bins EXCEPT ![n][i] = RemoveAt(@, p)]
      /\ binmap' = [binmap EXCEPT ![n] = IF Len(bins[n][i]) = 1 THEN @ \ {i} ELSE @]
      /\ csize' = [csize EXCEPT ![n][c].inuse = TRUE]
      /\ psize' = [psize EXCEPT ![n][c + csize[n][c].size].inuse = TRUE]

-----------------------------------------------------------------------------
(* popcorn_malloc                                                          *)

\* Where a request for a number of units begins.
Entry(n, want) ==
  IF n = NoNode THEN "global" ELSE IF want > MmapThreshold THEN "mmap" ELSE "scan"

MallocCall(t) ==
  /\ pc[t] = "idle" /\ calls < MaxCalls
  /\ calls' = calls + 1
  /\ \E bytes \in Requests, n \in Nodes \cup {NoNode} :
       /\ Become(t, [Idle EXCEPT !.want = AdjustSize(bytes), !.node = n, !.then = "served"])
       /\ Goto(t, Entry(n, AdjustSize(bytes)))
  /\ UNCHANGED <<arenas, lists, tags, owner, live>>

\* A block of another heap, whose size does not matter here, or no block
\* when that heap has no more.
Fresh(heap) ==
  LET free == {i \in 0 .. OtherBlocks - 1 :
                 \A b \in (live \cup {loc[t].res : t \in Threads}) \ {None} :
                   b.heap = heap => b.at # i}
  IN  IF free = {} THEN None ELSE Block(heap, CHOOSE i \in free : TRUE, 1)

\* A mapping of its own, or the heap all nodes share.
OtherHeap(t) ==
  /\ pc[t] \in {"mmap", "global"}
  /\ Become(t, [loc[t] EXCEPT !.res = Fresh(pc[t])])
  /\ Goto(t, loc[t].then)
  /\ UNCHANGED <<arenas, lists, tags, owner, live, calls>>

\* Read the map of non-empty bins without a lock; without a suitable bin,
\* has the arena been initialized?
Scan(t) ==
  LET n == loc[t].node
      mask == {j \in binmap[n] : j >= BinIndexUp(loc[t].want)}
  IN  /\ pc[t] = "scan"
      /\ IF mask = {} THEN Goto(t, IF initialized[n] THEN "expand" ELSE "init") /\ UNCHANGED loc
         ELSE /\ Goto(t, "take")
              /\ Become(t, [loc[t] EXCEPT !.k = CHOOSE j \in mask : \A m \in mask : j <= m])
      /\ UNCHANGED <<arenas, lists, tags, owner, live, calls>>

\* Take the initialization lock and check again.
LockInit(t) ==
  LET n == loc[t].node
  IN  /\ pc[t] = "init"
      /\ IF initialized[n] THEN Unlocked(InitLock(n)) /\ Goto(t, "scan") /\ UNCHANGED <<owner, loc>>
         ELSE /\ Lock(t, InitLock(n))
              /\ Goto(t, "expand")
              /\ Become(t, [loc[t] EXCEPT !.init = TRUE])
      /\ UNCHANGED <<arenas, lists, tags, live, calls>>

\* expand_heap: the whole arena at once, as one chunk before a sentinel.  The
\* word below the first chunk is marked as used: alloc_rev takes nothing.
MapArena(t) ==
  LET n == loc[t].node
      size == ArenaUnits - 1
  IN  /\ pc[t] = "expand" /\ ~mapped[n]
      /\ mapped' = [mapped EXCEPT ![n] = TRUE]
      /\ csize' = [csize EXCEPT ![n] = [o \in {0, size} |-> Word(IF o = 0 THEN size ELSE 0, TRUE)]]
      /\ psize' = [psize EXCEPT ![n] = [o \in {0, size} |-> Word(IF o = 0 THEN 0 ELSE size, TRUE)]]
      /\ Become(t, [loc[t] EXCEPT !.self = 0, !.res = Block(n, 0, loc[t].want)])
      /\ Goto(t, "trim")
      /\ UNCHANGED <<initialized, lists, owner, live, calls>>

\* Mutant of ExpandFails: the initialization lock is kept.
ExpandFailsKeeps(t) ==
  /\ pc[t] = "expand"
  /\ Become(t, [loc[t] EXCEPT !.init = FALSE])
  /\ Goto(t, "global")
  /\ UNCHANGED <<arenas, lists, tags, owner, live, calls>>

\* There is nothing left to map, or mmap fails.
ExpandFails(t) ==
  /\ pc[t] = "expand"
  /\ Become(t, [loc[t] EXCEPT !.init = FALSE])
  /\ IF loc[t].init THEN Unlock({InitLock(loc[t].node)}) ELSE UNCHANGED owner
  /\ Goto(t, "global")
  /\ UNCHANGED <<arenas, lists, tags, live, calls>>

\* pretrim: a large chunk that stays in its bin keeps the rest of the list.
CanPretrim(size, want, j) ==
  LET i == BinIndexUp(want)
  IN  /\ j >= 40
      /\ j >= i + 3 \/ (j = 63 /\ size - want > MmapThreshold)
      /\ BinIndex(size - want) = j

\* Lock the bin found and take its first chunk, if it still has one.
Take(t) ==
  LET n == loc[t].node
      j == loc[t].k
      c == Head(bins[n][j])
  IN  /\ pc[t] = "take" /\ Unlocked(BinLock(n, j))
      /\ \/ /\ bins[n][j] = <<>>
            /\ Goto(t, "scan")
            /\ UNCHANGED <<lists, tags, loc>>
         \/ /\ bins[n][j] # <<>>
            /\ IF CanPretrim(csize[n][c].size, loc[t].want, j)
               THEN /\ bins' = [bins EXCEPT ![n][j][1] = c + loc[t].want]
                    /\ Split(n, c, loc[t].want, FALSE)
                    /\ UNCHANGED binmap
               ELSE Unbin(n, c, j)
            /\ Become(t, [loc[t] EXCEPT !.self = c, !.res = Block(n, c, loc[t].want)])
            /\ Goto(t, "trim")
      /\ UNCHANGED <<arenas, owner, live, calls>>

\* trim: divide the chunk and give its rest to popcorn_free.
Trim(t) ==
  LET n == loc[t].node
      c == loc[t].self
      want == loc[t].want
      size == csize[n][c].size
  IN  /\ pc[t] = "trim"
      /\ IF want >= size THEN Resume(t) /\ UNCHANGED tags
         ELSE /\ Split(n, c, want, TRUE)
              /\ Become(t, [loc[t] EXCEPT !.self = c + want, !.next = c + size, !.size = size - want])
              /\ Goto(t, "test")
      /\ UNCHANGED <<arenas, lists, owner, live, calls>>

-----------------------------------------------------------------------------
(* popcorn_free                                                            *)

\* Begin to free block b: other heaps have their own functions; a wrong
\* footer stops the program.  res is what the call is going to return.
Freeing(t, b, res) ==
  LET n == b.heap
      size == csize[n][b.at].size
  IN  IF n \notin Nodes THEN Return(t)
      ELSE IF psize[n][b.at + size] # csize[n][b.at]
      THEN Goto(t, "crashed") /\ UNCHANGED loc
      ELSE /\ Become(t, [Idle EXCEPT !.node = n, !.self = b.at, !.next = b.at + size,
                                     !.size = size, !.res = res])
           /\ Goto(t, "test")

\* The program passes a block to one call at a time, and when it has got it.
Passable == live \ ({loc[t].old : t \in Threads} \cup {loc[t].res : t \in Threads})

FreeCall(t) ==
  /\ pc[t] = "idle" /\ calls < MaxCalls
  /\ calls' = calls + 1
  /\ \E b \in Passable : live' = live \ {b} /\ Freeing(t, b, None)
  /\ UNCHANGED <<arenas, lists, tags, owner>>

\* Are both neighbours in use?
Between(n, self, next) == psize[n][self].inuse /\ csize[n][next].inuse

Test(t) ==
  LET n == loc[t].node
      self == loc[t].self
  IN  /\ pc[t] = "test"
      /\ IF Between(n, self, loc[t].next)
         THEN Label(n, self, loc[t].size, TRUE) /\ Goto(t, "lockBin")
         ELSE Goto(t, "rev") /\ UNCHANGED tags
      /\ UNCHANGED <<arenas, lists, owner, live, loc, calls>>

LockBin(t) ==
  /\ pc[t] = "lockBin"
  /\ Lock(t, BinLock(loc[t].node, BinIndex(loc[t].size)))
  /\ Goto(t, "lockFree")
  /\ UNCHANGED <<arenas, lists, tags, live, loc, calls>>

\* Mutant of LockFree: the neighbours are not looked at again.
LockFreeOnce(t) ==
  /\ pc[t] = "lockFree"
  /\ Lock(t, FreeLock(loc[t].node))
  /\ Goto(t, "publish")
  /\ UNCHANGED <<arenas, lists, tags, live, loc, calls>>

\* Take the second lock and test again.
LockFree(t) ==
  LET n == loc[t].node
  IN  /\ pc[t] = "lockFree" /\ Unlocked(FreeLock(n))
      /\ IF Between(n, loc[t].self, loc[t].next)
         THEN Lock(t, FreeLock(n)) /\ Goto(t, "publish")
         ELSE Unlock({BinLock(n, BinIndex(loc[t].size))}) /\ Goto(t, "rev")
      /\ UNCHANGED <<arenas, lists, tags, live, loc, calls>>

\* Mark the bin and the chunk, so that its neighbours can be merged with it.
Publish(t) ==
  LET n == loc[t].node
  IN  /\ pc[t] = "publish"
      /\ binmap' = [binmap EXCEPT ![n] = @ \cup {BinIndex(loc[t].size)}]
      /\ Label(n, loc[t].self, loc[t].size, FALSE)
      /\ Unlock({FreeLock(n)})
      /\ Goto(t, "link")
      /\ UNCHANGED <<arenas, bins, live, loc, calls>>

Link(t) ==
  LET n == loc[t].node
      i == BinIndex(loc[t].size)
  IN  /\ pc[t] = "link"
      /\ bins' = [bins EXCEPT ![n][i] = Append(@, loc[t].self)]
      /\ Unlock({BinLock(n, i)})
      /\ Resume(t)
      /\ UNCHANGED <<arenas, binmap, tags, live, calls>>

\* alloc_rev: read the word without a lock, lock the bin, compare.
Rev(t) ==
  LET w == psize[loc[t].node][loc[t].self]
  IN  /\ pc[t] = "rev"
      /\ IF w.inuse THEN Goto(t, "fwd") /\ UNCHANGED loc
         ELSE Goto(t, "revLock") /\ Become(t, [loc[t] EXCEPT !.k = w.size])
      /\ UNCHANGED <<arenas, lists, tags, owner, live, calls>>

RevLock(t) ==
  LET n == loc[t].node
      k == loc[t].k
      c == loc[t].self - k
  IN  /\ pc[t] = "revLock" /\ Unlocked(BinLock(n, BinIndex(k)))
      /\ IF psize[n][loc[t].self] = Word(k, FALSE)
         THEN /\ Unbin(n, c, BinIndex(k))
              /\ Become(t, [loc[t] EXCEPT !.self = c, !.size = @ + k])
              /\ Goto(t, "fwd")
         ELSE Goto(t, "rev") /\ UNCHANGED <<lists, tags, loc>>
      /\ UNCHANGED <<arenas, owner, live, calls>>

\* alloc_fwd, called by popcorn_free and, to grow a block, by popcorn_realloc.
FwdDone(t) == Goto(t, IF loc[t].then = "grown" THEN "grown" ELSE "test")

Fwd(t) ==
  LET w == csize[loc[t].node][loc[t].next]
  IN  /\ pc[t] = "fwd"
      /\ IF w.inuse THEN FwdDone(t) /\ UNCHANGED loc
         ELSE Goto(t, "fwdLock") /\ Become(t, [loc[t] EXCEPT !.k = w.size])
      /\ UNCHANGED <<arenas, lists, tags, owner, live, calls>>

FwdLock(t) ==
  LET n == loc[t].node
      k == loc[t].k
      c == loc[t].next
  IN  /\ pc[t] = "fwdLock" /\ Unlocked(BinLock(n, BinIndex(k)))
      /\ IF csize[n][c] = Word(k, FALSE)
         THEN /\ Unbin(n, c, BinIndex(k))
              /\ Become(t, [loc[t] EXCEPT !.next = c + k, !.size = @ + k])
              /\ FwdDone(t)
         ELSE Goto(t, "fwd") /\ UNCHANGED <<lists, tags, loc>>
      /\ UNCHANGED <<arenas, owner, live, calls>>

-----------------------------------------------------------------------------
(* popcorn_realloc, and what a request that was served goes on with        *)

\* Allocate a new block in place of old, then copy: see Served.
Move(t, old, n, want, then) ==
  /\ Become(t, [Idle EXCEPT !.old = old, !.node = n, !.want = want, !.then = then])
  /\ Goto(t, Entry(n, want))

\* realloc, which a node number out of range leads to, moves a block of an
\* arena; the blocks of other heaps are its own matter.
ReallocCall(t) ==
  /\ pc[t] = "idle" /\ calls < MaxCalls
  /\ calls' = calls + 1
  /\ \E b \in Passable, bytes \in Requests, n \in Nodes \cup {NoNode} :
       LET want == AdjustSize(bytes)
           again == AdjustSize(want * SizeAlign)   \* popcorn_malloc adjusts it too
           c == csize[b.heap][b.at]
       IN  \/ /\ n = NoNode /\ b.heap \in Nodes
              /\ Move(t, b, n, again, "served")
           \/ /\ n # NoNode /\ b.heap = "mmap"
              /\ IF want < PageUnits THEN Move(t, b, n, again, "shrunk")
                 ELSE /\ Become(t, [Idle EXCEPT !.old = b, !.node = n, !.want = want])
                      /\ Goto(t, "remap")
           \/ /\ n # NoNode /\ b.heap \notin {"mmap", n}
              /\ Move(t, b, n, again, "served")
           \/ /\ n # NoNode /\ b.heap = n
              /\ Become(t, [Idle EXCEPT !.old = b, !.node = n, !.want = want, !.self = b.at,
                                        !.size = c.size, !.next = b.at + c.size, !.then = "grown"])
              /\ Goto(t, CASE psize[n][b.at + c.size] # c -> "crashed"
                           [] want > c.size -> "fwd"
                           [] OTHER -> "grown")
  /\ UNCHANGED <<arenas, lists, tags, owner, live>>

\* mremap changes a mapping of its own or, failing, leads to a copy; it is
\* not called when the number of pages stays the same.
Remap(t) ==
  /\ pc[t] = "remap"
  /\ Return(t) \/ Move(t, loc[t].old, loc[t].node, loc[t].want, "served")
  /\ UNCHANGED <<arenas, lists, tags, owner, live, calls>>

\* Mutant of Grown: whether the block has become large enough is not tested.
GrownAlways(t) ==
  LET block == [loc[t].old EXCEPT !.size = loc[t].want]
  IN  /\ pc[t] = "grown"
      /\ Label(loc[t].node, loc[t].self, loc[t].size, TRUE)
      /\ live' = (live \ {loc[t].old}) \cup {block}
      /\ Goto(t, "trim")
      /\ Become(t, [loc[t] EXCEPT !.old = None, !.res = block, !.then = "idle"])
      /\ UNCHANGED <<arenas, lists, owner, calls>>

\* With what the block has grown to: give the excess back, or copy after all.
Grown(t) ==
  LET n == loc[t].node
      want == loc[t].want
      size == loc[t].size
      block == [loc[t].old EXCEPT !.size = IF want <= size THEN want ELSE size]
  IN  /\ pc[t] = "grown"
      /\ Label(n, loc[t].self, size, TRUE)
      /\ live' = (live \ {loc[t].old}) \cup {block}
      /\ IF want <= size
         THEN /\ Goto(t, "trim")
              /\ Become(t, [loc[t] EXCEPT !.old = None, !.res = block, !.then = "idle"])
         ELSE Move(t, block, n, want, "served")
      /\ UNCHANGED <<arenas, lists, owner, calls>>

\* Mutant of Served: a block that moved is not given back.
ServedKeepsOld(t) ==
  LET n == loc[t].node
  IN  /\ pc[t] \in {"served", "shrunk"}
      /\ IF loc[t].init
         THEN initialized' = [initialized EXCEPT ![n] = TRUE] /\ Unlock({InitLock(n)})
         ELSE UNCHANGED <<initialized, owner>>
      /\ live' = IF loc[t].res = None THEN live ELSE (live \ {loc[t].old}) \cup {loc[t].res}
      /\ Return(t)
      /\ UNCHANGED <<mapped, lists, tags, calls>>

\* popcorn_malloc ends: the one who mapped the arena says so only now.  A
\* mapping that could not be replaced by a small block is remapped.
Served(t) ==
  LET n == loc[t].node
      old == loc[t].old
      res == loc[t].res
  IN  /\ pc[t] \in {"served", "shrunk"}
      /\ IF loc[t].init
         THEN initialized' = [initialized EXCEPT ![n] = TRUE] /\ Unlock({InitLock(n)})
         ELSE UNCHANGED <<initialized, owner>>
      /\ \/ /\ res = None /\ UNCHANGED live
            /\ IF pc[t] = "shrunk" THEN Goto(t, "remap") /\ Become(t, [loc[t] EXCEPT !.want = @ - 1])
               ELSE Return(t)
         \/ /\ res # None /\ old = None
            /\ live' = live \cup {res}
            /\ Return(t)
         \/ /\ res # None /\ old # None
            /\ live' = (live \ {old}) \cup {res}
            /\ Freeing(t, old, res)
      /\ UNCHANGED <<mapped, lists, tags, calls>>

-----------------------------------------------------------------------------
\* The steps of a call that has begun.
Step(t) ==
  \/ OtherHeap(t) \/ Scan(t) \/ LockInit(t) \/ MapArena(t) \/ ExpandFails(t)
  \/ Take(t) \/ Trim(t)
  \/ Test(t) \/ LockBin(t) \/ LockFree(t) \/ Publish(t) \/ Link(t)
  \/ Rev(t) \/ RevLock(t) \/ Fwd(t) \/ FwdLock(t)
  \/ Remap(t) \/ Grown(t) \/ Served(t)

Finished ==
  /\ \A t \in Threads : pc[t] = "idle"
  /\ calls = MaxCalls
  /\ UNCHANGED vars

Next == Finished \/ \E t \in Threads : MallocCall(t) \/ FreeCall(t) \/ ReallocCall(t) \/ Step(t)

Spec == Init /\ [][Next]_vars

\* A thread that is inside a call is scheduled; nobody has to call.
FairSpec == Spec /\ \A t \in Threads : WF_vars(Step(t))

-----------------------------------------------------------------------------
(* Properties                                                              *)

PCs == {"idle", "mmap", "global", "scan", "init", "expand", "take", "trim", "test", "lockBin",
        "lockFree", "publish", "link", "rev", "revLock", "fwd", "fwdLock", "remap", "grown",
        "served", "shrunk"}

\* Types; no thread has found a wrong footer and stopped the program.
TypeOK ==
  /\ mapped \in [Nodes -> BOOLEAN] /\ initialized \in [Nodes -> BOOLEAN]
  /\ binmap \in [Nodes -> SUBSET Bins]
  /\ \A n \in Nodes : DOMAIN csize[n] = DOMAIN psize[n] /\ DOMAIN csize[n] \subseteq 0 .. ArenaUnits
  /\ \A l \in DOMAIN owner : owner[l] \in Threads
  /\ pc \in [Threads -> PCs]
  /\ calls \in Nat

Free(n) == {c \in DOMAIN csize[n] : ~csize[n][c].inuse}

\* A thread that holds the lock of bin i and is about to link its chunk.
Linking(n, i, c) ==
  \E t \in Threads :
    pc[t] = "link" /\ loc[t].node = n /\ loc[t].self = c /\ BinIndex(loc[t].size) = i

\* The bins hold exactly the free chunks, each in the bin of its size, and
\* the map shows which bins are not empty, but for the chunk somebody is
\* linking.
FreeListed ==
  \A n \in Nodes : \A i \in Bins :
    LET listed == {bins[n][i][p] : p \in DOMAIN bins[n][i]}
        free == {c \in Free(n) : BinIndex(csize[n][c].size) = i}
    IN  /\ Cardinality(listed) = Len(bins[n][i])
        /\ listed \subseteq free
        /\ \A c \in free \ listed : Linking(n, i, c)
        /\ i \in binmap[n] <=> free # {}

\* No two free chunks lie side by side, even while threads free both.
Coalesced ==
  \A n \in Nodes : \A c \in Free(n) : c + csize[n][c].size \notin Free(n)

\* The bins agree with the chunks whatever runs at the same time: nothing free
\* is missing from them, listed twice, or left unmerged.
BinsSound == FreeListed /\ Coalesced

\* Between calls every used chunk of an arena is the chunk of a live block.
NothingLost ==
  (\A t \in Threads : pc[t] = "idle") =>
    \A n \in Nodes : \A c \in DOMAIN csize[n] \ (Free(n) \cup {ArenaUnits - 1}) :
      Block(n, c, csize[n][c].size) \in live

\* Blocks given out never overlap, whoever allocates, frees, grows and moves
\* them at the same time.
Heaps == INSTANCE NodeHeaps

ImplementsHeaps == Heaps!Spec

\* Every call returns: the initialization lock is held while the rest of the
\* first chunk is freed, and a bin lock while the free lock is waited for,
\* but nobody waits in a circle, and no loop of retries goes on for ever.
EveryoneReturns == \A t \in Threads : pc[t] # "idle" ~> pc[t] = "idle"
=============================================================================
