------------------------ MODULE PopcornMallocProofs ------------------------
(***************************************************************************)
(* The heap of any number of nodes under any number of threads: bins and   *)
(* chunks always agree, nothing is lost, and blocks in use never overlap.  *)
(*                                                                         *)
(* The argument: the chunks of an arena tile it, and every used chunk has  *)
(* one owner, a block that was given out or a thread that holds it while   *)
(* it frees, merges, grows or divides it.                                  *)
(***************************************************************************)
EXTENDS PopcornMalloc, FiniteSetTheorems, SequenceTheorems, WellFoundedInduction, TLAPS

-----------------------------------------------------------------------------
(* The inductive invariant                                                 *)

\* Where the word after the last chunk begins.
Sentinel == ArenaUnits - 1

HeapNames == Nodes \cup {"mmap", "global"}
Blocks == [heap : HeapNames, at : Nat, size : Nat \ {0}]
Words == [size : Nat, inuse : BOOLEAN]
Tags == UNION {[S -> Words] : S \in SUBSET (0 .. Sentinel)}
Locals ==
  [want : Nat, node : Nodes \cup {NoNode}, self : Nat, next : Nat, size : Nat, k : Nat,
   init : BOOLEAN, then : {"idle", "served", "shrunk", "grown"},
   old : Blocks \cup {None}, res : Blocks \cup {None}]

Types ==
  /\ mapped \in [Nodes -> BOOLEAN] /\ initialized \in [Nodes -> BOOLEAN]
  /\ binmap \in [Nodes -> SUBSET Bins]
  /\ bins \in [Nodes -> [Bins -> Seq(Nat)]]
  /\ csize \in [Nodes -> Tags] /\ psize \in [Nodes -> Tags]
  /\ \A l \in DOMAIN owner : owner[l] \in Threads
  /\ live \in SUBSET Blocks
  /\ pc \in [Threads -> PCs]
  /\ loc \in [Threads -> Locals]
  /\ calls \in Nat

Heads(n) == DOMAIN csize[n]

\* The chunks of an arena lie side by side, from 0 to the sentinel, and the
\* footer of each says what its header says.
Tiled(C, P) ==
  /\ DOMAIN P = DOMAIN C /\ {0, Sentinel} \subseteq DOMAIN C
  /\ C[Sentinel] = Word(0, TRUE) /\ P[0] = Word(0, TRUE)
  /\ \A c \in DOMAIN C \ {Sentinel} :
       C[c].size > 0 /\ c + C[c].size \in DOMAIN C /\ P[c + C[c].size] = C[c]
  /\ \A c \in DOMAIN C \ {0} :
       P[c].size > 0 /\ c - P[c].size \in DOMAIN C /\ C[c - P[c].size] = P[c]
  /\ \A c, e \in DOMAIN C : c < e => c + C[c].size <= e

\* An arena that is not mapped has no chunks.
Arena(n) ==
  /\ mapped[n] => Tiled(csize[n], psize[n])
  /\ ~mapped[n] => /\ Heads(n) = {} /\ DOMAIN psize[n] = {} /\ ~initialized[n]
                   /\ binmap[n] = {} /\ \A i \in Bins : bins[n][i] = <<>>

\* What a thread's locals are at each point of a call.
Searches(t) == pc[t] \in {"scan", "init", "expand", "take"}
Stage(t) ==
  /\ pc[t] = "idle" => loc[t] = Idle
  /\ Searches(t) => loc[t].node \in Nodes /\ loc[t].want <= MmapThreshold
  /\ Searches(t) \/ pc[t] \in {"mmap", "global"} =>
       loc[t].res = None /\ loc[t].then \in {"served", "shrunk"}
  /\ pc[t] = "take" => loc[t].k \in Bins /\ loc[t].k >= BinIndexUp(loc[t].want)
  /\ pc[t] \in {"served", "shrunk"} => loc[t].then = pc[t]
  /\ loc[t].then = "grown" =>
       /\ pc[t] \in {"fwd", "fwdLock", "grown"} /\ loc[t].res = None /\ ~loc[t].init
       /\ loc[t].old # None /\ loc[t].old.heap = loc[t].node /\ loc[t].old.at = loc[t].self
  /\ pc[t] = "grown" => loc[t].then = "grown"
  /\ pc[t] = "trim" =>
       /\ loc[t].res # None /\ loc[t].res.heap = loc[t].node
       /\ loc[t].res.at = loc[t].self /\ loc[t].res.size = loc[t].want
  /\ pc[t] = "remap" => loc[t].res = None /\ loc[t].old # None /\ loc[t].node \in Nodes
                        /\ ~loc[t].init /\ loc[t].then \in {"idle", "shrunk"}
  /\ loc[t].then # "idle" \/ pc[t] \in {"remap", "trim"} => loc[t].want > 0
  /\ loc[t].then = "shrunk" =>
       loc[t].old # None /\ loc[t].node \in Nodes /\ (pc[t] # "remap" => loc[t].want > 1)
  /\ loc[t].then = "idle" /\ pc[t] # "remap" => loc[t].old = None
  /\ loc[t].then = "idle" => ~loc[t].init
  /\ loc[t].init /\ pc[t] # "expand" => loc[t].res # None

\* The locks a thread holds; the arena is mapped by the one who has the
\* initialization lock.
Owns(t, l) == l \in DOMAIN owner /\ owner[l] = t
Locks(t) ==
  /\ pc[t] \in {"lockFree", "publish", "link"} =>
       Owns(t, BinLock(loc[t].node, BinIndex(loc[t].size)))
  /\ pc[t] = "publish" => Owns(t, FreeLock(loc[t].node))
  /\ loc[t].init => loc[t].node \in Nodes /\ Owns(t, InitLock(loc[t].node))
  /\ loc[t].init /\ pc[t] # "expand" => mapped[loc[t].node]
  /\ pc[t] = "expand" /\ ~loc[t].init => mapped[loc[t].node]

\* The chunks a thread holds: from self up to, but not including, Upto.
Holding == {"trim", "test", "lockBin", "lockFree", "publish", "rev", "revLock", "fwd", "fwdLock",
            "grown"}
Upto(t) ==
  IF pc[t] = "trim" THEN loc[t].self + csize[loc[t].node][loc[t].self].size ELSE loc[t].next
Holds(t, n, c) ==
  /\ pc[t] \in Holding /\ loc[t].node = n
  /\ c \in Heads(n) /\ loc[t].self <= c /\ c < Upto(t)

\* They are used chunks one after another.
Grip(t) ==
  LET n == loc[t].node
      self == loc[t].self
  IN  /\ pc[t] \in Holding \cup {"link"} =>
           n \in Nodes /\ mapped[n] /\ self \in Heads(n) /\ self # Sentinel
      /\ pc[t] \in Holding =>
           /\ Upto(t) \in Heads(n)
           /\ \A c \in Heads(n) : self <= c /\ c < Upto(t) => csize[n][c].inuse
           /\ pc[t] # "trim" => loc[t].size > 0 /\ loc[t].next = self + loc[t].size
      /\ pc[t] = "trim" => loc[t].want <= csize[n][self].size
      /\ pc[t] = "publish" => Between(n, self, loc[t].next)
      /\ pc[t] = "link" => csize[n][self] = Word(loc[t].size, FALSE)

\* No chunk is held by two.
Apart ==
  \A t, u \in Threads : \A n \in Nodes : \A c \in Heads(n) :
    Holds(t, n, c) /\ Holds(u, n, c) => t = u

\* A block a call has got but not returned yet, all blocks given out, and the
\* block a thread grows or divides.
Pending(t) == loc[t].then \in {"served", "shrunk"} /\ loc[t].res # None
Given == live \cup {loc[t].res : t \in {u \in Threads : Pending(u)}}
Subject(t) ==
  IF loc[t].then = "grown" THEN loc[t].old ELSE IF pc[t] = "trim" THEN loc[t].res ELSE None

\* A block given out is a used chunk, as large as it says unless a thread is
\* at work on it, and held by nobody else.
Placed(b) ==
  /\ b.heap \in Nodes =>
       /\ mapped[b.heap] /\ b.at \in Heads(b.heap) /\ b.at # Sentinel
       /\ csize[b.heap][b.at].inuse /\ b.size <= csize[b.heap][b.at].size
       /\ \A t \in Threads : Holds(t, b.heap, b.at) => Subject(t) = b
       /\ (\A t \in Threads : Subject(t) # b) => csize[b.heap][b.at].size = b.size
  /\ b.heap \notin Nodes => b.size = 1

Distinct == \A a, b \in Given : a.heap = b.heap /\ a.at = b.at => a = b

\* Whose block is whose.
Private ==
  /\ \A t \in Threads : loc[t].old # None => loc[t].old \in live
  /\ \A t \in Threads : Pending(t) => loc[t].res \notin live
  /\ \A t \in Threads : loc[t].then = "idle" /\ loc[t].res # None => loc[t].res \in live
  /\ \A t, u \in Threads : t # u =>
       /\ loc[t].old # None => loc[u].old # loc[t].old /\ loc[u].res # loc[t].old
       /\ loc[t].res # None => loc[u].res # loc[t].res

\* Every used chunk has an owner.
Taken(n, c) ==
  \/ \E t \in Threads : Holds(t, n, c)
  \/ \E b \in Given : b.heap = n /\ b.at = c
Covered(n) == \A c \in Heads(n) \ {Sentinel} : csize[n][c].inuse => Taken(n, c)

\* The bins hold the free chunks, but for one that is being linked; no two free
\* chunks lie side by side.
Elements(s) == {s[p] : p \in DOMAIN s}
Once(s) == \A p, q \in DOMAIN s : s[p] = s[q] => p = q
Links(t, n, c) == pc[t] = "link" /\ loc[t].node = n /\ loc[t].self = c
Binned(n) ==
  /\ \A i \in Bins : Once(bins[n][i])
  /\ \A i \in Bins : \A c \in Elements(bins[n][i]) :
       c \in Free(n) /\ BinIndex(csize[n][c].size) = i /\ \A t \in Threads : ~Links(t, n, c)
  /\ \A c \in Free(n) : \/ c \in Elements(bins[n][BinIndex(csize[n][c].size)])
                        \/ \E t \in Threads : Links(t, n, c)
  /\ \A i \in Bins : i \in binmap[n] <=> \E c \in Free(n) : BinIndex(csize[n][c].size) = i
  /\ \A c \in Free(n) : c + csize[n][c].size \notin Free(n)

IInv ==
  /\ Types
  /\ \A n \in Nodes : Arena(n) /\ Covered(n) /\ Binned(n)
  /\ \A t \in Threads : Stage(t) /\ Locks(t) /\ Grip(t)
  /\ Apart
  /\ \A b \in Given : Placed(b)
  /\ Distinct /\ Private

-----------------------------------------------------------------------------
(* Sizes and bins                                                          *)

\* The constants of the code, and how large an arena is at least.
LEMMA Sizes ==
  /\ SizeAlign = 32 /\ Overhead = 16 /\ PageUnits \in Nat /\ MmapThreshold = 7168
  /\ Bins = 0 .. 63
  /\ ArenaUnits \in Nat /\ Sentinel \in Nat /\ Sentinel >= MmapThreshold
  BY HeapAssumption DEF SizeAlign, Overhead, PageUnits, MmapThreshold, Bins, Sentinel

\* No node is named like another heap, and no block like none.
LEMMA Names ==
  /\ NoNode \notin Nodes /\ "mmap" \notin Nodes /\ "global" \notin Nodes
  /\ None \notin Blocks
  BY HeapAssumption DEF Blocks, HeapNames

\* The table of bins climbs in steps of equal length.
LEMMA Table ==
  ASSUME NEW i \in 1 .. 60
  PROVE  BinTab[i] = IF i <= 5 THEN 31 + i
                     ELSE IF i <= 12 THEN 33 + (i + 1) \div 2
                     ELSE IF i <= 28 THEN 40 + (i - 13) \div 4
                     ELSE 44 + (i - 29) \div 8
  BY DEF BinTab

\* The bins of sizes from 33 on.
LEMMA TableRange ==
  ASSUME NEW i \in 1 .. 60
  PROVE  BinTab[i] \in 32 .. 47
  BY Table

\* bin_tab is monotone.
LEMMA TableClimbs ==
  ASSUME NEW i \in 1 .. 60, NEW j \in 1 .. 60, i <= j
  PROVE  BinTab[i] <= BinTab[j]
  BY Table

\* bin_index and bin_index_up read the table within its bounds.
LEMMA Quotients ==
  ASSUME NEW x \in Int
  PROVE  /\ 32 <= x /\ x < 512 => x \div 8 - 3 \in 1 .. 60
         /\ 512 <= x /\ x <= 7168 => x \div 128 - 3 \in 1 .. 60
  OBVIOUS

\* Division is monotone.
LEMMA QuotientsClimb ==
  ASSUME NEW x \in Int, NEW y \in Int, x <= y
  PROVE  x \div 8 - 3 <= y \div 8 - 3 /\ x \div 128 - 3 <= y \div 128 - 3
  OBVIOUS

\* bin_index, case by case.
LEMMA BinIndexIs ==
  ASSUME NEW size \in Nat, NEW x \in Int, x = size - 1
  PROVE  /\ x <= 32 => BinIndex(size) = x
         /\ 32 < x /\ x < 512 =>
              \E i \in 1 .. 60 : i = x \div 8 - 3 /\ BinIndex(size) = BinTab[i]
         /\ 512 <= x /\ x <= 7168 =>
              \E i \in 1 .. 60 : i = x \div 128 - 3 /\ BinIndex(size) = BinTab[i] + 16
         /\ 7168 < x => BinIndex(size) = 63
<1>1. 32 < x /\ x < 512 => BinIndex(size) = BinTab[x \div 8 - 3] /\ x \div 8 - 3 \in 1 .. 60
  BY Quotients DEF BinIndex
<1>2. 512 <= x /\ x <= 7168 =>
        BinIndex(size) = BinTab[x \div 128 - 3] + 16 /\ x \div 128 - 3 \in 1 .. 60
  BY Quotients DEF BinIndex
<1>3. (x <= 32 => BinIndex(size) = x) /\ (7168 < x => BinIndex(size) = 63)
  BY DEF BinIndex
<1> QED
  BY <1>1, <1>2, <1>3

\* bin_index_up, case by case, for sizes that are not mapped on their own.
LEMMA BinIndexUpIs ==
  ASSUME NEW want \in Nat, NEW y \in Int, y = want - 2, y <= 7168
  PROVE  /\ y < 32 => BinIndexUp(want) = y + 1
         /\ 32 <= y /\ y < 512 =>
              \E i \in 1 .. 60 : i = y \div 8 - 3 /\ BinIndexUp(want) = BinTab[i] + 1
         /\ 512 <= y =>
              \E i \in 1 .. 60 : i = y \div 128 - 3 /\ BinIndexUp(want) = BinTab[i] + 17
<1>1. 32 <= y /\ y < 512 => BinIndexUp(want) = BinTab[y \div 8 - 3] + 1 /\ y \div 8 - 3 \in 1 .. 60
  BY Quotients DEF BinIndexUp
<1>2. 512 <= y => BinIndexUp(want) = BinTab[y \div 128 - 3] + 17 /\ y \div 128 - 3 \in 1 .. 60
  BY Quotients DEF BinIndexUp
<1>3. y < 32 => BinIndexUp(want) = y + 1
  BY DEF BinIndexUp
<1> QED
  BY <1>1, <1>2, <1>3

\* Every chunk has a bin.
LEMMA BinOf ==
  ASSUME NEW size \in Nat \ {0}
  PROVE  BinIndex(size) \in Bins
<1>1. PICK x \in Int : x = size - 1
  OBVIOUS
<1>2. CASE x <= 32
  BY <1>1, <1>2, BinIndexIs, Sizes
<1>3. CASE 32 < x /\ x < 512
  BY <1>1, <1>3, BinIndexIs, TableRange, Sizes
<1>4. CASE 512 <= x /\ x <= 7168
  BY <1>1, <1>4, BinIndexIs, TableRange, Sizes
<1>5. CASE 7168 < x
  BY <1>1, <1>5, BinIndexIs, Sizes
<1> QED
  BY <1>1, <1>2, <1>3, <1>4, <1>5

\* Every chunk of a bin that bin_index_up allows is large enough.
LEMMA LargeEnough ==
  ASSUME NEW size \in Nat \ {0}, NEW want \in Nat \ {0}, want <= MmapThreshold,
         BinIndex(size) >= BinIndexUp(want)
  PROVE  want <= size
<1>1. PICK x \in Int : x = size - 1
  OBVIOUS
<1>2. PICK y \in Int : y = want - 2
  OBVIOUS
<1>3. SUFFICES ASSUME x <= y PROVE BinIndex(size) < BinIndexUp(want)
  <2>1. BinIndex(size) \in Int
    BY BinOf, Sizes
  <2>2. BinIndexUp(want) \in Int
    <3>1. \A i \in 1 .. 60 : BinTab[i] \in Int
      BY TableRange
    <3>2. y <= 7168
      BY <1>2, Sizes
    <3>3. CASE y < 32
      BY <3>2, <3>3, <1>2, BinIndexUpIs
    <3>4. CASE 32 <= y /\ y < 512
      <4>1. PICK i \in 1 .. 60 : BinIndexUp(want) = BinTab[i] + 1
        BY <3>2, <3>4, <1>2, BinIndexUpIs
      <4> QED
        BY <3>1, <4>1
    <3>5. CASE 512 <= y
      <4>1. PICK i \in 1 .. 60 : BinIndexUp(want) = BinTab[i] + 17
        BY <3>2, <3>5, <1>2, BinIndexUpIs
      <4> QED
        BY <3>1, <4>1
    <3> QED
      BY <3>3, <3>4, <3>5
  <2> QED
    BY <1>1, <1>2, <2>1, <2>2
<1>4. y <= 7166
  BY <1>2, Sizes
<1>5. CASE y < 32
  BY <1>1, <1>2, <1>3, <1>4, <1>5, BinIndexIs, BinIndexUpIs
<1>6. CASE 32 <= y /\ y < 512
  <2>1. PICK j \in 1 .. 60 : j = y \div 8 - 3 /\ BinIndexUp(want) = BinTab[j] + 1
    BY <1>2, <1>4, <1>6, BinIndexUpIs
  <2>2. CASE x <= 32
    <3>1. BinIndex(size) = x
      BY <1>1, <2>2, BinIndexIs
    <3> QED
      BY <3>1, <2>1, <2>2, TableRange
  <2>3. CASE 32 < x
    <3>1. PICK i \in 1 .. 60 : i = x \div 8 - 3 /\ BinIndex(size) = BinTab[i]
      BY <1>1, <1>3, <1>6, <2>3, BinIndexIs
    <3>2. i <= j
      BY <2>1, <3>1, <1>3, QuotientsClimb
    <3>3. BinTab[i] \in Int /\ BinTab[j] \in Int
      BY TableRange
    <3>4. BinTab[i] <= BinTab[j]
      BY <3>2, TableClimbs
    <3> QED
      BY <2>1, <3>1, <3>3, <3>4
  <2> QED
    BY <2>2, <2>3
<1>7. CASE 512 <= y
  <2>1. PICK j \in 1 .. 60 : j = y \div 128 - 3 /\ BinIndexUp(want) = BinTab[j] + 17
    BY <1>2, <1>4, <1>7, BinIndexUpIs
  <2>2. BinTab[j] \in 32 .. 47
    BY TableRange
  <2>3. CASE x <= 32
    BY <1>1, <2>1, <2>2, <2>3, BinIndexIs
  <2>4. CASE 32 < x /\ x < 512
    BY <1>1, <2>1, <2>2, <2>4, BinIndexIs, TableRange
  <2>5. CASE 512 <= x
    <3>1. PICK i \in 1 .. 60 : i = x \div 128 - 3 /\ BinIndex(size) = BinTab[i] + 16
      BY <1>1, <1>3, <1>4, <2>5, BinIndexIs
    <3>2. i <= j
      BY <2>1, <3>1, <1>3, QuotientsClimb
    <3>3. BinTab[i] \in Int /\ BinTab[j] \in Int
      BY TableRange
    <3>4. BinTab[i] <= BinTab[j]
      BY <3>2, TableClimbs
    <3> QED
      BY <2>1, <3>1, <3>3, <3>4
  <2> QED
    BY <2>3, <2>4, <2>5
<1> QED
  BY <1>5, <1>6, <1>7

\* A chunk of which the rest stays in its bin is larger than what is taken.
LEMMA PretrimSmaller ==
  ASSUME NEW size \in Nat, NEW want \in Nat, NEW j \in Bins, CanPretrim(size, want, j)
  PROVE  want < size /\ BinIndex(size - want) = j
<1>1. j >= 40 /\ BinIndex(size - want) = j
  BY DEF CanPretrim
<1>2. size - want <= 0 => BinIndex(size - want) = size - want - 1
  BY DEF BinIndex
<1> QED
  BY <1>1, <1>2, Sizes

\* adjust_size never asks for nothing,
LEMMA Adjusted ==
  ASSUME NEW bytes \in Nat
  PROVE  AdjustSize(bytes) \in Nat \ {0}
  BY Sizes DEF AdjustSize

\* nor does a second time, when popcorn_realloc calls popcorn_malloc.
LEMMA AdjustedAgain ==
  ASSUME NEW want \in Nat
  PROVE  AdjustSize(want * SizeAlign) \in Nat /\ (want > 0 => AdjustSize(want * SizeAlign) > 1)
  BY Sizes DEF AdjustSize
-----------------------------------------------------------------------------
(* Chunks of an arena                                                      *)

\* Where words are.
LEMMA TagsFacts ==
  ASSUME NEW F \in Tags
  PROVE  /\ DOMAIN F \subseteq 0 .. Sentinel
         /\ \A o \in DOMAIN F : F[o] \in Words
  BY DEF Tags

\* A function on offsets of the arena holds words.
LEMMA TagsIntro ==
  ASSUME NEW S \in SUBSET (0 .. Sentinel), NEW F \in [S -> Words]
  PROVE  F \in Tags
  BY DEF Tags

\* What a word says.
LEMMA WordFacts ==
  ASSUME NEW size \in Nat, NEW inuse \in BOOLEAN
  PROVE  /\ Word(size, inuse) \in Words
         /\ Word(size, inuse).size = size /\ Word(size, inuse).inuse = inuse
  BY DEF Word, Words

\* Marking changes the in-use bit only.
LEMMA MarkedWord ==
  ASSUME NEW w \in Words
  PROVE  [w EXCEPT !.inuse = TRUE] = Word(w.size, TRUE)
<1>1. PICK s \in Nat, u \in BOOLEAN : w = [size |-> s, inuse |-> u]
  BY DEF Words
<1>2. w.size = s
  BY <1>1
<1>3. PICK m : m = [w EXCEPT !.inuse = TRUE]
  OBVIOUS
<1>4. m \in Words
  BY <1>3 DEF Words
<1>5. m.size = s /\ m.inuse = TRUE
  BY <1>1, <1>2, <1>3
<1>6. PICK a \in Nat, b \in BOOLEAN : m = [size |-> a, inuse |-> b]
  BY <1>4 DEF Words
<1>7. a = s /\ b = TRUE
  BY <1>5, <1>6
<1> QED
  BY <1>2, <1>3, <1>6, <1>7 DEF Word

\* What tiling says of one chunk, with types.
LEMMA TiledFacts ==
  ASSUME NEW C \in Tags, NEW P \in Tags, Tiled(C, P)
  PROVE  /\ DOMAIN C \subseteq 0 .. Sentinel /\ DOMAIN P = DOMAIN C
         /\ 0 \in DOMAIN C /\ Sentinel \in DOMAIN C
         /\ C[Sentinel] = Word(0, TRUE) /\ P[0] = Word(0, TRUE)
         /\ \A c \in DOMAIN C : C[c].size \in Nat /\ C[c].inuse \in BOOLEAN /\ C[c] \in Words
                                /\ P[c].size \in Nat /\ P[c].inuse \in BOOLEAN /\ P[c] \in Words
         /\ \A c \in DOMAIN C : c # Sentinel =>
              C[c].size > 0 /\ c + C[c].size \in DOMAIN C /\ P[c + C[c].size] = C[c]
         /\ \A c \in DOMAIN C : c # 0 =>
              P[c].size > 0 /\ c - P[c].size \in DOMAIN C /\ C[c - P[c].size] = P[c]
         /\ \A c, e \in DOMAIN C : c < e => c + C[c].size <= e
<1>1. \A c \in DOMAIN C : C[c] \in Words /\ P[c] \in Words
  BY TagsFacts DEF Tiled
<1> QED
  BY <1>1, TagsFacts DEF Tiled, Words

\* Tags change between two boundaries only.
Same(C, P, C2, P2, lo, hi) ==
  /\ \A o \in Nat : o <= lo \/ o >= hi => (o \in DOMAIN C2 <=> o \in DOMAIN C)
  /\ \A o \in DOMAIN C : o < lo \/ o >= hi => C2[o] = C[o]
  /\ \A o \in DOMAIN C : o <= lo \/ o > hi => P2[o] = P[o]

\* Between two boundaries the chunks become one.
LEMMA MergedTiled ==
  ASSUME NEW C \in Tags, NEW P \in Tags, Tiled(C, P),
         NEW lo \in DOMAIN C, NEW hi \in DOMAIN C, lo < hi,
         NEW inuse \in BOOLEAN, NEW w \in Words, w = Word(hi - lo, inuse),
         NEW K, K = {o \in DOMAIN C : o <= lo \/ o >= hi},
         NEW C2, C2 = [o \in K |-> IF o = lo THEN w ELSE C[o]],
         NEW P2, P2 = [o \in K |-> IF o = hi THEN w ELSE P[o]]
  PROVE  Tiled(C2, P2) /\ C2 \in Tags /\ P2 \in Tags /\ Same(C, P, C2, P2, lo, hi)
<1>0. /\ DOMAIN C \subseteq 0 .. Sentinel /\ DOMAIN P = DOMAIN C
      /\ 0 \in DOMAIN C /\ Sentinel \in DOMAIN C
      /\ C[Sentinel] = Word(0, TRUE) /\ P[0] = Word(0, TRUE)
  BY TiledFacts
<1>a. \A c \in DOMAIN C : C[c].size \in Nat /\ C[c] \in Words /\ P[c].size \in Nat /\ P[c] \in Words
  BY TiledFacts
<1>b. \A c \in DOMAIN C : c # Sentinel =>
        C[c].size > 0 /\ c + C[c].size \in DOMAIN C /\ P[c + C[c].size] = C[c]
  BY TiledFacts
<1>c. \A c \in DOMAIN C : c # 0 =>
        P[c].size > 0 /\ c - P[c].size \in DOMAIN C /\ C[c - P[c].size] = P[c]
  BY TiledFacts
<1>d. \A c, e \in DOMAIN C : c < e => c + C[c].size <= e
  BY TiledFacts
<1>1. DOMAIN C2 = K /\ DOMAIN P2 = K /\ K \subseteq DOMAIN C
  OBVIOUS
<1>2. \A o \in K : C2[o] = IF o = lo THEN w ELSE C[o]
  OBVIOUS
<1>3. \A o \in K : P2[o] = IF o = hi THEN w ELSE P[o]
  OBVIOUS
<1>4. lo \in Nat /\ hi \in Nat /\ K \subseteq Nat /\ w.size = hi - lo /\ lo \in K /\ hi \in K
      /\ \A o \in K : o <= lo \/ o >= hi
  BY <1>0, WordFacts
<1>5. C2 \in Tags /\ P2 \in Tags
  <2>1. K \in SUBSET (0 .. Sentinel)
    BY <1>0
  <2>2. C2 \in [K -> Words] /\ P2 \in [K -> Words]
    BY <1>a, <1>0
  <2> QED
    BY <2>1, <2>2, TagsIntro
<1>6. {0, Sentinel} \subseteq K /\ C2[Sentinel] = Word(0, TRUE) /\ P2[0] = Word(0, TRUE)
  <2>1. 0 <= lo /\ hi <= Sentinel /\ 0 # hi /\ Sentinel # lo
    BY <1>4, <1>0, Sizes
  <2>2. 0 \in K /\ Sentinel \in K
    BY <2>1, <1>4, <1>0, Sizes
  <2> QED
    BY <2>1, <2>2, <1>2, <1>3, <1>0
<1>7. ASSUME NEW c \in K, c # Sentinel
      PROVE  C2[c].size > 0 /\ c + C2[c].size \in K /\ P2[c + C2[c].size] = C2[c]
  <2>1. CASE c = lo
    BY <2>1, <1>2, <1>3, <1>4
  <2>2. CASE c # lo
    <3>1. C2[c] = C[c] /\ C[c].size \in Nat /\ C[c].size > 0 /\ c + C[c].size \in DOMAIN C
          /\ P[c + C[c].size] = C[c]
      BY <2>2, <1>1, <1>2, <1>7, <1>a, <1>b
    <3>2. c + C[c].size <= lo \/ c + C[c].size > hi
      BY <2>2, <3>1, <1>0, <1>1, <1>4, <1>d
    <3>3. c + C[c].size \in K /\ c + C[c].size # hi
      BY <3>1, <3>2, <1>4
    <3> QED
      BY <3>1, <3>3, <1>3
  <2> QED
    BY <2>1, <2>2
<1>8. ASSUME NEW c \in K, c # 0
      PROVE  P2[c].size > 0 /\ c - P2[c].size \in K /\ C2[c - P2[c].size] = P2[c]
  <2>1. CASE c = hi
    BY <2>1, <1>2, <1>3, <1>4
  <2>2. CASE c # hi
    <3>1. P2[c] = P[c] /\ P[c].size \in Nat /\ P[c].size > 0 /\ c - P[c].size \in DOMAIN C
          /\ C[c - P[c].size] = P[c]
      BY <2>2, <1>1, <1>3, <1>8, <1>a, <1>c
    <3>2. c - P[c].size < lo \/ c - P[c].size >= hi
      <4>1. PICK e \in DOMAIN C : e = c - P[c].size
        BY <3>1
      <4>2. e \in Nat /\ e < c /\ e + C[e].size = c
        BY <3>1, <4>1, <1>0, <1>1, <1>8
      <4>3. e < hi => c <= hi
        BY <4>2, <1>d, <1>4
      <4> QED
        BY <4>1, <4>2, <4>3, <2>2, <1>4
    <3>3. c - P[c].size \in K /\ c - P[c].size # lo
      BY <3>1, <3>2, <1>4
    <3> QED
      BY <3>1, <3>3, <1>2
  <2> QED
    BY <2>1, <2>2
<1>9. ASSUME NEW c \in K, NEW e \in K, c < e
      PROVE  c + C2[c].size <= e
  <2>1. CASE c = lo
    BY <2>1, <1>2, <1>4, <1>9
  <2>2. CASE c # lo
    BY <2>2, <1>1, <1>2, <1>9, <1>d
  <2> QED
    BY <2>1, <2>2
<1>10. Same(C, P, C2, P2, lo, hi)
  <2>1. \A o \in Nat : o <= lo \/ o >= hi => (o \in K <=> o \in DOMAIN C)
    OBVIOUS
  <2>2. \A o \in DOMAIN C : o < lo \/ o >= hi => o \in K /\ o # lo
    BY <1>0, <1>4
  <2>3. \A o \in DOMAIN C : o <= lo \/ o > hi => o \in K /\ o # hi
    BY <1>0, <1>4
  <2> QED
    BY <2>1, <2>2, <2>3, <1>1, <1>2, <1>3 DEF Same
<1> QED
  BY <1>1, <1>5, <1>6, <1>7, <1>8, <1>9, <1>10 DEF Tiled

\* A chunk becomes two.
LEMMA SplitTiled ==
  ASSUME NEW C \in Tags, NEW P \in Tags, Tiled(C, P),
         NEW lo \in DOMAIN C, lo # Sentinel, NEW hi \in DOMAIN C, hi = lo + C[lo].size,
         NEW rest \in Nat, lo < rest, rest < hi,
         NEW C2 \in [DOMAIN C \cup {rest} -> Words], NEW P2 \in [DOMAIN C \cup {rest} -> Words],
         C2[lo].size = rest - lo, C2[rest].size = hi - rest,
         P2[rest] = C2[lo], P2[hi] = C2[rest],
         \A o \in DOMAIN C : (o # lo => C2[o] = C[o]) /\ (o # hi => P2[o] = P[o])
  PROVE  Tiled(C2, P2) /\ C2 \in Tags /\ P2 \in Tags /\ Same(C, P, C2, P2, lo, hi)
<1>0. /\ DOMAIN C \subseteq 0 .. Sentinel /\ DOMAIN P = DOMAIN C
      /\ 0 \in DOMAIN C /\ Sentinel \in DOMAIN C
      /\ C[Sentinel] = Word(0, TRUE) /\ P[0] = Word(0, TRUE)
  BY TiledFacts, ZenonT(30)
<1>a. \A c \in DOMAIN C : C[c].size \in Nat /\ C[c] \in Words /\ P[c].size \in Nat /\ P[c] \in Words
  BY TiledFacts
<1>b. \A c \in DOMAIN C : c # Sentinel =>
        C[c].size > 0 /\ c + C[c].size \in DOMAIN C /\ P[c + C[c].size] = C[c]
  BY TiledFacts, ZenonT(30)
<1>c. \A c \in DOMAIN C : c # 0 =>
        P[c].size > 0 /\ c - P[c].size \in DOMAIN C /\ C[c - P[c].size] = P[c]
  BY TiledFacts, ZenonT(30)
<1>d. \A c, e \in DOMAIN C : c < e => c + C[c].size <= e
  BY TiledFacts
<1>k. PICK K : K = DOMAIN C \cup {rest}
  OBVIOUS
<1>1. DOMAIN C2 = K /\ DOMAIN P2 = K /\ DOMAIN C \subseteq K /\ rest \in K
      /\ \A o \in K : o \in DOMAIN C \/ o = rest
  BY <1>k
<1>s. PICK size \in Nat : size = C[lo].size
  BY <1>a
<1>w. PICK w \in Words, v \in Words : w = C2[lo] /\ v = C2[rest]
  OBVIOUS
<1>2. hi = lo + size /\ P[hi] = C[lo] /\ w.size = rest - lo /\ v.size = hi - rest
  BY <1>b, <1>s, <1>w
<1>3. lo \in Nat /\ hi \in Nat /\ lo < rest /\ rest < hi /\ rest # 0 /\ hi # 0
  BY <1>0, <1>2
<1>4. \A o \in DOMAIN C : o <= lo \/ o >= hi
  BY <1>2, <1>3, <1>d, <1>0
<1>5. rest \notin DOMAIN C
  BY <1>3, <1>4
<1>6. C2[lo] = w /\ C2[rest] = v /\ \A o \in DOMAIN C : o # lo => C2[o] = C[o]
  BY <1>w
<1>7. P2[rest] = w /\ P2[hi] = v /\ \A o \in DOMAIN C : o # hi => P2[o] = P[o]
  BY <1>w
<1>8. C2 \in Tags /\ P2 \in Tags
  <2>1. K \in SUBSET (0 .. Sentinel)
    BY <1>0, <1>2, <1>3, <1>k, Sizes
  <2> QED
    BY <2>1, <1>k, TagsIntro
<1>9. {0, Sentinel} \subseteq K /\ C2[Sentinel] = Word(0, TRUE) /\ P2[0] = Word(0, TRUE)
  BY <1>0, <1>1, <1>3, <1>6, <1>7
<1>10. ASSUME NEW c \in K, c # Sentinel
       PROVE  C2[c].size > 0 /\ c + C2[c].size \in K /\ P2[c + C2[c].size] = C2[c]
  <2>1. CASE c = lo
    BY <2>1, <1>1, <1>2, <1>3, <1>6, <1>7
  <2>2. CASE c = rest
    BY <2>2, <1>1, <1>2, <1>3, <1>6, <1>7
  <2>3. CASE c \in DOMAIN C /\ c # lo
    <3>1. C2[c] = C[c] /\ C[c].size > 0 /\ c + C[c].size \in DOMAIN C /\ P[c + C[c].size] = C[c]
      BY <2>3, <1>6, <1>10, <1>b
    <3>2. c + C[c].size # hi
      <4>1. c < lo => c + C[c].size <= lo
        BY <2>3, <1>d
      <4>2. c \in Nat /\ C[c].size \in Nat
        BY <2>3, <1>0, <1>a
      <4> QED
        BY <4>1, <4>2, <3>1, <2>3, <1>3, <1>4
    <3> QED
      BY <3>1, <3>2, <1>1, <1>7
  <2> QED
    BY <2>1, <2>2, <2>3, <1>1
<1>11. ASSUME NEW c \in K, c # 0
       PROVE  P2[c].size > 0 /\ c - P2[c].size \in K /\ C2[c - P2[c].size] = P2[c]
  <2>1. CASE c = hi
    BY <2>1, <1>1, <1>2, <1>3, <1>6, <1>7
  <2>2. CASE c = rest
    BY <2>2, <1>1, <1>2, <1>3, <1>6, <1>7
  <2>3. CASE c \in DOMAIN C /\ c # hi
    <3>1. P2[c] = P[c] /\ P[c].size > 0 /\ c - P[c].size \in DOMAIN C /\ C[c - P[c].size] = P[c]
      BY <2>3, <1>7, <1>11, <1>c
    <3>2. c - P[c].size # lo
      <4>1. c \in Nat /\ P[c].size \in Nat
        BY <2>3, <1>0, <1>a
      <4>2. c - P[c].size = lo => c = hi
        BY <4>1, <3>1, <1>2, <1>3
      <4> QED
        BY <4>2, <2>3
    <3> QED
      BY <3>1, <3>2, <1>1, <1>6
  <2> QED
    BY <2>1, <2>2, <2>3, <1>1
<1>12. ASSUME NEW c \in K, NEW e \in K, c < e
       PROVE  c + C2[c].size <= e
  <2>1. c \in Nat /\ e \in Nat /\ (c \in DOMAIN C => C[c].size \in Nat)
    BY <1>0, <1>1, <1>3, <1>a
  <2>2. CASE c = lo
    BY <2>1, <2>2, <1>1, <1>2, <1>3, <1>4, <1>6, <1>12
  <2>3. CASE c = rest
    BY <2>1, <2>3, <1>1, <1>2, <1>3, <1>4, <1>6, <1>12
  <2>4. CASE c \in DOMAIN C /\ c # lo
    <3>1. C2[c] = C[c]
      BY <2>4, <1>6
    <3>2. CASE e \in DOMAIN C
      BY <3>1, <3>2, <2>4, <1>12, <1>d
    <3>3. CASE e = rest
      <4>1. c < lo
        BY <3>3, <2>1, <2>4, <1>3, <1>4, <1>12
      <4>2. c + C[c].size <= lo
        BY <4>1, <2>4, <1>d
      <4> QED
        BY <4>2, <3>1, <3>3, <2>1, <2>4, <1>3
    <3> QED
      BY <3>2, <3>3, <2>4, <1>1
  <2> QED
    BY <2>2, <2>3, <2>4, <1>1
<1>13. Same(C, P, C2, P2, lo, hi)
  BY <1>1, <1>2, <1>3, <1>5, <1>6, <1>7 DEF Same
<1>14. Tiled(C2, P2)
  <2>1. {0, Sentinel} \subseteq DOMAIN C2
    BY <1>1, <1>9
  <2> QED
    BY <2>1, <1>1, <1>9, <1>10, <1>11, <1>12, ZenonT(30) DEF Tiled
<1> QED
  BY <1>8, <1>13, <1>14

\* A chunk is marked as used.
Marked(F, o) == [F EXCEPT ![o].inuse = TRUE]

MarkedWell(C, P, C2, P2, lo, size) ==
  /\ Tiled(C2, P2) /\ C2 \in Tags /\ P2 \in Tags /\ Same(C, P, C2, P2, lo, lo + size)
  /\ DOMAIN C2 = DOMAIN C /\ C2[lo] = Word(size, TRUE)

\* Marking a chunk leaves a tiled arena.
LEMMA MarkedTiled ==
  ASSUME NEW C \in Tags, NEW P \in Tags, Tiled(C, P),
         NEW lo \in DOMAIN C, lo # Sentinel, NEW size \in Nat, size = C[lo].size,
         NEW C2, C2 = Marked(C, lo),
         NEW P2, P2 = Marked(P, lo + size)
  PROVE  MarkedWell(C, P, C2, P2, lo, size)
<1>0. /\ DOMAIN C \subseteq 0 .. Sentinel /\ DOMAIN P = DOMAIN C
      /\ 0 \in DOMAIN C /\ Sentinel \in DOMAIN C
      /\ C[Sentinel] = Word(0, TRUE) /\ P[0] = Word(0, TRUE)
  BY TiledFacts
<1>a. \A c \in DOMAIN C : C[c].size \in Nat /\ C[c] \in Words /\ P[c].size \in Nat /\ P[c] \in Words
  BY TiledFacts
<1>b. \A c \in DOMAIN C : c # Sentinel =>
        C[c].size > 0 /\ c + C[c].size \in DOMAIN C /\ P[c + C[c].size] = C[c]
  BY TiledFacts
<1>c. \A c \in DOMAIN C : c # 0 =>
        P[c].size > 0 /\ c - P[c].size \in DOMAIN C /\ C[c - P[c].size] = P[c]
  BY TiledFacts
<1>d. \A c, e \in DOMAIN C : c < e => c + C[c].size <= e
  BY TiledFacts
<1>1. PICK hi \in DOMAIN C : hi = lo + size /\ P[hi] = C[lo]
  BY <1>b
<1>2. lo \in Nat /\ hi \in Nat /\ lo < hi /\ lo # Sentinel /\ hi # 0 /\ size > 0
  BY <1>0, <1>1, <1>b
<1>3. PICK w : w = Word(size, TRUE)
  OBVIOUS
<1>4. w \in Words /\ w.size = size
  BY <1>3, WordFacts
<1>5. [C[lo] EXCEPT !.inuse = TRUE] = w /\ [P[hi] EXCEPT !.inuse = TRUE] = w
  <2>1. [C[lo] EXCEPT !.inuse = TRUE] = Word(C[lo].size, TRUE)
    BY <1>a, MarkedWord
  <2>4. [C[lo] EXCEPT !.inuse = TRUE] = w
    BY <2>1, <1>3
  <2> QED
    BY <2>4, <1>1
<1>6. DOMAIN C2 = DOMAIN C /\ DOMAIN P2 = DOMAIN C
  BY <1>0 DEF Marked
<1>7. \A o \in DOMAIN C : C2[o] = IF o = lo THEN w ELSE C[o]
  BY <1>5 DEF Marked
<1>8. \A o \in DOMAIN C : P2[o] = IF o = hi THEN w ELSE P[o]
  BY <1>0, <1>1, <1>5 DEF Marked
<1>9. C2 \in Tags /\ P2 \in Tags
  <2>1. DOMAIN C \in SUBSET (0 .. Sentinel)
    BY <1>0
  <2>2. C2 = [o \in DOMAIN C |-> C2[o]] /\ P2 = [o \in DOMAIN C |-> P2[o]]
    BY <1>0 DEF Marked
  <2>3. \A o \in DOMAIN C : C2[o] \in Words /\ P2[o] \in Words
    BY <1>4, <1>7, <1>8, <1>a
  <2>4. C2 \in [DOMAIN C -> Words] /\ P2 \in [DOMAIN C -> Words]
    BY <2>2, <2>3
  <2> QED
    BY <2>1, <2>4, TagsIntro
<1>10. C2[Sentinel] = Word(0, TRUE) /\ P2[0] = Word(0, TRUE)
  BY <1>0, <1>2, <1>7, <1>8
<1>11. ASSUME NEW c \in DOMAIN C, c # Sentinel
       PROVE  C2[c].size > 0 /\ c + C2[c].size \in DOMAIN C /\ P2[c + C2[c].size] = C2[c]
  <2>1. CASE c = lo
    BY <2>1, <1>1, <1>2, <1>4, <1>7, <1>8
  <2>2. CASE c # lo
    <3>1. c + C[c].size # hi
      <4>1. c < lo => c + C[c].size <= lo
        BY <1>d
      <4>2. lo < c => hi <= c
        BY <1>1, <1>d
      <4>3. c \in Nat /\ C[c].size \in Nat /\ C[c].size > 0
        BY <1>0, <1>11, <1>a, <1>b
      <4> QED
        BY <4>1, <4>2, <4>3, <2>2, <1>2
    <3> QED
      BY <3>1, <2>2, <1>7, <1>8, <1>11, <1>b
  <2> QED
    BY <2>1, <2>2
<1>12. ASSUME NEW c \in DOMAIN C, c # 0
       PROVE  P2[c].size > 0 /\ c - P2[c].size \in DOMAIN C /\ C2[c - P2[c].size] = P2[c]
  <2>1. CASE c = hi
    <3>1. hi - size = lo
      BY <1>1, <1>2
    <3>2. P2[c] = w /\ C2[lo] = w
      BY <2>1, <1>7, <1>8
    <3> QED
      BY <2>1, <3>1, <3>2, <1>2, <1>4
  <2>2. CASE c # hi
    <3>1. c - P[c].size # lo
      <4>1. c \in Nat /\ P[c].size \in Nat
        BY <1>0, <1>a
      <4>2. c - P[c].size = lo => c = hi
        BY <4>1, <1>1, <1>2, <1>12, <1>c
      <4> QED
        BY <4>2, <2>2
    <3> QED
      BY <3>1, <2>2, <1>7, <1>8, <1>12, <1>c
  <2> QED
    BY <2>1, <2>2
<1>13. ASSUME NEW c \in DOMAIN C, NEW e \in DOMAIN C, c < e
       PROVE  c + C2[c].size <= e
  BY <1>4, <1>7, <1>13, <1>d
<1>14. Same(C, P, C2, P2, lo, lo + size)
  BY <1>0, <1>1, <1>2, <1>6, <1>7, <1>8 DEF Same
<1> QED
  BY <1>0, <1>3, <1>6, <1>7, <1>9, <1>10, <1>11, <1>12, <1>13, <1>14 DEF Tiled, MarkedWell

-----------------------------------------------------------------------------
(* Lists of a bin                                                          *)

\* A list after unbin,
LEMMA RemovedOnce ==
  ASSUME NEW s \in Seq(Nat), Once(s), NEW p \in Nat, p \in DOMAIN s, NEW r, r = RemoveAt(s, p)
  PROVE  /\ r \in Seq(Nat) /\ Len(r) = Len(s) - 1 /\ Once(r)
         /\ Elements(r) = Elements(s) \ {s[p]}
<1>1. p \in 1 .. Len(s) /\ Len(s) \in Nat /\ \A i \in 1 .. Len(s) : s[i] \in Nat
  OBVIOUS
<1>2. PICK a : a = SubSeq(s, 1, p - 1)
  OBVIOUS
<1>3. PICK b : b = SubSeq(s, p + 1, Len(s))
  OBVIOUS
<1>4. a \in Seq(Nat) /\ Len(a) = p - 1 /\ \A i \in 1 .. p - 1 : a[i] = s[i]
  <2>1. \A i \in 1 .. p - 1 : s[i] \in Nat
    BY <1>1
  <2>2. \A i \in 1 .. (p - 1) - 1 + 1 : a[i] = s[1 + i - 1]
    BY <2>1, <1>1, <1>2, SubSeqProperties
  <2> QED
    BY <2>1, <2>2, <1>1, <1>2, SubSeqProperties
<1>5. b \in Seq(Nat) /\ Len(b) = Len(s) - p /\ \A i \in 1 .. Len(s) - p : b[i] = s[p + i]
  <2>1. PICK m \in Int : m = p + 1
    BY <1>1
  <2>2. PICK l \in Nat : l = Len(s)
    BY <1>1
  <2>3. \A i \in m .. l : s[i] \in Nat
    BY <2>1, <2>2, <1>1
  <2>4. b = SubSeq(s, m, l)
    BY <2>1, <2>2, <1>3
  <2>5. /\ b \in Seq(Nat) /\ Len(b) = IF m <= l THEN l - m + 1 ELSE 0
        /\ \A i \in 1 .. l - m + 1 : b[i] = s[m + i - 1]
    BY <2>3, <2>4, SubSeqProperties
  <2>6. p \in 1 .. l /\ l - m + 1 = l - p
    BY <2>1, <2>2, <1>1
  <2>7. Len(b) = l - p
    BY <2>5, <2>6, <2>1
  <2>8. \A i \in 1 .. l - p : m + i - 1 = p + i
    BY <2>1, <2>6
  <2> QED
    BY <2>2, <2>5, <2>6, <2>7, <2>8
<1>6. r = a \o b
  BY <1>2, <1>3 DEF RemoveAt
<1>7. /\ r \in Seq(Nat) /\ Len(r) = Len(s) - 1
      /\ \A i \in 1 .. Len(s) - 1 : r[i] = IF i < p THEN s[i] ELSE s[i + 1]
  <2>1. /\ r \in Seq(Nat) /\ Len(r) = Len(a) + Len(b)
        /\ \A i \in 1 .. Len(a) + Len(b) : r[i] = IF i <= Len(a) THEN a[i] ELSE b[i - Len(a)]
    <3>1. PICK u : u = a \o b
      OBVIOUS
    <3>2. /\ u \in Seq(Nat) /\ Len(u) = Len(a) + Len(b)
          /\ \A i \in 1 .. Len(a) + Len(b) : u[i] = IF i <= Len(a) THEN a[i] ELSE b[i - Len(a)]
      BY <1>4, <1>5, <3>1, ConcatProperties, Zenon
    <3> QED
      BY <1>6, <3>1, <3>2
  <2>2. Len(a) + Len(b) = Len(s) - 1
    BY <1>1, <1>4, <1>5
  <2>3. ASSUME NEW i \in 1 .. Len(s) - 1 PROVE r[i] = IF i < p THEN s[i] ELSE s[i + 1]
    <3>1. r[i] = IF i <= Len(a) THEN a[i] ELSE b[i - Len(a)]
      BY <2>1, <2>2
    <3>2. CASE i < p
      <4>1. i \in 1 .. p - 1 /\ i <= Len(a)
        BY <3>2, <1>1, <1>4
      <4> QED
        BY <3>1, <3>2, <4>1, <1>4
    <3>3. CASE ~(i < p)
      <4>0. i \in Int /\ p \in Int /\ Len(s) \in Int
        BY <1>1
      <4>1. i - (p - 1) \in 1 .. Len(s) - p
        BY <3>3, <4>0
      <4>2. ~(i <= Len(a)) /\ p + (i - (p - 1)) = i + 1 /\ i - Len(a) = i - (p - 1)
        BY <3>3, <4>0, <1>4
      <4> QED
        BY <3>1, <3>3, <4>1, <4>2, <1>5
    <3> QED
      BY <3>2, <3>3
  <2> QED
    BY <2>1, <2>2, <2>3
<1>8. DOMAIN r = 1 .. Len(s) - 1
  BY <1>7
<1>9. Once(r)
  <2>1. ASSUME NEW i \in 1 .. Len(s) - 1
        PROVE  \E j \in DOMAIN s : r[i] = s[j] /\ j \in Int /\ j = (IF i < p THEN i ELSE i + 1)
    <3>1. i \in 1 .. Len(s) /\ i + 1 \in 1 .. Len(s) /\ DOMAIN s = 1 .. Len(s) /\ i \in Int
      BY <1>1
    <3>2. CASE i < p
      <4>1. r[i] = s[i] /\ i \in DOMAIN s
        BY <3>1, <3>2, <1>7
      <4> QED
        BY <4>1, <3>1, <3>2
    <3>3. CASE ~(i < p)
      <4>1. r[i] = s[i + 1] /\ i + 1 \in DOMAIN s
        BY <3>1, <3>3, <1>7
      <4> QED
        BY <4>1, <3>1, <3>3
    <3> QED
      BY <3>2, <3>3
  <2>2. ASSUME NEW i \in DOMAIN r, NEW j \in DOMAIN r, r[i] = r[j] PROVE i = j
    <3>1. PICK x \in DOMAIN s : r[i] = s[x] /\ x \in Int /\ x = (IF i < p THEN i ELSE i + 1)
      BY <2>1, <1>8
    <3>2. PICK y \in DOMAIN s : r[j] = s[y] /\ y \in Int /\ y = (IF j < p THEN j ELSE j + 1)
      BY <2>1, <1>8
    <3>3. x = y
      BY <3>1, <3>2, <2>2 DEF Once
    <3>4. i \in Int /\ j \in Int
      BY <1>1, <1>8
    <3>5. CASE i < p /\ j < p
      BY <3>1, <3>2, <3>3, <3>5
    <3>6. CASE i < p /\ ~(j < p)
      <4>1. x = i /\ y = j + 1
        BY <3>1, <3>2, <3>6
      <4> QED
        BY <4>1, <3>3, <3>4, <3>6
    <3>7. CASE ~(i < p) /\ j < p
      <4>1. x = i + 1 /\ y = j
        BY <3>1, <3>2, <3>7
      <4> QED
        BY <4>1, <3>3, <3>4, <3>7
    <3>8. CASE ~(i < p) /\ ~(j < p)
      <4>1. x = i + 1 /\ y = j + 1
        BY <3>1, <3>2, <3>8
      <4> QED
        BY <4>1, <3>3, <3>4
    <3> QED
      BY <3>5, <3>6, <3>7, <3>8
  <2> QED
    BY <2>2 DEF Once
<1>10. ASSUME NEW c \in Elements(r) PROVE c \in Elements(s) \ {s[p]}
  <2>1. PICK i \in 1 .. Len(s) - 1 : c = r[i]
    BY <1>8, <1>10 DEF Elements
  <2>2. PICK j \in DOMAIN s : c = s[j] /\ j # p
    <3>2. i < p => i # p
      BY <1>1
    <3>3. ~(i < p) => i + 1 # p
      BY <1>1
    <3>4. i \in DOMAIN s /\ i + 1 \in DOMAIN s
      BY <1>1
    <3> QED
      BY <2>1, <3>2, <3>3, <3>4, <1>7
  <2> QED
    BY <2>2 DEF Elements, Once
<1>11. ASSUME NEW c \in Elements(s), c # s[p] PROVE c \in Elements(r)
  <2>1. PICK j \in DOMAIN s : c = s[j] /\ j # p
    BY <1>11 DEF Elements
  <2>2. PICK i \in 1 .. Len(s) - 1 : r[i] = s[j]
    <3>1. CASE j < p
      <4>1. j \in 1 .. Len(s) - 1
        BY <3>1, <1>1
      <4> QED
        BY <4>1, <3>1, <1>7
    <3>2. CASE j > p
      <4>1. j - 1 \in 1 .. Len(s) - 1 /\ ~(j - 1 < p) /\ (j - 1) + 1 = j
        BY <3>2, <1>1
      <4> QED
        BY <4>1, <1>7
    <3> QED
      BY <3>1, <3>2, <2>1, <1>1
  <2> QED
    BY <2>1, <2>2, <1>8 DEF Elements
<1> QED
  BY <1>7, <1>9, <1>10, <1>11

\* after a chunk is linked,
LEMMA AppendedOnce ==
  ASSUME NEW s \in Seq(Nat), Once(s), NEW c \in Nat, c \notin Elements(s),
         NEW r, r = Append(s, c)
  PROVE  r \in Seq(Nat) /\ Once(r) /\ Elements(r) = Elements(s) \cup {c}
<1>1. /\ r \in Seq(Nat) /\ Len(r) = Len(s) + 1 /\ r[Len(s) + 1] = c
      /\ \A i \in 1 .. Len(s) : r[i] = s[i]
  BY AppendProperties
<1>2. DOMAIN r = 1 .. Len(s) + 1 /\ DOMAIN s = 1 .. Len(s) /\ Len(s) \in Nat
  BY <1>1
<1>3. \A i \in DOMAIN s : s[i] # c
  BY DEF Elements
<1>4. \A i \in DOMAIN r : i = Len(s) + 1 \/ i \in DOMAIN s
  BY <1>2
<1>5. Once(r)
  BY <1>1, <1>2, <1>3, <1>4 DEF Once
<1>6. \A e : e \in Elements(r) <=> e \in Elements(s) \/ e = c
  BY <1>1, <1>2, <1>4 DEF Elements
<1> QED
  BY <1>1, <1>5, <1>6

\* and after pretrim has left the rest of its first chunk there.
LEMMA ReplacedOnce ==
  ASSUME NEW s \in Seq(Nat), Once(s), s # <<>>, NEW c \in Nat, c \notin Elements(s),
         NEW r, r = [s EXCEPT ![1] = c]
  PROVE  r \in Seq(Nat) /\ Once(r) /\ Elements(r) = (Elements(s) \ {Head(s)}) \cup {c}
<1>1. 1 \in DOMAIN s /\ DOMAIN r = DOMAIN s /\ Head(s) = s[1] /\ r \in Seq(Nat)
  OBVIOUS
<1>2. r[1] = c /\ \A i \in DOMAIN s : i # 1 => r[i] = s[i]
  BY <1>1
<1>3. \A i \in DOMAIN s : s[i] # c
  BY DEF Elements
<1>4. Once(r)
  BY <1>1, <1>2, <1>3 DEF Once
<1>5. \A e : e \in Elements(r) <=> (e \in Elements(s) /\ e # s[1]) \/ e = c
  BY <1>1, <1>2, <1>3 DEF Elements, Once
<1> QED
  BY <1>1, <1>4, <1>5

\* As many as the list is long.
LEMMA ListedCount ==
  ASSUME NEW s \in Seq(Nat), Once(s)
  PROVE  Cardinality(Elements(s)) = Len(s)
<1>1. DOMAIN s = 1 .. Len(s) /\ Len(s) \in Nat
  OBVIOUS
<1>2. s \in Bijection(1 .. Len(s), Elements(s))
  <2>1. s \in [1 .. Len(s) -> Elements(s)]
    BY <1>1 DEF Elements
  <2>2. \A a, b \in 1 .. Len(s) : s[a] = s[b] => a = b
    BY <1>1 DEF Once
  <2>3. \A e \in Elements(s) : \E a \in 1 .. Len(s) : s[a] = e
    BY <1>1 DEF Elements
  <2> QED
    BY <2>1, <2>2, <2>3 DEF Bijection, Injection, Surjection, IsInjective
<1>3. ExistsBijection(1 .. Len(s), Elements(s))
  BY <1>2 DEF ExistsBijection
<1>4. IsFiniteSet(1 .. Len(s)) /\ Cardinality(1 .. Len(s)) = Len(s)
  <2>0. PICK l : l = Len(s)
    OBVIOUS
  <2>1. PICK a \in Int : a = 1
    OBVIOUS
  <2>2. IsFiniteSet(a .. l) /\ Cardinality(a .. l) = IF a > l THEN 0 ELSE l - a + 1
    <3>1. l \in Int
      BY <2>0, <1>1
    <3> QED
      BY <3>1, FS_Interval, Zenon
  <2> QED
    BY <2>0, <2>1, <2>2, <1>1
<1> QED
  BY <1>3, <1>4, FS_Bijection

\* Of two elements one stays when the other is removed.
LEMMA OneLeft ==
  ASSUME NEW s \in Seq(Nat), Once(s), NEW p \in DOMAIN s
  PROVE  Len(s) # 1 => \E c \in Elements(s) : c # s[p]
<1>1. SUFFICES ASSUME Len(s) # 1 PROVE \E c \in Elements(s) : c # s[p]
  OBVIOUS
<1>2. PICK q \in DOMAIN s : q # p
  <2>1. Len(s) \in Nat /\ DOMAIN s = 1 .. Len(s) /\ p \in 1 .. Len(s)
    OBVIOUS
  <2>2. 1 \in DOMAIN s /\ 2 \in DOMAIN s
    BY <1>1, <2>1
  <2> QED
    BY <2>2
<1> QED
  BY <1>2 DEF Elements, Once

\* A list of one.
LEMMA OnlyOne ==
  ASSUME NEW s \in Seq(Nat), NEW p \in DOMAIN s, Len(s) = 1
  PROVE  Elements(s) = {s[p]}
<1>1. DOMAIN s = {1} /\ p = 1
  OBVIOUS
<1> QED
  BY <1>1 DEF Elements

\* A set of numbers has a least one.
LEMMA LeastNat ==
  ASSUME NEW S \in SUBSET Nat, S # {}
  PROVE  \E x \in S : \A y \in S : x <= y
<1> DEFINE Below == {0 .. m : m \in S}
<1>1. Below \subseteq FiniteSubsetsOf(Nat) /\ Below # {}
  <2>1. \A m \in S : 0 .. m \subseteq Nat /\ IsFiniteSet(0 .. m)
    <3>1. \A m \in S : 0 \in Int /\ m \in Int
      OBVIOUS
    <3>2. QED
      BY <3>1, FS_Interval
  <2>2. QED
    BY <2>1 DEF FiniteSubsetsOf
<1>2. PICK X \in Below : \A Y \in Below : ~(<<Y, X>> \in StrictSubsetOrdering(Nat))
  <2> HIDE DEF Below
  <2>1. QED
    BY <1>1, FS_StrictSubsetOrderingWellFounded, WFMin
<1>3. PICK m \in S : X = 0 .. m
  BY <1>2
<1>4. ASSUME NEW y \in S, ~(m <= y) PROVE FALSE
  <2>1. 0 .. y \in Below /\ 0 .. y \subseteq Nat /\ 0 .. m \subseteq Nat
    OBVIOUS
  <2>2. 0 .. y \subseteq 0 .. m /\ 0 .. y # 0 .. m
    BY <1>4
  <2>3. <<0 .. y, X>> \in StrictSubsetOrdering(Nat)
    BY <1>3, <2>1, <2>2 DEF StrictSubsetOrdering
  <2>4. QED
    BY <1>2, <2>1, <2>3
<1>5. QED
  BY <1>4

-----------------------------------------------------------------------------
(* What a step leaves alone                                                *)

\* Types of the locals,
LEMMA LocFacts ==
  ASSUME Types, NEW t \in Threads
  PROVE  /\ pc[t] \in PCs /\ loc[t] \in Locals
         /\ loc[t].want \in Nat /\ loc[t].node \in Nodes \cup {NoNode} /\ loc[t].self \in Nat
         /\ loc[t].next \in Nat /\ loc[t].size \in Nat /\ loc[t].k \in Nat
         /\ loc[t].init \in BOOLEAN /\ loc[t].then \in {"idle", "served", "shrunk", "grown"}
         /\ loc[t].old \in Blocks \cup {None} /\ loc[t].res \in Blocks \cup {None}
<1>1. pc[t] \in PCs /\ loc[t] \in Locals
  BY DEF Types
<1> QED
  BY <1>1 DEF Locals

\* and of the words of a node.
LEMMA TagTypes ==
  ASSUME Types, NEW n \in Nodes
  PROVE  csize[n] \in Tags /\ psize[n] \in Tags
  BY DEF Types

\* A node with chunks has a tiled arena.
LEMMA ArenaFacts ==
  ASSUME IInv, NEW n \in Nodes
  PROVE  /\ \A c \in Heads(n) : mapped[n] /\ c \in Nat
         /\ mapped[n] => csize[n] \in Tags /\ psize[n] \in Tags /\ Tiled(csize[n], psize[n])
<1>1. csize[n] \in Tags /\ psize[n] \in Tags /\ Arena(n) /\ mapped[n] \in BOOLEAN
  BY TagTypes DEF IInv, Types
<1>2. DOMAIN csize[n] \subseteq 0 .. Sentinel
  BY <1>1, TagsFacts
<1> QED
  BY <1>1, <1>2 DEF Arena, Heads

\* A chunk, the one after it and the one before it.
LEMMA ChunkFacts ==
  ASSUME IInv, NEW n \in Nodes, NEW c \in Heads(n)
  PROVE  /\ mapped[n] /\ c \in Nat /\ csize[n][c].size \in Nat /\ csize[n][c].inuse \in BOOLEAN
         /\ psize[n][c].size \in Nat /\ psize[n][c].inuse \in BOOLEAN
         /\ c # Sentinel => /\ csize[n][c].size > 0 /\ c + csize[n][c].size \in Heads(n)
                            /\ psize[n][c + csize[n][c].size] = csize[n][c]
         /\ c # 0 => /\ psize[n][c].size > 0 /\ c - psize[n][c].size \in Heads(n)
                     /\ csize[n][c - psize[n][c].size] = psize[n][c]
         /\ \A e \in Heads(n) : c < e => c + csize[n][c].size <= e
<1>1. mapped[n] /\ c \in Nat /\ csize[n] \in Tags /\ psize[n] \in Tags /\ Tiled(csize[n], psize[n])
  BY ArenaFacts
<1>2. c \in DOMAIN csize[n] /\ Heads(n) = DOMAIN csize[n]
  BY DEF Heads
<1>3. /\ csize[n][c].size \in Nat /\ csize[n][c].inuse \in BOOLEAN
      /\ psize[n][c].size \in Nat /\ psize[n][c].inuse \in BOOLEAN
  BY <1>1, <1>2, TiledFacts
<1>a. PICK C \in Tags, P \in Tags : C = csize[n] /\ P = psize[n]
  BY <1>1
<1>b. Tiled(C, P)
  BY <1>1, <1>a
<1>4. \A e \in DOMAIN csize[n] : e # Sentinel =>
        /\ csize[n][e].size > 0 /\ e + csize[n][e].size \in DOMAIN csize[n]
        /\ psize[n][e + csize[n][e].size] = csize[n][e]
  <2>1. \A e \in DOMAIN C : e # Sentinel =>
          C[e].size > 0 /\ e + C[e].size \in DOMAIN C /\ P[e + C[e].size] = C[e]
    BY <1>b, TiledFacts
  <2> QED
    BY <2>1, <1>a, SMTT(60)
<1>5. \A e \in DOMAIN csize[n] : e # 0 =>
        /\ psize[n][e].size > 0 /\ e - psize[n][e].size \in DOMAIN csize[n]
        /\ csize[n][e - psize[n][e].size] = psize[n][e]
  <2>1. \A e \in DOMAIN C : e # 0 =>
          P[e].size > 0 /\ e - P[e].size \in DOMAIN C /\ C[e - P[e].size] = P[e]
    BY <1>b, TiledFacts
  <2> QED
    BY <2>1, <1>a, SMTT(60)
<1>6. \A e \in DOMAIN csize[n] : c < e => c + csize[n][c].size <= e
  BY <1>1, <1>2, TiledFacts
<1> QED
  BY <1>1, <1>2, <1>3, <1>4, <1>5, <1>6

\* The first word and the sentinel.
LEMMA EndFacts ==
  ASSUME IInv, NEW n \in Nodes, mapped[n]
  PROVE  /\ 0 \in Heads(n) /\ Sentinel \in Heads(n) /\ Heads(n) \subseteq 0 .. Sentinel
         /\ csize[n][Sentinel] = Word(0, TRUE) /\ psize[n][0] = Word(0, TRUE)
         /\ csize[n][Sentinel].inuse = TRUE /\ psize[n][0].inuse = TRUE
<1>1. csize[n] \in Tags /\ psize[n] \in Tags /\ Tiled(csize[n], psize[n])
  BY ArenaFacts
<1>2. /\ 0 \in DOMAIN csize[n] /\ Sentinel \in DOMAIN csize[n] /\ DOMAIN csize[n] \subseteq 0 .. Sentinel
      /\ csize[n][Sentinel] = Word(0, TRUE) /\ psize[n][0] = Word(0, TRUE)
  BY <1>1, TiledFacts
<1> QED
  BY <1>2, WordFacts DEF Heads

\* Threads other than t go on as before.
Others(t) == \A u \in Threads \ {t} : pc'[u] = pc[u] /\ loc'[u] = loc[u]
KeepLocks(t) ==
  \A u \in Threads \ {t} : \A l \in DOMAIN owner : owner[l] = u => l \in DOMAIN owner' /\ owner'[l] = u

\* The tags of node n change from lo to hi only.
Within(n, lo, hi) ==
  /\ \A m \in Nodes \ {n} : csize'[m] = csize[m] /\ psize'[m] = psize[m]
  /\ csize'[n] \in Tags /\ psize'[n] \in Tags
  /\ Same(csize[n], psize[n], csize'[n], psize'[n], lo, hi)

\* Other threads hold what they held.
OthersKept(t) ==
  \A u \in Threads \ {t} :
    /\ Grip(u)'
    /\ \A m \in Nodes : \A c \in Nat :
         (Holds(u, m, c)' <=> Holds(u, m, c)) /\ (Links(u, m, c)' <=> Links(u, m, c))

\* What a thread holds is not empty.
LEMMA HeldFacts ==
  ASSUME IInv, NEW u \in Threads, pc[u] \in Holding
  PROVE  /\ loc[u].node \in Nodes /\ mapped[loc[u].node]
         /\ loc[u].self \in Heads(loc[u].node) /\ Upto(u) \in Heads(loc[u].node)
         /\ loc[u].self # Sentinel /\ loc[u].self \in Nat /\ Upto(u) \in Nat
         /\ loc[u].self < Upto(u)
         /\ Holds(u, loc[u].node, loc[u].self)
         /\ pc[u] # "trim" => Upto(u) = loc[u].next /\ loc[u].next = loc[u].self + loc[u].size
                              /\ loc[u].size > 0
<1>1. /\ loc[u].node \in Nodes /\ mapped[loc[u].node] /\ loc[u].self \in Heads(loc[u].node)
      /\ loc[u].self # Sentinel /\ Upto(u) \in Heads(loc[u].node)
      /\ pc[u] # "trim" => loc[u].size > 0 /\ loc[u].next = loc[u].self + loc[u].size
  BY DEF IInv, Grip
<1>2. loc[u].self \in Nat /\ loc[u].size \in Nat /\ loc[u].next \in Nat
  BY LocFacts DEF IInv
<1>3. Upto(u) \in Nat
  BY <1>1, ArenaFacts
<1>4. csize[loc[u].node][loc[u].self].size \in Nat /\ csize[loc[u].node][loc[u].self].size > 0
  BY <1>1, ChunkFacts
<1>5. pc[u] # "trim" => Upto(u) = loc[u].next
  BY DEF Upto
<1>6. pc[u] = "trim" => Upto(u) = loc[u].self + csize[loc[u].node][loc[u].self].size
  BY DEF Upto
<1>7. loc[u].self < Upto(u)
  BY <1>1, <1>2, <1>4, <1>5, <1>6
<1>8. Holds(u, loc[u].node, loc[u].self)
  BY <1>1, <1>2, <1>7 DEF Holds
<1> QED
  BY <1>1, <1>2, <1>3, <1>5, <1>7, <1>8

\* Chunks that one does not hold are before or after those that one holds.
LEMMA RegionApart ==
  ASSUME IInv, NEW u \in Threads, NEW n \in Nodes, pc[u] \in Holding, loc[u].node = n,
         NEW lo \in Heads(n), NEW hi \in Heads(n), lo < hi,
         \A c \in Heads(n) : lo <= c /\ c < hi => ~Holds(u, n, c)
  PROVE  Upto(u) <= lo \/ hi <= loc[u].self
<1>1. loc[u].self \in Heads(n) /\ loc[u].self \in Nat /\ Upto(u) \in Nat /\ lo \in Nat /\ hi \in Nat
  BY HeldFacts, ArenaFacts
<1>2. ~(lo <= loc[u].self /\ loc[u].self < hi)
  BY HeldFacts
<1>3. ~(loc[u].self <= lo /\ lo < Upto(u))
  BY <1>1 DEF Holds
<1> QED
  BY <1>1, <1>2, <1>3

\* What a step does from lo to hi, where others hold nothing, does not concern them.
LEMMA OthersGrip ==
  ASSUME IInv, NEW t \in Threads, NEW n \in Nodes, NEW lo \in Heads(n), NEW hi \in Heads(n), lo < hi,
         mapped' = mapped, Others(t), Within(n, lo, hi),
         \A u \in Threads \ {t} : \A c \in Heads(n) :
           lo <= c /\ c < hi => ~Holds(u, n, c) /\ ~Links(u, n, c),
         \/ \A u \in Threads \ {t} : pc[u] = "publish" => loc[u].node # n
         \/ /\ csize[n][lo].inuse => csize'[n][lo].inuse
            /\ psize[n][hi].inuse => psize'[n][hi].inuse
  PROVE  OthersKept(t)
<1>0. /\ \A o \in Nat : o <= lo \/ o >= hi => (o \in Heads(n)' <=> o \in Heads(n))
      /\ \A o \in Heads(n) : o < lo \/ o >= hi => csize'[n][o] = csize[n][o]
      /\ \A o \in Heads(n) : o <= lo \/ o > hi => psize'[n][o] = psize[n][o]
  BY DEF Within, Same, Heads
<1>a. \A m \in Nodes \ {n} : csize'[m] = csize[m] /\ psize'[m] = psize[m] /\ Heads(m)' = Heads(m)
  BY DEF Within, Heads
<1>b. lo \in Nat /\ hi \in Nat
  BY ArenaFacts
<1>c. \A m \in Nodes : \A c \in Heads(m) : c \in Nat
  BY ArenaFacts
<1> SUFFICES ASSUME NEW u \in Threads \ {t}
             PROVE  /\ Grip(u)'
                    /\ \A m \in Nodes : \A c \in Nat : /\ Holds(u, m, c)' <=> Holds(u, m, c)
                                                       /\ Links(u, m, c)' <=> Links(u, m, c)
  BY DEF OthersKept
<1>1. pc'[u] = pc[u] /\ loc'[u] = loc[u]
  BY DEF Others
<1>2. Grip(u)
  BY DEF IInv
<1>3. \A m \in Nodes : \A c \in Nat : Links(u, m, c)' <=> Links(u, m, c)
  BY <1>1 DEF Links
<1>4. CASE loc[u].node # n
  <2>1. loc[u].node \in Nodes =>
          /\ csize'[loc[u].node] = csize[loc[u].node] /\ psize'[loc[u].node] = psize[loc[u].node]
          /\ Heads(loc[u].node)' = Heads(loc[u].node)
    BY <1>1, <1>4, <1>a DEF Heads
  <2>2. loc[u].node \in Nodes => Upto(u)' = Upto(u)
    BY <1>1, <2>1 DEF Upto
  <2>3. \A m \in Nodes : \A c \in Nat : Holds(u, m, c)' <=> Holds(u, m, c)
    BY <1>1, <2>1, <2>2 DEF Holds
  <2>4. Grip(u)'
    <3>1. CASE pc[u] \notin Holding \cup {"link"}
      BY <3>1, <1>1 DEF Grip, Holding
    <3>2. CASE pc[u] \in Holding \cup {"link"}
      <4>1. loc[u].node \in Nodes
        BY <3>2, <1>2 DEF Grip
      <4> QED
        BY <4>1, <1>1, <1>2, <2>1, <2>2 DEF Grip, Between
    <3> QED
      BY <3>1, <3>2
  <2> QED
    BY <1>3, <2>3, <2>4
<1>5. CASE loc[u].node = n /\ pc[u] \in Holding
  <2>1. /\ loc[u].self \in Heads(n) /\ Upto(u) \in Heads(n) /\ loc[u].self \in Nat /\ Upto(u) \in Nat
        /\ loc[u].self < Upto(u) /\ loc[u].self # Sentinel /\ mapped[n]
        /\ pc[u] # "trim" => Upto(u) = loc[u].next /\ loc[u].size > 0
                             /\ loc[u].next = loc[u].self + loc[u].size
    BY <1>5, HeldFacts
  <2>2. Upto(u) <= lo \/ hi <= loc[u].self
    BY <1>5, RegionApart
  <2>3. csize'[n][loc[u].self] = csize[n][loc[u].self]
    BY <2>1, <2>2, <1>0, <1>b
  <2>4. Upto(u)' = Upto(u)
    BY <2>3, <1>1, <1>5 DEF Upto
  <2>5. loc[u].self \in Heads(n)' /\ Upto(u) \in Heads(n)'
    BY <2>1, <2>2, <1>0, <1>b
  <2>6. \A c \in Nat : loc[u].self <= c /\ c < Upto(u) =>
          /\ c \in Heads(n)' <=> c \in Heads(n)
          /\ c \in Heads(n) => csize'[n][c] = csize[n][c]
    BY <2>1, <2>2, <1>0, <1>b
  <2>7. \A m \in Nodes : \A c \in Nat : Holds(u, m, c)' <=> Holds(u, m, c)
    BY <2>4, <2>6, <1>1, <1>5 DEF Holds
  <2>8. \A c \in Heads(n)' : c \in Nat
    BY TagsFacts DEF Within, Heads
  <2>9. \A c \in Heads(n)' : loc[u].self <= c /\ c < Upto(u) => csize'[n][c].inuse
    BY <2>6, <2>8, <1>2, <1>5 DEF Grip
  <2>10. pc[u] = "trim" => loc[u].want <= csize'[n][loc[u].self].size
    BY <2>3, <1>2, <1>5 DEF Grip
  <2>11. pc[u] = "publish" => psize'[n][loc[u].self].inuse /\ csize'[n][loc[u].next].inuse
    <3>1. SUFFICES ASSUME pc[u] = "publish"
                   PROVE  psize'[n][loc[u].self].inuse /\ csize'[n][loc[u].next].inuse
      OBVIOUS
    <3>2. psize[n][loc[u].self].inuse /\ csize[n][loc[u].next].inuse /\ Upto(u) = loc[u].next
      BY <3>1, <1>2, <1>5, <2>1 DEF Grip, Between
    <3>3. /\ csize[n][lo].inuse => csize'[n][lo].inuse
          /\ psize[n][hi].inuse => psize'[n][hi].inuse
      BY <3>1, <1>5
    <3>4. loc[u].self # hi => psize'[n][loc[u].self] = psize[n][loc[u].self]
      BY <2>1, <2>2, <1>0, <1>b
    <3>5. loc[u].next # lo => csize'[n][loc[u].next] = csize[n][loc[u].next]
      BY <3>2, <2>1, <2>2, <1>0, <1>b
    <3> QED
      BY <3>2, <3>3, <3>4, <3>5
  <2>12. Grip(u)'
    BY <2>1, <2>4, <2>5, <2>9, <2>10, <2>11, <1>1, <1>5 DEF Grip, Between, Holding
  <2> QED
    BY <1>3, <2>7, <2>12
<1>6. CASE loc[u].node = n /\ pc[u] \notin Holding
  <2>1. \A m \in Nodes : \A c \in Nat : Holds(u, m, c)' <=> Holds(u, m, c)
    BY <1>1, <1>6 DEF Holds
  <2>2. CASE pc[u] = "link"
    <3>1. /\ loc[u].self \in Heads(n) /\ loc[u].self # Sentinel /\ mapped[n]
          /\ csize[n][loc[u].self] = Word(loc[u].size, FALSE)
      BY <2>2, <1>2, <1>6 DEF Grip
    <3>2. Links(u, n, loc[u].self)
      BY <2>2, <1>6 DEF Links
    <3>3. loc[u].self \in Nat
      BY <3>1, <1>c
    <3>4. loc[u].self < lo \/ loc[u].self >= hi
      BY <3>1, <3>2, <3>3, <1>b
    <3>5. loc[u].self \in Heads(n)' /\ csize'[n][loc[u].self] = csize[n][loc[u].self]
      <4>1. \A c \in Nat : c < lo \/ c >= hi => c <= lo \/ c >= hi
        BY <1>b
      <4> QED
        BY <4>1, <3>1, <3>3, <3>4, <1>0
    <3>6. Grip(u)'
      BY <3>1, <3>5, <2>2, <1>1, <1>6 DEF Grip, Holding
    <3> QED
      BY <3>6, <2>1, <1>3
  <2>3. CASE pc[u] # "link"
    <3>1. Grip(u)'
      BY <2>3, <1>1, <1>6 DEF Grip, Holding
    <3> QED
      BY <3>1, <2>1, <1>3
  <2> QED
    BY <2>2, <2>3
<1> QED
  BY <1>4, <1>5, <1>6

\* The locals of other threads, and the locks they hold, stay in order.
LEMMA OthersStage ==
  ASSUME IInv, NEW t \in Threads, Others(t), KeepLocks(t),
         \A n \in Nodes : mapped[n] => mapped'[n]
  PROVE  \A u \in Threads \ {t} : Stage(u)' /\ Locks(u)'
<1> SUFFICES ASSUME NEW u \in Threads \ {t} PROVE Stage(u)' /\ Locks(u)'
  OBVIOUS
<1>1. pc'[u] = pc[u] /\ loc'[u] = loc[u] /\ Stage(u) /\ Locks(u)
  BY DEF Others, IInv
<1>2. Stage(u)'
  BY <1>1 DEF Stage, Searches
<1>3. \A l : Owns(u, l) => Owns(u, l)'
  BY DEF KeepLocks, Owns
<1>4. /\ pc[u] \in {"lockFree", "publish", "link"} =>
           Owns(u, BinLock(loc[u].node, BinIndex(loc[u].size)))'
      /\ pc[u] = "publish" => Owns(u, FreeLock(loc[u].node))'
      /\ loc[u].init => loc[u].node \in Nodes /\ Owns(u, InitLock(loc[u].node))'
  BY <1>1, <1>3 DEF Locks
<1>5. /\ loc[u].init /\ pc[u] # "expand" => mapped'[loc[u].node]
      /\ pc[u] = "expand" /\ ~loc[u].init => mapped'[loc[u].node]
  <2>1. pc[u] = "expand" => loc[u].node \in Nodes
    BY <1>1 DEF Stage, Searches
  <2> QED
    BY <1>1, <2>1 DEF Locks
<1>6. Locks(u)'
  BY <1>1, <1>4, <1>5 DEF Locks
<1> QED
  BY <1>2, <1>6

\* Nobody is concerned by a step that changes no tags.
LEMMA OthersUntouched ==
  ASSUME IInv, NEW t \in Threads, Others(t), mapped' = mapped, csize' = csize, psize' = psize
  PROVE  OthersKept(t)
<1> SUFFICES ASSUME NEW u \in Threads \ {t}
             PROVE  /\ Grip(u)'
                    /\ \A m \in Nodes : \A c \in Nat : /\ Holds(u, m, c)' <=> Holds(u, m, c)
                                                       /\ Links(u, m, c)' <=> Links(u, m, c)
  BY DEF OthersKept
<1>1. pc'[u] = pc[u] /\ loc'[u] = loc[u] /\ Grip(u)
  BY DEF Others, IInv
<1>2. Upto(u)' = Upto(u)
  BY <1>1 DEF Upto
<1>3. Grip(u)'
  BY <1>1, <1>2 DEF Grip, Between, Heads
<1>4. \A m \in Nodes : \A c \in Nat : /\ Holds(u, m, c)' <=> Holds(u, m, c)
                                      /\ Links(u, m, c)' <=> Links(u, m, c)
  BY <1>1, <1>2 DEF Holds, Links, Heads
<1> QED
  BY <1>3, <1>4

\* What t holds afterwards it held before, or nobody else did.
LEMMA ApartKept ==
  ASSUME IInv, NEW t \in Threads, OthersKept(t),
         \A m \in Nodes : \A c \in Heads(m)' : c \in Nat,
         \A m \in Nodes : \A c \in Nat :
           Holds(t, m, c)' => Holds(t, m, c) \/ \A u \in Threads \ {t} : ~Holds(u, m, c)
  PROVE  Apart'
<1> SUFFICES ASSUME NEW u \in Threads, NEW v \in Threads, NEW m \in Nodes, NEW c \in Heads(m)',
                    Holds(u, m, c)', Holds(v, m, c)'
             PROVE  u = v
  BY DEF Apart
<1>1. c \in Nat
  OBVIOUS
<1>2. \A w \in Threads \ {t} : Holds(w, m, c)' => Holds(w, m, c)
  BY <1>1 DEF OthersKept
<1>3. \A w \in Threads : Holds(w, m, c) => c \in Heads(m)
  BY DEF Holds
<1>4. \A w, x \in Threads : Holds(w, m, c) /\ Holds(x, m, c) => w = x
  BY <1>3 DEF IInv, Apart
<1> QED
  BY <1>1, <1>2, <1>4

\* The blocks given out stay the same: t keeps what it works on or gives it up.
BlocksKept(t) ==
  /\ live' = live
  /\ loc'[t].old \in {loc[t].old, None}
  /\ \/ loc'[t].res = loc[t].res /\ loc'[t].then = loc[t].then
     \/ loc'[t].res = None /\ ~Pending(t)

\* A step in which no block is given out or taken back.
LEMMA GivenKept ==
  ASSUME IInv, NEW t \in Threads, Others(t), BlocksKept(t)
  PROVE  Given' = Given /\ Distinct' /\ Private'
<1>1. \A u \in Threads : /\ loc'[u].old \in {loc[u].old, None}
                         /\ \/ loc'[u].res = loc[u].res /\ loc'[u].then = loc[u].then
                            \/ loc'[u].res = None /\ ~Pending(u)
  BY DEF Others, BlocksKept
<1>2. live' = live
  BY DEF BlocksKept
<1>3. \A u \in Threads : /\ Pending(u)' <=> Pending(u)
                         /\ Pending(u) => loc'[u].res = loc[u].res
  BY <1>1 DEF Pending
<1>4. Given' = Given
  BY <1>2, <1>3 DEF Given
<1>5. Distinct'
  BY <1>4 DEF IInv, Distinct
<1>6. Private'
  <2>1. Private
    BY DEF IInv
  <2>2. \A u \in Threads : loc'[u].old # None => loc'[u].old = loc[u].old
    BY <1>1
  <2>3. \A u \in Threads : loc'[u].res # None =>
          loc'[u].res = loc[u].res /\ loc'[u].then = loc[u].then
    BY <1>1
  <2>4. \A u \in Threads : loc'[u].old # None => loc'[u].old \in live'
    BY <1>2, <2>1, <2>2 DEF Private
  <2>5. \A u \in Threads : Pending(u)' => loc'[u].res \notin live'
    BY <1>2, <1>3, <2>1 DEF Private
  <2>6. \A u \in Threads : loc'[u].then = "idle" /\ loc'[u].res # None => loc'[u].res \in live'
    BY <1>2, <2>1, <2>3 DEF Private
  <2>7. \A u, v \in Threads : u # v =>
          /\ loc'[u].old # None => loc'[v].old # loc'[u].old /\ loc'[v].res # loc'[u].old
          /\ loc'[u].res # None => loc'[v].res # loc'[u].res
    BY <2>1, <2>2, <2>3 DEF Private
  <2> QED
    BY <2>4, <2>5, <2>6, <2>7 DEF Private
<1> QED
  BY <1>4, <1>5, <1>6

\* A block that was given out is one.
LEMMA GivenFacts ==
  ASSUME IInv, NEW b \in Given
  PROVE  /\ b \in Blocks /\ b.heap \in HeapNames /\ b.at \in Nat /\ b.size \in Nat \ {0}
         /\ b # None /\ Placed(b)
<1>1. b \in Blocks
  <2>1. \A u \in Threads : Pending(u) => loc[u].res \in Blocks
    BY LocFacts DEF IInv, Pending
  <2>2. live \subseteq Blocks
    BY DEF IInv, Types
  <2> QED
    BY <2>1, <2>2 DEF Given
<1> QED
  BY <1>1, Names DEF Blocks, IInv

\* A block that stays given out, at a chunk that stays.
LEMMA PlacedKept ==
  ASSUME IInv, NEW t \in Threads, Others(t), OthersKept(t), NEW b \in Given,
         \A n \in Nodes : mapped[n] => mapped'[n],
         b.heap \in Nodes => b.at \in Heads(b.heap)' /\ csize'[b.heap][b.at] = csize[b.heap][b.at],
         b.heap \in Nodes /\ Holds(t, b.heap, b.at)' => Subject(t)' = b,
         b.heap \in Nodes /\ Subject(t) = b => \/ Subject(t)' = b
                                               \/ csize[b.heap][b.at].size = b.size
  PROVE  Placed(b)'
<1>1. Placed(b) /\ b.at \in Nat
  BY GivenFacts
<1>2. CASE b.heap \notin Nodes
  BY <1>1, <1>2 DEF Placed
<1>3. CASE b.heap \in Nodes
  <2>1. \A u \in Threads \ {t} : Subject(u)' = Subject(u)
    BY DEF Others, Subject
  <2>2. \A u \in Threads \ {t} : Holds(u, b.heap, b.at)' => Holds(u, b.heap, b.at)
    BY <1>1, <1>3 DEF OthersKept
  <2>3. \A u \in Threads : Holds(u, b.heap, b.at)' => Subject(u)' = b
    BY <1>1, <1>3, <2>1, <2>2 DEF Placed
  <2>4. (\A u \in Threads : Subject(u)' # b) => csize[b.heap][b.at].size = b.size
    BY <1>1, <1>3, <2>1 DEF Placed
  <2> QED
    BY <1>1, <1>3, <2>3, <2>4 DEF Placed
<1> QED
  BY <1>2, <1>3

\* A node whose bins and free chunks stay as they are.
LEMMA BinnedSame ==
  ASSUME IInv, NEW n \in Nodes, bins'[n] = bins[n], binmap'[n] = binmap[n], Free(n)' = Free(n),
         \A c \in Free(n) : csize'[n][c] = csize[n][c],
         \A u \in Threads : \A c \in Nat : Links(u, n, c)' <=> Links(u, n, c)
  PROVE  Binned(n)'
<1>1. Binned(n) /\ \A c \in Free(n) : c \in Nat
  BY ArenaFacts DEF IInv, Free, Heads
<1>2. \A i \in Bins : Once(bins'[n][i])
  BY <1>1 DEF Binned
<1>3. \A i \in Bins : \A c \in Elements(bins'[n][i]) :
        /\ c \in Free(n)' /\ BinIndex(csize'[n][c].size) = i
        /\ \A u \in Threads : ~Links(u, n, c)'
  BY <1>1 DEF Binned
<1>4. \A c \in Free(n)' : \/ c \in Elements(bins'[n][BinIndex(csize'[n][c].size)])
                          \/ \E u \in Threads : Links(u, n, c)'
  BY <1>1 DEF Binned
<1>5. \A i \in Bins : i \in binmap'[n] <=> \E c \in Free(n)' : BinIndex(csize'[n][c].size) = i
  BY <1>1 DEF Binned
<1>6. \A c \in Free(n)' : c + csize'[n][c].size \notin Free(n)'
  BY <1>1 DEF Binned
<1> QED
  BY <1>2, <1>3, <1>4, <1>5, <1>6 DEF Binned

\* A step of t after which everything about t and the arenas holds.
LEMMA Assemble ==
  ASSUME IInv, NEW t \in Threads, Others(t), KeepLocks(t), OthersKept(t),
         \A n \in Nodes : mapped[n] => mapped'[n],
         Types', \A n \in Nodes : Arena(n)' /\ Covered(n)' /\ Binned(n)',
         Stage(t)', Locks(t)', Grip(t)', Apart', \A b \in Given' : Placed(b)', Distinct', Private'
  PROVE  IInv'
<1>1. \A u \in Threads \ {t} : Stage(u)' /\ Locks(u)'
  BY OthersStage
<1>2. \A u \in Threads \ {t} : Grip(u)'
  BY DEF OthersKept
<1>3. \A u \in Threads : Stage(u)' /\ Locks(u)' /\ Grip(u)'
  BY <1>1, <1>2
<1> QED
  BY <1>3 DEF IInv

-----------------------------------------------------------------------------
(* Steps that change a thread and the locks only                           *)

\* The next place of a thread,
LEMMA Went ==
  ASSUME Types, NEW t \in Threads, NEW l \in PCs, Goto(t, l)
  PROVE  /\ pc' \in [Threads -> PCs] /\ pc'[t] = l
         /\ \A u \in Threads \ {t} : pc'[u] = pc[u]
  BY DEF Types, Goto

\* its next locals,
LEMMA Became ==
  ASSUME Types, NEW t \in Threads, NEW r \in Locals, Become(t, r)
  PROVE  /\ loc' \in [Threads -> Locals] /\ loc'[t] = r
         /\ \A u \in Threads \ {t} : loc'[u] = loc[u]
  BY DEF Types, Become

\* and those it has outside of calls.
LEMMA IdleType ==
  /\ Idle \in Locals
  /\ Idle.want = 0 /\ Idle.node = NoNode /\ Idle.self = 0 /\ Idle.next = 0 /\ Idle.size = 0
  /\ Idle.k = 0 /\ Idle.init = FALSE /\ Idle.then = "idle" /\ Idle.old = None /\ Idle.res = None
  BY DEF Idle, Locals

\* Locking takes no lock from others,
LEMMA Locked ==
  ASSUME Types, NEW t \in Threads, NEW l, Lock(t, l)
  PROVE  /\ KeepLocks(t) /\ \A m \in DOMAIN owner' : owner'[m] \in Threads
         /\ Owns(t, l)' /\ \A m : Owns(t, m) => Owns(t, m)'
  BY DEF Types, Lock, Unlocked, KeepLocks, Owns

\* nor does unlocking one's own,
LEMMA Released ==
  ASSUME Types, NEW t \in Threads, NEW L, Unlock(L), \A l \in L : Owns(t, l)
  PROVE  /\ KeepLocks(t) /\ \A m \in DOMAIN owner' : owner'[m] \in Threads
         /\ \A m : m \notin L /\ Owns(t, m) => Owns(t, m)'
  BY DEF Types, Unlock, KeepLocks, Owns

\* nor doing neither.
LEMMA LocksUntouched ==
  ASSUME Types, NEW t \in Threads, UNCHANGED owner
  PROVE  /\ KeepLocks(t) /\ \A m \in DOMAIN owner' : owner'[m] \in Threads
         /\ \A m : Owns(t, m) => Owns(t, m)'
  BY DEF Types, KeepLocks, Owns

\* A step that changes neither chunks nor bins, and takes nothing over.
LEMMA LocalStep ==
  ASSUME IInv, NEW t \in Threads, Others(t), KeepLocks(t),
         mapped' = mapped, initialized' = initialized, binmap' = binmap, bins' = bins,
         csize' = csize, psize' = psize, BlocksKept(t),
         pc' \in [Threads -> PCs], loc' \in [Threads -> Locals], calls' \in Nat,
         \A l \in DOMAIN owner' : owner'[l] \in Threads,
         Stage(t)', Locks(t)', Grip(t)',
         \A m \in Nodes : \A c \in Nat : /\ Holds(t, m, c)' <=> Holds(t, m, c)
                                         /\ Links(t, m, c)' <=> Links(t, m, c),
         Subject(t)' = Subject(t)
  PROVE  IInv'
<1>1. OthersKept(t)
  BY OthersUntouched
<1>2. Given' = Given /\ Distinct' /\ Private'
  BY GivenKept
<1>3. Types'
  BY DEF IInv, Types, BlocksKept
<1>4. \A u \in Threads : \A m \in Nodes : \A c \in Nat :
        (Holds(u, m, c)' <=> Holds(u, m, c)) /\ (Links(u, m, c)' <=> Links(u, m, c))
  BY <1>1 DEF OthersKept
<1>5. \A m \in Nodes : Heads(m)' = Heads(m) /\ Free(m)' = Free(m)
  BY DEF Heads, Free
<1>6. \A m \in Nodes : \A c \in Heads(m) : c \in Nat
  BY ArenaFacts
<1>7. ASSUME NEW m \in Nodes PROVE Arena(m)' /\ Covered(m)' /\ Binned(m)'
  <2>1. Arena(m)'
    BY DEF IInv, Arena, Heads
  <2>2. Covered(m)'
    <3>1. \A c \in Heads(m) : Taken(m, c) => Taken(m, c)'
      BY <1>2, <1>4, <1>6 DEF Taken
    <3> QED
      BY <3>1, <1>5 DEF IInv, Covered
  <2>3. Binned(m)'
    BY <1>4, <1>5, BinnedSame
  <2> QED
    BY <2>1, <2>2, <2>3
<1>8. Apart'
  BY <1>1, <1>5, <1>6, ApartKept
<1>9. ASSUME NEW b \in Given PROVE Placed(b)'
  <2>1. Placed(b) /\ b.at \in Nat
    BY GivenFacts
  <2>2. b.heap \in Nodes => b.at \in Heads(b.heap)' /\ csize'[b.heap][b.at] = csize[b.heap][b.at]
    BY <2>1 DEF Placed, Heads
  <2>3. b.heap \in Nodes /\ Holds(t, b.heap, b.at)' => Subject(t)' = b
    BY <2>1 DEF Placed
  <2> QED
    BY <1>1, <2>2, <2>3, PlacedKept
<1> QED
  BY <1>1, <1>2, <1>3, <1>7, <1>8, <1>9, Assemble

\* In all the steps that begin or continue a search no chunk is held.
LEMMA NothingHeld ==
  ASSUME NEW t \in Threads, pc[t] \notin Holding \cup {"link"}, pc'[t] \notin Holding \cup {"link"}
  PROVE  /\ \A m \in Nodes : \A c \in Nat : /\ Holds(t, m, c)' <=> Holds(t, m, c)
                                            /\ Links(t, m, c)' <=> Links(t, m, c)
         /\ Grip(t)'
  BY DEF Holds, Links, Grip, Holding

\* popcorn_malloc begins.
LEMMA MallocStep ==
  ASSUME IInv, NEW t \in Threads, MallocCall(t)
  PROVE  IInv'
<1>1. pc[t] = "idle" /\ calls' = calls + 1 /\ UNCHANGED <<arenas, lists, tags, owner, live>>
  BY DEF MallocCall
<1>2. PICK bytes \in Requests, n \in Nodes \cup {NoNode} :
        /\ Become(t, [Idle EXCEPT !.want = AdjustSize(bytes), !.node = n, !.then = "served"])
        /\ Goto(t, Entry(n, AdjustSize(bytes)))
  BY Zenon DEF MallocCall
<1>3. PICK want \in Nat \ {0} : want = AdjustSize(bytes)
  BY Adjusted, HeapAssumption
<1>4. PICK r : r = [Idle EXCEPT !.want = want, !.node = n, !.then = "served"]
  OBVIOUS
<1>5. /\ r \in Locals /\ r.want = want /\ r.node = n /\ r.then = "served"
      /\ r.init = FALSE /\ r.old = None /\ r.res = None
  BY <1>4, IdleType DEF Idle, Locals
<1>6. PICK l : l = Entry(n, want)
  OBVIOUS
<1>7. l \in {"global", "mmap", "scan"} /\ (l = "scan" => n \in Nodes /\ want <= MmapThreshold)
  BY <1>6, Sizes DEF Entry
<1>8. Types /\ loc[t] = Idle
  BY <1>1 DEF IInv, Stage
<1>9. /\ pc' \in [Threads -> PCs] /\ pc'[t] = l /\ \A u \in Threads \ {t} : pc'[u] = pc[u]
      /\ loc' \in [Threads -> Locals] /\ loc'[t] = r /\ \A u \in Threads \ {t} : loc'[u] = loc[u]
  <2>1. Goto(t, l) /\ l \in PCs /\ Become(t, r)
    BY <1>2, <1>3, <1>4, <1>6, <1>7 DEF PCs
  <2> QED
    BY <2>1, <1>5, <1>8, Went, Became
<1>10. Others(t) /\ KeepLocks(t) /\ \A m \in DOMAIN owner' : owner'[m] \in Threads
  BY <1>1, <1>8, <1>9, LocksUntouched DEF Others
<1>11. BlocksKept(t)
  BY <1>1, <1>5, <1>8, <1>9, IdleType DEF BlocksKept, Pending
<1>12. Stage(t)'
  BY <1>5, <1>7, <1>9 DEF Stage, Searches
<1>13. Locks(t)'
  BY <1>5, <1>7, <1>9 DEF Locks
<1>14. Subject(t)' = Subject(t)
  BY <1>1, <1>5, <1>7, <1>8, <1>9, IdleType DEF Subject
<1>15. /\ \A m \in Nodes : \A c \in Nat : /\ Holds(t, m, c)' <=> Holds(t, m, c)
                                          /\ Links(t, m, c)' <=> Links(t, m, c)
       /\ Grip(t)'
  BY <1>1, <1>7, <1>9, NothingHeld DEF Holding
<1>16. calls' \in Nat
  BY <1>1, <1>8 DEF Types
<1> QED
  BY <1>1, <1>9, <1>10, <1>11, <1>12, <1>13, <1>14, <1>15, <1>16, LocalStep
     DEF arenas, lists, tags

\* popcorn_malloc reads the map of bins.
LEMMA ScanStep ==
  ASSUME IInv, NEW t \in Threads, Scan(t)
  PROVE  IInv'
<1>1. pc[t] = "scan" /\ UNCHANGED <<arenas, lists, tags, owner, live, calls>>
  BY DEF Scan
<1>2. Types /\ loc[t] \in Locals /\ Stage(t) /\ Locks(t)
  BY LocFacts DEF IInv
<1>3. PICK n \in Nodes : n = loc[t].node
  BY <1>1, <1>2 DEF Stage, Searches
<1>4. /\ loc[t].want <= MmapThreshold /\ loc[t].res = None /\ loc[t].init = FALSE
      /\ loc[t].then \in {"served", "shrunk"} /\ loc[t].want \in Nat \ {0}
      /\ loc[t].then = "shrunk" => loc[t].old # None /\ loc[t].want > 1
  BY <1>1, <1>2, LocFacts DEF Stage, Searches
<1>5. PICK mask : mask = {j \in binmap[n] : j >= BinIndexUp(loc[t].want)}
  OBVIOUS
<1>6. PICK r, l : /\ r \in Locals /\ Become(t, r) /\ l \in {"expand", "init", "take"} /\ Goto(t, l)
                  /\ r.want = loc[t].want /\ r.node = n /\ r.then = loc[t].then
                  /\ r.init = FALSE /\ r.old = loc[t].old /\ r.res = None
                  /\ l = "expand" => initialized[n]
                  /\ l = "take" => r.k \in Bins /\ r.k >= BinIndexUp(loc[t].want)
  <2>1. CASE mask = {}
    <3>1. Goto(t, IF initialized[n] THEN "expand" ELSE "init") /\ UNCHANGED loc
      BY <2>1, <1>3, <1>5 DEF Scan
    <3>2. Become(t, loc[t])
      BY <3>1, <1>2 DEF Become, Types
    <3> QED
      BY <3>1, <3>2, <1>2, <1>3, <1>4
  <2>2. CASE mask # {}
    <3>1. PICK k : k = CHOOSE j \in mask : \A m \in mask : j <= m
      OBVIOUS
    <3>2. Goto(t, "take") /\ Become(t, [loc[t] EXCEPT !.k = k])
      BY <2>2, <3>1, <1>3, <1>5 DEF Scan
    <3>3. mask \subseteq Bins /\ Bins \subseteq Nat
      <4>1. binmap[n] \subseteq Bins
        BY <1>2 DEF Types
      <4> QED
        BY <4>1, <1>5, Sizes
    <3>4. k \in mask
      <4>1. \E j \in mask : \A m \in mask : j <= m
        BY <2>2, <3>3, LeastNat
      <4> QED
        BY <3>1, <4>1
    <3>5. PICK r : r = [loc[t] EXCEPT !.k = k]
      OBVIOUS
    <3>6. /\ r \in Locals /\ r.want = loc[t].want /\ r.node = n /\ r.then = loc[t].then
          /\ r.init = FALSE /\ r.old = loc[t].old /\ r.res = None /\ r.k = k
      BY <3>3, <3>4, <3>5, <1>2, <1>3, <1>4 DEF Locals
    <3> QED
      BY <3>2, <3>3, <3>4, <3>5, <3>6, <1>5
  <2> QED
    BY <2>1, <2>2
<1>7. /\ pc' \in [Threads -> PCs] /\ pc'[t] = l /\ \A u \in Threads \ {t} : pc'[u] = pc[u]
      /\ loc' \in [Threads -> Locals] /\ loc'[t] = r /\ \A u \in Threads \ {t} : loc'[u] = loc[u]
  <2>1. l \in PCs
    BY <1>6 DEF PCs
  <2> QED
    BY <2>1, <1>2, <1>6, Went, Became
<1>8. Others(t) /\ KeepLocks(t) /\ \A m \in DOMAIN owner' : owner'[m] \in Threads
  BY <1>1, <1>2, <1>7, LocksUntouched DEF Others
<1>9. BlocksKept(t)
  BY <1>1, <1>4, <1>6, <1>7 DEF BlocksKept
<1>10. Stage(t)'
  BY <1>4, <1>6, <1>7 DEF Stage, Searches
<1>11. Locks(t)'
  <2>1. initialized[n] => mapped[n]
    BY DEF IInv, Arena
  <2> QED
    BY <2>1, <1>1, <1>6, <1>7 DEF Locks, arenas
<1>12. Subject(t)' = Subject(t)
  BY <1>1, <1>4, <1>6, <1>7 DEF Subject
<1>13. /\ \A m \in Nodes : \A c \in Nat : /\ Holds(t, m, c)' <=> Holds(t, m, c)
                                          /\ Links(t, m, c)' <=> Links(t, m, c)
       /\ Grip(t)'
  BY <1>1, <1>6, <1>7, NothingHeld DEF Holding
<1>14. calls' \in Nat
  BY <1>1, <1>2 DEF Types
<1> QED
  BY <1>1, <1>7, <1>8, <1>9, <1>10, <1>11, <1>12, <1>13, <1>14, LocalStep
     DEF arenas, lists, tags

\* A thread goes on, with other locals.
LEMMA Moved ==
  ASSUME Types, NEW t \in Threads, NEW l \in PCs, NEW r \in Locals, Goto(t, l), Become(t, r)
  PROVE  /\ pc' \in [Threads -> PCs] /\ pc'[t] = l
         /\ loc' \in [Threads -> Locals] /\ loc'[t] = r
         /\ Others(t)
  BY Went, Became DEF Others

\* A thread goes on, with the same locals.
LEMMA Stayed ==
  ASSUME Types, NEW t \in Threads, UNCHANGED loc
  PROVE  Become(t, loc[t]) /\ loc[t] \in Locals
  BY DEF Become, Types

\* What a search finds in the locals.
LEMMA SearchFacts ==
  ASSUME IInv, NEW t \in Threads, Searches(t) \/ pc[t] \in {"mmap", "global"}
  PROVE  /\ Searches(t) => loc[t].node \in Nodes /\ loc[t].want <= MmapThreshold
         /\ loc[t].res = None /\ loc[t].then \in {"served", "shrunk"} /\ loc[t].want \in Nat \ {0}
         /\ loc[t].then = "shrunk" => /\ loc[t].old # None /\ loc[t].want > 1
                                      /\ loc[t].node \in Nodes
         /\ pc[t] # "expand" => loc[t].init = FALSE
         /\ loc[t].init => Owns(t, InitLock(loc[t].node))
         /\ Subject(t) = None /\ ~Pending(t)
<1>1. Stage(t) /\ Locks(t) /\ loc[t].want \in Nat /\ loc[t].init \in BOOLEAN
  BY LocFacts DEF IInv
<1>2. pc[t] \notin {"trim", "remap"}
  BY DEF Searches
<1>3. loc[t].res = None /\ loc[t].then \in {"served", "shrunk"}
  BY <1>1 DEF Stage
<1>4. /\ Searches(t) => loc[t].node \in Nodes /\ loc[t].want <= MmapThreshold
      /\ loc[t].want > 0
      /\ loc[t].then = "shrunk" => /\ loc[t].old # None /\ loc[t].want > 1
                                   /\ loc[t].node \in Nodes
      /\ pc[t] # "expand" => ~loc[t].init
  BY <1>1, <1>2, <1>3 DEF Stage
<1>5. Subject(t) = None /\ ~Pending(t)
  BY <1>2, <1>3 DEF Subject, Pending
<1>6. loc[t].init => Owns(t, InitLock(loc[t].node))
  BY <1>1 DEF Locks
<1> QED
  BY <1>1, <1>3, <1>4, <1>5, <1>6

\* A search that goes on.
LEMMA SearchStep ==
  ASSUME IInv, NEW t \in Threads, Searches(t) \/ pc[t] \in {"mmap", "global"},
         NEW l \in {"scan", "init", "expand", "global"}, Goto(t, l),
         NEW r \in Locals, Become(t, r),
         r.want = loc[t].want, r.node = loc[t].node, r.then = loc[t].then,
         r.old = loc[t].old, r.res = None,
         l # "global" => Searches(t), l # "expand" => r.init = FALSE,
         r.init => Owns(t, InitLock(loc[t].node))', l = "expand" /\ ~r.init => mapped[loc[t].node],
         UNCHANGED <<arenas, lists, tags, live, calls>>, KeepLocks(t),
         \A m \in DOMAIN owner' : owner'[m] \in Threads
  PROVE  IInv'
<1>1. Types /\ calls \in Nat
  BY DEF IInv, Types
<1>2. l \in PCs
  BY DEF PCs
<1>3. /\ pc' \in [Threads -> PCs] /\ pc'[t] = l
      /\ loc' \in [Threads -> Locals] /\ loc'[t] = r /\ Others(t)
  BY <1>1, <1>2, Moved
<1>4. /\ Searches(t) => loc[t].node \in Nodes /\ loc[t].want <= MmapThreshold
      /\ loc[t].res = None /\ loc[t].then \in {"served", "shrunk"} /\ loc[t].want \in Nat \ {0}
      /\ loc[t].then = "shrunk" => /\ loc[t].old # None /\ loc[t].want > 1
                                   /\ loc[t].node \in Nodes
      /\ Subject(t) = None /\ ~Pending(t)
  BY SearchFacts
<1>5. BlocksKept(t)
  BY <1>3, <1>4 DEF BlocksKept
<1>6. Stage(t)'
  BY <1>3, <1>4 DEF Stage, Searches
<1>7. Locks(t)'
  <2>1. r.init => l = "expand" /\ loc[t].node \in Nodes
    BY <1>4 DEF Locals
  <2> QED
    BY <2>1, <1>3 DEF Locks, arenas, Owns
<1>8. Subject(t)' = Subject(t)
  BY <1>3, <1>4 DEF Subject
<1>9. pc[t] \notin Holding \cup {"link"} /\ pc'[t] \notin Holding \cup {"link"}
  BY <1>3 DEF Searches, Holding
<1>10. /\ \A m \in Nodes : \A c \in Nat : /\ Holds(t, m, c)' <=> Holds(t, m, c)
                                          /\ Links(t, m, c)' <=> Links(t, m, c)
       /\ Grip(t)'
  BY <1>9, NothingHeld
<1> QED
  BY <1>1, <1>3, <1>5, <1>6, <1>7, <1>8, <1>10, LocalStep DEF arenas, lists, tags

\* It takes the initialization lock and looks again.
LEMMA LockInitStep ==
  ASSUME IInv, NEW t \in Threads, LockInit(t)
  PROVE  IInv'
<1>1. pc[t] = "init" /\ Searches(t) /\ UNCHANGED <<arenas, lists, tags, live, calls>>
  BY DEF LockInit, Searches
<1>2. Types /\ loc[t] \in Locals /\ loc[t].res = None /\ loc[t].init = FALSE /\ loc[t].node \in Nodes
  BY <1>1, LocFacts, SearchFacts DEF IInv
<1>3. CASE initialized[loc[t].node]
  <2>1. Goto(t, "scan") /\ UNCHANGED owner /\ Become(t, loc[t])
    BY <1>2, <1>3, Stayed DEF LockInit
  <2>2. KeepLocks(t) /\ \A m \in DOMAIN owner' : owner'[m] \in Threads
    BY <1>2, <2>1, LocksUntouched
  <2> QED
    BY <1>1, <1>2, <2>1, <2>2, SearchStep
<1>4. CASE ~initialized[loc[t].node]
  <2>1. PICK r : r = [loc[t] EXCEPT !.init = TRUE]
    OBVIOUS
  <2>2. Goto(t, "expand") /\ Lock(t, InitLock(loc[t].node)) /\ Become(t, r)
    BY <1>4, <2>1 DEF LockInit
  <2>3. /\ r \in Locals /\ r.want = loc[t].want /\ r.node = loc[t].node /\ r.then = loc[t].then
        /\ r.old = loc[t].old /\ r.res = None /\ r.init = TRUE
    BY <1>2, <2>1 DEF Locals
  <2>4. /\ KeepLocks(t) /\ \A m \in DOMAIN owner' : owner'[m] \in Threads
        /\ Owns(t, InitLock(loc[t].node))'
    <3>1. PICK m : m = InitLock(loc[t].node)
      OBVIOUS
    <3>2. Lock(t, m)
      BY <2>2, <3>1
    <3>3. KeepLocks(t) /\ (\A x \in DOMAIN owner' : owner'[x] \in Threads) /\ Owns(t, m)'
      BY <1>2, <3>2, Locked
    <3>4. InitLock(loc[t].node)' = m
      BY <1>2, <2>2, <2>3, <3>1 DEF Become, Types
    <3> QED
      BY <3>3, <3>4 DEF Owns
  <2> QED
    BY <1>1, <2>2, <2>3, <2>4, SearchStep
<1> QED
  BY <1>3, <1>4

\* There is no more memory for the node.
LEMMA ExpandFailsStep ==
  ASSUME IInv, NEW t \in Threads, ExpandFails(t)
  PROVE  IInv'
<1>1. pc[t] = "expand" /\ Searches(t) /\ UNCHANGED <<arenas, lists, tags, live, calls>>
  BY DEF ExpandFails, Searches
<1>2. /\ Types /\ loc[t] \in Locals /\ loc[t].res = None /\ loc[t].init \in BOOLEAN
      /\ loc[t].init => Owns(t, InitLock(loc[t].node))
  BY <1>1, LocFacts, SearchFacts DEF IInv
<1>3. PICK r : r = [loc[t] EXCEPT !.init = FALSE]
  OBVIOUS
<1>4. Goto(t, "global") /\ Become(t, r)
  BY <1>3 DEF ExpandFails
<1>5. /\ r \in Locals /\ r.want = loc[t].want /\ r.node = loc[t].node /\ r.then = loc[t].then
      /\ r.old = loc[t].old /\ r.res = None /\ r.init = FALSE
  BY <1>2, <1>3 DEF Locals
<1>6. KeepLocks(t) /\ \A m \in DOMAIN owner' : owner'[m] \in Threads
  <2>1. CASE loc[t].init
    <3>1. PICK L : L = {InitLock(loc[t].node)}
      OBVIOUS
    <3>2. Unlock(L) /\ \A m \in L : Owns(t, m)
      BY <2>1, <3>1, <1>2 DEF ExpandFails
    <3> QED
      BY <3>2, <1>2, Released
  <2>2. CASE ~loc[t].init
    BY <2>2, <1>2, LocksUntouched DEF ExpandFails
  <2> QED
    BY <2>1, <2>2
<1> QED
  BY <1>1, <1>4, <1>5, <1>6, SearchStep

\* A block of another heap is new.
LEMMA FreshFacts ==
  ASSUME IInv, NEW heap \in {"mmap", "global"}, NEW b, b = Fresh(heap), b # None
  PROVE  /\ b \in Blocks /\ b.heap = heap /\ b.size = 1
         /\ \A e \in Given : e.heap = heap => e.at # b.at
         /\ \A u \in Threads : loc[u].res # b /\ loc[u].old # b
         /\ b \notin live
<1>1. PICK free : free = {i \in 0 .. OtherBlocks - 1 :
                 \A e \in (live \cup {loc[t].res : t \in Threads}) \ {None} :
                   e.heap = heap => e.at # i}
  OBVIOUS
<1>2. free # {} /\ b = Block(heap, CHOOSE i \in free : TRUE, 1)
  BY <1>1 DEF Fresh
<1>3. PICK i \in free : b = Block(heap, i, 1)
  BY <1>2
<1>4. i \in Nat /\ b.heap = heap /\ b.at = i /\ b.size = 1
  BY <1>1, <1>3, HeapAssumption DEF Block
<1>5. b \in Blocks
  BY <1>3, <1>4 DEF Blocks, HeapNames, Block
<1>6. \A e \in (live \cup {loc[t].res : t \in Threads}) \ {None} : e.heap = heap => e.at # i
  BY <1>1
<1>7. b \notin live /\ \A u \in Threads : loc[u].res # b
  BY <1>4, <1>6
<1>8. \A u \in Threads : loc[u].old # b
  BY <1>7 DEF IInv, Private
<1>9. \A e \in Given : e.heap = heap => e.at # i
  <2>1. \A e \in Given : e # None
    BY GivenFacts
  <2> QED
    BY <2>1, <1>6 DEF Given
<1> QED
  BY <1>4, <1>5, <1>7, <1>8, <1>9

\* A call gets a block nobody had: what was given out stays so.
LEMMA GivenGrows ==
  ASSUME IInv, NEW t \in Threads, Others(t), live' = live, ~Pending(t),
         loc'[t].old = loc[t].old, loc'[t].then \in {"served", "shrunk"},
         NEW b \in Blocks, loc'[t].res = b, b \notin live,
         \A u \in Threads : loc[u].res # b /\ loc[u].old # b,
         \A e \in Given : ~(e.heap = b.heap /\ e.at = b.at)
  PROVE  Given' = Given \cup {b} /\ Distinct' /\ Private'
<1>1. b # None
  BY Names
<1>2. \A u \in Threads \ {t} : /\ loc'[u] = loc[u]
                               /\ Pending(u)' <=> Pending(u)
  BY DEF Others, Pending
<1>3. Pending(t)'
  BY <1>1 DEF Pending
<1>4. Given' = Given \cup {b}
  <2>1. \A e : e \in Given' <=> e \in live \/ \E u \in Threads : Pending(u)' /\ e = loc'[u].res
    BY DEF Given
  <2>2. \A e : e \in Given <=> e \in live \/ \E u \in Threads : Pending(u) /\ e = loc[u].res
    BY DEF Given
  <2>3. \A e : (\E u \in Threads : Pending(u)' /\ e = loc'[u].res)
               <=> e = b \/ \E u \in Threads : Pending(u) /\ e = loc[u].res
    BY <1>2, <1>3
  <2> QED
    BY <2>1, <2>2, <2>3
<1>5. Distinct'
  BY <1>4 DEF IInv, Distinct
<1>6. Private'
  <2>1. Private
    BY DEF IInv
  <2>2. \A u \in Threads : loc'[u].old = loc[u].old
    BY <1>2
  <2>3. \A u \in Threads \ {t} : loc'[u].res = loc[u].res /\ loc'[u].then = loc[u].then
    BY <1>2
  <2>4. \A u \in Threads : loc'[u].old # None => loc'[u].old \in live'
    BY <2>1, <2>2 DEF Private
  <2>5. \A u \in Threads : Pending(u)' => loc'[u].res \notin live'
    BY <2>1, <2>3, <1>2 DEF Private
  <2>6. \A u \in Threads : loc'[u].then = "idle" /\ loc'[u].res # None => loc'[u].res \in live'
    BY <2>1, <2>3 DEF Private
  <2>7. \A u, v \in Threads : u # v =>
          /\ loc'[u].old # None => loc'[v].old # loc'[u].old /\ loc'[v].res # loc'[u].old
          /\ loc'[u].res # None => loc'[v].res # loc'[u].res
    BY <2>1, <2>2, <2>3 DEF Private
  <2> QED
    BY <2>4, <2>5, <2>6, <2>7 DEF Private
<1> QED
  BY <1>4, <1>5, <1>6

\* A block of another heap.
LEMMA OtherHeapStep ==
  ASSUME IInv, NEW t \in Threads, OtherHeap(t)
  PROVE  IInv'
<1>1. pc[t] \in {"mmap", "global"} /\ UNCHANGED <<arenas, lists, tags, owner, live, calls>>
  BY DEF OtherHeap
<1>2. /\ Types /\ loc[t] \in Locals /\ calls \in Nat /\ Stage(t) /\ Locks(t)
      /\ loc[t].res = None /\ loc[t].then \in {"served", "shrunk"} /\ loc[t].want \in Nat \ {0}
      /\ loc[t].then = "shrunk" => /\ loc[t].old # None /\ loc[t].want > 1
                                   /\ loc[t].node \in Nodes
      /\ loc[t].init = FALSE /\ Subject(t) = None /\ ~Pending(t)
  BY <1>1, LocFacts, SearchFacts DEF IInv, Types
<1>3. PICK b : b = Fresh(pc[t])
  OBVIOUS
<1>4. PICK r : r = [loc[t] EXCEPT !.res = b]
  OBVIOUS
<1>5. Become(t, r) /\ Goto(t, loc[t].then)
  BY <1>3, <1>4 DEF OtherHeap
<1>6. b # None => /\ b \in Blocks /\ b.heap = pc[t] /\ b.size = 1 /\ b \notin live
                  /\ \A e \in Given : e.heap = pc[t] => e.at # b.at
                  /\ \A u \in Threads : loc[u].res # b /\ loc[u].old # b
  BY <1>1, <1>3, FreshFacts
<1>7. /\ r \in Locals /\ r.want = loc[t].want /\ r.node = loc[t].node /\ r.then = loc[t].then
      /\ r.old = loc[t].old /\ r.res = b /\ r.init = FALSE
  BY <1>2, <1>4, <1>6 DEF Locals
<1>8. /\ pc' \in [Threads -> PCs] /\ pc'[t] = loc[t].then
      /\ loc' \in [Threads -> Locals] /\ loc'[t] = r /\ Others(t)
  BY <1>2, <1>5, <1>7, Moved DEF PCs
<1>9. KeepLocks(t) /\ \A m \in DOMAIN owner' : owner'[m] \in Threads
  BY <1>1, <1>2, LocksUntouched
<1>10. Stage(t)'
  BY <1>2, <1>7, <1>8 DEF Stage, Searches
<1>11. Locks(t)'
  BY <1>2, <1>7, <1>8 DEF Locks
<1>12. Subject(t)' = None
  BY <1>2, <1>7, <1>8 DEF Subject
<1>13. /\ \A m \in Nodes : \A c \in Nat : /\ Holds(t, m, c)' <=> Holds(t, m, c)
                                          /\ Links(t, m, c)' <=> Links(t, m, c)
       /\ Grip(t)'
  <2>1. pc[t] \notin Holding \cup {"link"} /\ pc'[t] \notin Holding \cup {"link"}
    BY <1>1, <1>2, <1>8 DEF Holding
  <2> QED
    BY <2>1, NothingHeld
<1>14. CASE b = None
  <2>1. BlocksKept(t)
    BY <1>1, <1>2, <1>7, <1>8, <1>14 DEF BlocksKept
  <2> QED
    BY <2>1, <1>1, <1>2, <1>8, <1>9, <1>10, <1>11, <1>12, <1>13, LocalStep DEF arenas, lists, tags
<1>15. CASE b # None
  <2>1. Given' = Given \cup {b} /\ Distinct' /\ Private'
    BY <1>1, <1>2, <1>6, <1>7, <1>8, <1>15, GivenGrows
  <2>2. mapped' = mapped /\ csize' = csize /\ psize' = psize
    BY <1>1 DEF arenas, tags
  <2>3. OthersKept(t)
    BY <1>8, <2>2, OthersUntouched
  <2>4. Types'
    BY <1>1, <1>2, <1>8, <1>9 DEF Types, arenas, lists, tags
  <2>5. \A m \in Nodes : Heads(m)' = Heads(m) /\ Free(m)' = Free(m) /\ \A c \in Heads(m) : c \in Nat
    BY <2>2, ArenaFacts DEF Heads, Free
  <2>6. \A u \in Threads : \A m \in Nodes : \A c \in Nat :
          (Holds(u, m, c)' <=> Holds(u, m, c)) /\ (Links(u, m, c)' <=> Links(u, m, c))
    BY <2>3, <1>13 DEF OthersKept
  <2>7. ASSUME NEW m \in Nodes PROVE Arena(m)' /\ Covered(m)' /\ Binned(m)'
    <3>1. Arena(m)'
      BY <1>1 DEF IInv, Arena, Heads, arenas, lists, tags
    <3>2. Covered(m)'
      <4>1. \A c \in Heads(m) : Taken(m, c) => Taken(m, c)'
        BY <2>1, <2>5, <2>6 DEF Taken
      <4> QED
        BY <4>1, <2>2, <2>5 DEF IInv, Covered
    <3>3. Binned(m)'
      BY <1>1, <2>2, <2>5, <2>6, BinnedSame DEF lists
    <3> QED
      BY <3>1, <3>2, <3>3
  <2>8. Apart'
    BY <2>3, <2>5, <2>6, ApartKept
  <2>9. ASSUME NEW e \in Given PROVE Placed(e)'
    <3>1. Placed(e) /\ e.at \in Nat /\ e # None
      BY GivenFacts
    <3>2. e.heap \in Nodes => e.at \in Heads(e.heap)' /\ csize'[e.heap][e.at] = csize[e.heap][e.at]
      BY <3>1, <2>2 DEF Placed, Heads
    <3>3. e.heap \in Nodes => ~Holds(t, e.heap, e.at)'
      BY <3>1, <2>6, <1>2 DEF Placed
    <3>4. Subject(t) # e
      BY <3>1, <1>2
    <3> QED
      BY <1>8, <2>2, <2>3, <3>2, <3>3, <3>4, PlacedKept
  <2>10. Placed(b)'
    <3>1. b.heap \notin Nodes
      BY <1>1, <1>6, <1>15, Names
    <3> QED
      BY <3>1, <1>6, <1>15 DEF Placed
  <2> QED
    BY <1>8, <1>9, <1>10, <1>11, <1>13, <2>1, <2>2, <2>3, <2>4, <2>7, <2>8, <2>9, <2>10, Assemble
<1> QED
  BY <1>14, <1>15

\* Where a request begins.
LEMMA EntryFacts ==
  ASSUME NEW n, NEW want \in Nat, NEW l, l = Entry(n, want)
  PROVE  /\ l \in {"global", "mmap", "scan"}
         /\ l = "scan" => n # NoNode /\ want <= MmapThreshold
  BY Sizes DEF Entry

\* A mapping is resized, or going to be copied.
LEMMA RemapStep ==
  ASSUME IInv, NEW t \in Threads, Remap(t)
  PROVE  IInv'
<1>1. pc[t] = "remap" /\ UNCHANGED <<arenas, lists, tags, owner, live, calls>>
  BY DEF Remap
<1>2. /\ Types /\ loc[t] \in Locals /\ calls \in Nat /\ Stage(t)
      /\ loc[t].res = None /\ loc[t].old \in Blocks /\ loc[t].node \in Nodes
      /\ loc[t].want \in Nat \ {0} /\ loc[t].then \in {"idle", "shrunk"}
      /\ Subject(t) = None /\ ~Pending(t)
  BY <1>1, LocFacts DEF IInv, Types, Stage, Subject, Pending
<1>3. PICK r \in Locals, l \in {"idle", "global", "mmap", "scan"} :
        /\ Become(t, r) /\ Goto(t, l)
        /\ l = "idle" => r = Idle
        /\ l # "idle" => /\ r.want = loc[t].want /\ r.node \in Nodes /\ r.then = "served"
                         /\ r.init = FALSE /\ r.old = loc[t].old /\ r.res = None
        /\ l = "scan" => r.want <= MmapThreshold
  <2>1. CASE Return(t)
    BY <2>1, IdleType DEF Return
  <2>2. CASE Move(t, loc[t].old, loc[t].node, loc[t].want, "served")
    <3>1. PICK r : r = [Idle EXCEPT !.old = loc[t].old, !.node = loc[t].node,
                                    !.want = loc[t].want, !.then = "served"]
      OBVIOUS
    <3>2. PICK l : l = Entry(loc[t].node, loc[t].want)
      OBVIOUS
    <3>3. Become(t, r) /\ Goto(t, l)
      BY <2>2, <3>1, <3>2 DEF Move
    <3>4. /\ r \in Locals /\ r.want = loc[t].want /\ r.node = loc[t].node /\ r.then = "served"
          /\ r.init = FALSE /\ r.old = loc[t].old /\ r.res = None
      BY <3>1, <1>2 DEF Idle, Locals
    <3>5. l \in {"global", "mmap", "scan"} /\ (l = "scan" => loc[t].want <= MmapThreshold)
      BY <3>2, <1>2, EntryFacts
    <3> QED
      BY <3>3, <3>4, <3>5, <1>2
  <2> QED
    BY <1>1, <2>1, <2>2 DEF Remap
<1>4. l \in PCs
  BY DEF PCs
<1>5. /\ pc' \in [Threads -> PCs] /\ pc'[t] = l
      /\ loc' \in [Threads -> Locals] /\ loc'[t] = r /\ Others(t)
  BY <1>2, <1>3, <1>4, Moved
<1>6. KeepLocks(t) /\ \A m \in DOMAIN owner' : owner'[m] \in Threads
  BY <1>1, <1>2, LocksUntouched
<1>7. /\ r.old \in {loc[t].old, None} /\ r.res = None /\ r.init = FALSE
      /\ r.then \in {"idle", "served"} /\ r.then = "idle" <=> l = "idle"
  BY <1>3, IdleType
<1>8. BlocksKept(t)
  BY <1>1, <1>2, <1>5, <1>7 DEF BlocksKept
<1>9. Stage(t)'
  BY <1>2, <1>3, <1>5, <1>7, IdleType DEF Stage, Searches
<1>10. Locks(t)'
  BY <1>5, <1>7 DEF Locks
<1>11. Subject(t)' = Subject(t)
  BY <1>2, <1>3, <1>5, <1>7 DEF Subject
<1>12. /\ \A m \in Nodes : \A c \in Nat : /\ Holds(t, m, c)' <=> Holds(t, m, c)
                                          /\ Links(t, m, c)' <=> Links(t, m, c)
       /\ Grip(t)'
  BY <1>1, <1>5, NothingHeld DEF Holding
<1> QED
  BY <1>1, <1>2, <1>5, <1>6, <1>8, <1>9, <1>10, <1>11, <1>12, LocalStep DEF arenas, lists, tags

\* The chunks that a thread holds while it frees or grows a block.
Works == Holding \ {"trim"}

\* A thread goes on with the chunks it holds.
LEMMA HeldStep ==
  ASSUME IInv, NEW t \in Threads, pc[t] \in Works, NEW l \in Works, Goto(t, l),
         NEW r \in Locals, Become(t, r),
         r.want = loc[t].want, r.node = loc[t].node, r.self = loc[t].self, r.next = loc[t].next,
         r.size = loc[t].size, r.init = loc[t].init, r.then = loc[t].then,
         r.old = loc[t].old, r.res = loc[t].res,
         loc[t].then = "grown" => l \in {"fwd", "fwdLock", "grown"},
         l = "grown" => loc[t].then = "grown",
         l = "publish" => Between(loc[t].node, loc[t].self, loc[t].next),
         NEW B, B = BinLock(loc[t].node, BinIndex(loc[t].size)),
         NEW F, F = FreeLock(loc[t].node), NEW I, I = InitLock(loc[t].node),
         l \in {"lockFree", "publish"} => Owns(t, B)', l = "publish" => Owns(t, F)',
         Owns(t, I) => Owns(t, I)', KeepLocks(t),
         \A m \in DOMAIN owner' : owner'[m] \in Threads,
         UNCHANGED <<arenas, lists, tags, live, calls>>
  PROVE  IInv'
<1>1. Types /\ calls \in Nat /\ Stage(t) /\ Locks(t) /\ Grip(t)
  BY DEF IInv, Types
<1>2. l \in PCs
  BY DEF PCs, Works, Holding
<1>3. /\ pc' \in [Threads -> PCs] /\ pc'[t] = l
      /\ loc' \in [Threads -> Locals] /\ loc'[t] = r /\ Others(t)
  BY <1>1, <1>2, Moved
<1>4. BlocksKept(t)
  BY <1>3 DEF BlocksKept
<1>5. Stage(t)'
  BY <1>1, <1>3 DEF Stage, Searches, Works, Holding
<1>6. Locks(t)'
  <2>1. /\ pc'[t] # "link" /\ pc'[t] # "expand" /\ pc[t] # "expand"
        /\ pc'[t] \in {"lockFree", "publish", "link"} => Owns(t, B)'
        /\ pc'[t] = "publish" => Owns(t, F)'
    BY <1>3 DEF Works, Holding
  <2>2. loc[t].init => /\ loc[t].node \in Nodes /\ Owns(t, I)' /\ mapped[loc[t].node]
    BY <1>1, <2>1 DEF Locks
  <2>3. /\ B = BinLock(loc[t].node, BinIndex(loc[t].size))'
        /\ F = FreeLock(loc[t].node)' /\ I = InitLock(loc[t].node)'
    BY <1>3
  <2> QED
    BY <2>1, <2>2, <2>3, <1>3 DEF Locks, arenas, Owns
<1>7. Subject(t)' = Subject(t)
  BY <1>3 DEF Subject, Works
<1>8. Upto(t)' = Upto(t)
  BY <1>3 DEF Upto, Works
<1>9. \A m \in Nodes : \A c \in Nat : /\ Holds(t, m, c)' <=> Holds(t, m, c)
                                      /\ Links(t, m, c)' <=> Links(t, m, c)
  BY <1>3, <1>8 DEF Holds, Links, Heads, tags, Works, Holding
<1>10. Grip(t)'
  BY <1>1, <1>3, <1>8 DEF Grip, Between, Heads, arenas, tags, Works, Holding
<1> QED
  BY <1>1, <1>3, <1>4, <1>5, <1>6, <1>7, <1>9, <1>10, LocalStep DEF arenas, lists, tags

\* Types, and what the invariant says of one thread.
LEMMA HeldTypes ==
  ASSUME IInv, NEW t \in Threads
  PROVE  /\ Types /\ loc[t] \in Locals /\ Stage(t) /\ Locks(t) /\ Grip(t)
         /\ loc[t].then = "grown" => pc[t] \in {"fwd", "fwdLock", "grown"}
  BY LocFacts DEF IInv, Stage

\* alloc_rev reads a footer without a lock.
LEMMA RevStep ==
  ASSUME IInv, NEW t \in Threads, Rev(t)
  PROVE  IInv'
<1>1. pc[t] = "rev" /\ pc[t] \in Works /\ UNCHANGED <<arenas, lists, tags, owner, live, calls>>
  BY DEF Rev, Works, Holding
<1>2. Types /\ loc[t] \in Locals /\ loc[t].then # "grown"
  BY <1>1, HeldTypes
<1>3. psize[loc[t].node][loc[t].self].size \in Nat
  BY <1>1, HeldFacts, ChunkFacts DEF Works
<1>4. KeepLocks(t) /\ (\A m \in DOMAIN owner' : owner'[m] \in Threads) /\ \A m : Owns(t, m) => Owns(t, m)'
  BY <1>1, <1>2, LocksUntouched
<1>5. CASE psize[loc[t].node][loc[t].self].inuse
  <2>1. Goto(t, "fwd") /\ Become(t, loc[t]) /\ "fwd" \in Works
    BY <1>2, <1>5, Stayed DEF Rev, Works, Holding
  <2> QED
    BY <1>1, <1>2, <1>4, <2>1, HeldStep
<1>6. CASE ~psize[loc[t].node][loc[t].self].inuse
  <2>1. PICK r : r = [loc[t] EXCEPT !.k = psize[loc[t].node][loc[t].self].size]
    OBVIOUS
  <2>2. Goto(t, "revLock") /\ Become(t, r) /\ "revLock" \in Works
    BY <1>6, <2>1 DEF Rev, Works, Holding
  <2>3. /\ r \in Locals /\ r.want = loc[t].want /\ r.node = loc[t].node /\ r.self = loc[t].self
        /\ r.next = loc[t].next /\ r.size = loc[t].size /\ r.init = loc[t].init
        /\ r.then = loc[t].then /\ r.old = loc[t].old /\ r.res = loc[t].res
    BY <2>1, <1>2, <1>3 DEF Locals
  <2> QED
    BY <1>1, <1>2, <1>4, <2>2, <2>3, HeldStep
<1> QED
  BY <1>5, <1>6

\* alloc_fwd reads a header without a lock.
LEMMA FwdStep ==
  ASSUME IInv, NEW t \in Threads, Fwd(t)
  PROVE  IInv'
<1>1. pc[t] = "fwd" /\ pc[t] \in Works /\ UNCHANGED <<arenas, lists, tags, owner, live, calls>>
  BY DEF Fwd, Works, Holding
<1>2. Types /\ loc[t] \in Locals
  BY <1>1, HeldTypes
<1>3. csize[loc[t].node][loc[t].next].size \in Nat
  BY <1>1, HeldFacts, ChunkFacts DEF Works
<1>4. KeepLocks(t) /\ (\A m \in DOMAIN owner' : owner'[m] \in Threads) /\ \A m : Owns(t, m) => Owns(t, m)'
  BY <1>1, <1>2, LocksUntouched
<1>5. CASE csize[loc[t].node][loc[t].next].inuse
  <2>1. PICK l : l = IF loc[t].then = "grown" THEN "grown" ELSE "test"
    OBVIOUS
  <2>2. Goto(t, l) /\ Become(t, loc[t]) /\ l \in Works
    BY <1>2, <1>5, <2>1, Stayed DEF Fwd, FwdDone, Works, Holding
  <2> QED
    BY <1>1, <1>2, <1>4, <2>1, <2>2, HeldStep
<1>6. CASE ~csize[loc[t].node][loc[t].next].inuse
  <2>1. PICK r : r = [loc[t] EXCEPT !.k = csize[loc[t].node][loc[t].next].size]
    OBVIOUS
  <2>2. Goto(t, "fwdLock") /\ Become(t, r) /\ "fwdLock" \in Works
    BY <1>6, <2>1 DEF Fwd, Works, Holding
  <2>3. /\ r \in Locals /\ r.want = loc[t].want /\ r.node = loc[t].node /\ r.self = loc[t].self
        /\ r.next = loc[t].next /\ r.size = loc[t].size /\ r.init = loc[t].init
        /\ r.then = loc[t].then /\ r.old = loc[t].old /\ r.res = loc[t].res
    BY <2>1, <1>2, <1>3 DEF Locals
  <2> QED
    BY <1>1, <1>2, <1>4, <2>2, <2>3, HeldStep
<1> QED
  BY <1>5, <1>6

\* popcorn_free locks the bin,
LEMMA LockBinStep ==
  ASSUME IInv, NEW t \in Threads, LockBin(t)
  PROVE  IInv'
<1>1. pc[t] = "lockBin" /\ pc[t] \in Works /\ UNCHANGED <<arenas, lists, tags, live, loc, calls>>
  BY DEF LockBin, Works, Holding
<1>2. Types /\ loc[t] \in Locals /\ loc[t].then # "grown" /\ Become(t, loc[t])
  BY <1>1, HeldTypes, Stayed
<1>3. PICK B : B = BinLock(loc[t].node, BinIndex(loc[t].size))
  OBVIOUS
<1>4. Lock(t, B) /\ Goto(t, "lockFree") /\ "lockFree" \in Works
  BY <1>3 DEF LockBin, Works, Holding
<1>5. /\ KeepLocks(t) /\ (\A m \in DOMAIN owner' : owner'[m] \in Threads)
      /\ Owns(t, B)' /\ \A m : Owns(t, m) => Owns(t, m)'
  BY <1>2, <1>4, Locked
<1> QED
  BY <1>1, <1>2, <1>3, <1>4, <1>5, HeldStep

\* locks the free list and looks at both neighbours again.
LEMMA LockFreeStep ==
  ASSUME IInv, NEW t \in Threads, LockFree(t)
  PROVE  IInv'
<1>1. pc[t] = "lockFree" /\ pc[t] \in Works /\ UNCHANGED <<arenas, lists, tags, live, loc, calls>>
  BY DEF LockFree, Works, Holding
<1>2. Types /\ loc[t] \in Locals /\ loc[t].then # "grown" /\ Become(t, loc[t]) /\ Locks(t)
  BY <1>1, HeldTypes, Stayed
<1>3. PICK B : B = BinLock(loc[t].node, BinIndex(loc[t].size))
  OBVIOUS
<1>4. PICK F : F = FreeLock(loc[t].node)
  OBVIOUS
<1>5. Owns(t, B)
  BY <1>1, <1>2, <1>3 DEF Locks
<1>6. CASE Between(loc[t].node, loc[t].self, loc[t].next)
  <2>1. Lock(t, F) /\ Goto(t, "publish") /\ "publish" \in Works
    BY <1>4, <1>6 DEF LockFree, Works, Holding
  <2>2. /\ KeepLocks(t) /\ (\A m \in DOMAIN owner' : owner'[m] \in Threads)
        /\ Owns(t, F)' /\ \A m : Owns(t, m) => Owns(t, m)'
    BY <1>2, <2>1, Locked
  <2> QED
    BY <1>1, <1>2, <1>3, <1>4, <1>5, <1>6, <2>1, <2>2, HeldStep
<1>7. CASE ~Between(loc[t].node, loc[t].self, loc[t].next)
  <2>1. PICK L : L = {B}
    OBVIOUS
  <2>2. Unlock(L) /\ Goto(t, "rev") /\ "rev" \in Works
    BY <1>3, <1>7, <2>1 DEF LockFree, Works, Holding
  <2>3. /\ KeepLocks(t) /\ (\A m \in DOMAIN owner' : owner'[m] \in Threads)
        /\ \A m : m \notin L /\ Owns(t, m) => Owns(t, m)'
    BY <1>2, <1>5, <2>1, <2>2, Released
  <2>4. InitLock(loc[t].node) \notin L
    BY <2>1, <1>3 DEF InitLock, BinLock
  <2> QED
    BY <1>1, <1>2, <2>2, <2>3, <2>4, HeldStep
<1> QED
  BY <1>6, <1>7

-----------------------------------------------------------------------------
(* Steps that change the tags of the chunks a thread holds                 *)

\* Label joins the chunks from lo to hi into one.
LEMMA LabelTags ==
  ASSUME IInv, NEW n \in Nodes, NEW lo \in Heads(n), NEW hi \in Heads(n), lo < hi,
         NEW size, size = hi - lo, NEW inuse \in BOOLEAN, Label(n, lo, size, inuse)
  PROVE  /\ Within(n, lo, hi) /\ Tiled(csize'[n], psize'[n])
         /\ csize' \in [Nodes -> Tags] /\ psize' \in [Nodes -> Tags]
         /\ csize'[n][lo] = Word(size, inuse) /\ psize'[n][hi] = Word(size, inuse)
         /\ \A o \in Heads(n)' : o \in Heads(n) /\ (o <= lo \/ o >= hi)
<1>1. /\ csize \in [Nodes -> Tags] /\ psize \in [Nodes -> Tags]
      /\ csize[n] \in Tags /\ psize[n] \in Tags /\ Tiled(csize[n], psize[n])
      /\ lo \in Nat /\ hi \in Nat
  BY ArenaFacts DEF IInv, Types
<1>2. PICK C \in Tags, P \in Tags : C = csize[n] /\ P = psize[n]
  BY <1>1
<1>3. size \in Nat /\ hi = lo + size
  BY <1>1
<1>4. PICK w \in Words : w = Word(size, inuse)
  BY <1>3, WordFacts
<1>5. PICK K : K = {o \in DOMAIN C : o <= lo \/ o >= hi}
  OBVIOUS
<1>6. PICK C2 : C2 = [o \in K |-> IF o = lo THEN w ELSE C[o]]
  OBVIOUS
<1>7. PICK P2 : P2 = [o \in K |-> IF o = hi THEN w ELSE P[o]]
  OBVIOUS
<1>8. Outside(n, lo, size) = K
  BY <1>2, <1>3, <1>5 DEF Outside
<1>9. csize' = [csize EXCEPT ![n] = C2] /\ psize' = [psize EXCEPT ![n] = P2]
  BY <1>2, <1>3, <1>4, <1>6, <1>7, <1>8 DEF Label
<1>10. csize'[n] = C2 /\ psize'[n] = P2
       /\ \A m \in Nodes \ {n} : csize'[m] = csize[m] /\ psize'[m] = psize[m]
  BY <1>1, <1>9
<1>11. lo \in DOMAIN C /\ hi \in DOMAIN C /\ Tiled(C, P) /\ w = Word(hi - lo, inuse)
  BY <1>1, <1>2, <1>4 DEF Heads
<1>12. Tiled(C2, P2) /\ C2 \in Tags /\ P2 \in Tags /\ Same(C, P, C2, P2, lo, hi)
  BY <1>5, <1>6, <1>7, <1>11, MergedTiled
<1>13. Within(n, lo, hi)
  BY <1>2, <1>10, <1>12 DEF Within
<1>14. csize' \in [Nodes -> Tags] /\ psize' \in [Nodes -> Tags]
  BY <1>1, <1>9, <1>12
<1>15. lo \in K /\ hi \in K /\ lo # hi
  BY <1>1, <1>5, <1>11
<1>16. C2[lo] = w /\ P2[hi] = w /\ DOMAIN C2 = K
  BY <1>6, <1>7, <1>15
<1>17. \A o \in Heads(n)' : o \in Heads(n) /\ (o <= lo \/ o >= hi)
  BY <1>2, <1>5, <1>10, <1>16 DEF Heads
<1> QED
  BY <1>4, <1>10, <1>12, <1>13, <1>14, <1>16, <1>17

\* A chunk has become two.
Divided(n, at, want, size, inuse) ==
  /\ csize' \in [Nodes -> Tags] /\ psize' \in [Nodes -> Tags]
  /\ Heads(n)' = Heads(n) \cup {at + want}
  /\ csize'[n][at] = Word(want, TRUE)
  /\ csize'[n][at + want] = Word(size - want, inuse)
  /\ psize'[n][at + size] = Word(size - want, inuse)

\* Split divides a chunk in two.
LEMMA SplitTags ==
  ASSUME IInv, NEW n \in Nodes, NEW at \in Heads(n), at # Sentinel,
         NEW size \in Nat, size = csize[n][at].size, NEW want \in Nat \ {0}, want < size,
         NEW inuse \in BOOLEAN, Split(n, at, want, inuse)
  PROVE  /\ Within(n, at, at + size) /\ Tiled(csize'[n], psize'[n])
         /\ Divided(n, at, want, size, inuse)
<1>1. /\ csize \in [Nodes -> Tags] /\ psize \in [Nodes -> Tags]
      /\ csize[n] \in Tags /\ psize[n] \in Tags /\ Tiled(csize[n], psize[n])
      /\ at \in Nat /\ size \in Nat
  BY ArenaFacts, ChunkFacts DEF IInv, Types
<1>2. PICK C \in Tags, P \in Tags : C = csize[n] /\ P = psize[n]
  BY <1>1
<1>3. PICK rest \in Nat : rest = at + want
  BY <1>1
<1>4. PICK w \in Words : w = Word(want, TRUE)
  BY WordFacts
<1>5. PICK v \in Words : v = Word(size - want, inuse)
  BY <1>1, WordFacts
<1>6. PICK K : K = DOMAIN C \cup {rest}
  OBVIOUS
<1>7. PICK C2 : C2 = [o \in K |-> CASE o = at -> w [] o = rest -> v [] OTHER -> C[o]]
  OBVIOUS
<1>8. PICK P2 : P2 = [o \in K |-> CASE o = rest -> w [] o = at + size -> v [] OTHER -> P[o]]
  OBVIOUS
<1>9. csize' = [csize EXCEPT ![n] = C2] /\ psize' = [psize EXCEPT ![n] = P2]
  BY <1>2, <1>3, <1>4, <1>5, <1>6, <1>7, <1>8 DEF Split
<1>10. csize'[n] = C2 /\ psize'[n] = P2
       /\ \A m \in Nodes \ {n} : csize'[m] = csize[m] /\ psize'[m] = psize[m]
  BY <1>1, <1>9
<1>11. at \in DOMAIN C /\ Tiled(C, P) /\ size = C[at].size /\ w.size = want /\ v.size = size - want
  <2>1. w.size = want
    BY <1>4, WordFacts
  <2>2. size - want \in Nat
    BY <1>1
  <2>3. v.size = size - want
    BY <2>2, <1>5, WordFacts
  <2> QED
    BY <2>1, <2>3, <1>1, <1>2 DEF Heads
<1>12. at \in K /\ rest \in K /\ at + size \in K /\ at # rest /\ at + size # rest /\ rest \notin DOMAIN C
  <2>1. at + csize[n][at].size \in Heads(n) /\ \A e \in Heads(n) : at < e => at + size <= e
    BY ChunkFacts
  <2> QED
    BY <2>1, <1>1, <1>2, <1>3, <1>6, <1>11 DEF Heads
<1>13. /\ C2[at] = w /\ C2[rest] = v /\ \A o \in DOMAIN C : o # at => C2[o] = C[o]
       /\ P2[rest] = w /\ P2[at + size] = v /\ \A o \in DOMAIN C : o # at + size => P2[o] = P[o]
       /\ DOMAIN C2 = K
  BY <1>6, <1>7, <1>8, <1>12
<1>14. C2 \in [K -> Words] /\ P2 \in [K -> Words]
  <2>1. \A o \in DOMAIN C : C[o] \in Words /\ P[o] \in Words
    BY <1>11, TiledFacts
  <2>2. \A o \in K : C2[o] \in Words /\ P2[o] \in Words
    BY <2>1, <1>6, <1>13
  <2>3. C2 \in [K -> Words]
    BY <2>2, <1>7
  <2>4. P2 \in [K -> Words]
    BY <2>2, <1>8
  <2> QED
    BY <2>3, <2>4
<1>15. Tiled(C2, P2) /\ C2 \in Tags /\ P2 \in Tags /\ Same(C, P, C2, P2, at, at + size)
  <2>1. PICK hi \in DOMAIN C : hi = at + size
    <3>1. at + csize[n][at].size \in Heads(n)
      BY ChunkFacts
    <3> QED
      BY <3>1, <1>2 DEF Heads
  <2>2. hi = at + C[at].size /\ at < rest /\ rest < hi
    BY <2>1, <1>1, <1>2, <1>3, <1>11
  <2>3. C2[at].size = rest - at /\ C2[rest].size = hi - rest
    BY <2>1, <1>1, <1>3, <1>11, <1>13
  <2>4. P2[rest] = C2[at] /\ P2[hi] = C2[rest]
        /\ \A o \in DOMAIN C : (o # at => C2[o] = C[o]) /\ (o # hi => P2[o] = P[o])
    BY <2>1, <1>13
  <2>5. C2 \in [DOMAIN C \cup {rest} -> Words] /\ P2 \in [DOMAIN C \cup {rest} -> Words]
    BY <1>6, <1>14
  <2>6. Tiled(C2, P2) /\ C2 \in Tags /\ P2 \in Tags /\ Same(C, P, C2, P2, at, hi)
    BY <1>11, <2>2, <2>3, <2>4, <2>5, SplitTiled
  <2> QED
    BY <2>1, <2>6
<1>16. Within(n, at, at + size)
  BY <1>2, <1>10, <1>15 DEF Within
<1>17. csize' \in [Nodes -> Tags] /\ psize' \in [Nodes -> Tags]
  BY <1>1, <1>9, <1>15
<1> QED
  <2>1. Heads(n)' = Heads(n) \cup {at + want}
    BY <1>2, <1>3, <1>6, <1>10, <1>13 DEF Heads
  <2> QED
    BY <2>1, <1>2, <1>3, <1>4, <1>5, <1>10, <1>13, <1>15, <1>16, <1>17 DEF Divided

\* Free chunks stay what they are when only used chunks change.
LEMMA FreeKept ==
  ASSUME IInv, NEW n \in Nodes, NEW lo \in Heads(n), NEW hi \in Heads(n), Within(n, lo, hi),
         \A c \in Heads(n) : lo <= c /\ c < hi => csize[n][c].inuse,
         \A c \in Heads(n)' : lo <= c /\ c < hi => csize'[n][c].inuse,
         NEW m \in Nodes
  PROVE  Free(m)' = Free(m) /\ \A c \in Free(m) : csize'[m][c] = csize[m][c]
<1>1. CASE m # n
  BY <1>1 DEF Within, Free
<1>2. CASE m = n
  <2>1. /\ \A o \in Nat : o <= lo \/ o >= hi => (o \in Heads(n)' <=> o \in Heads(n))
        /\ \A o \in Heads(n) : o < lo \/ o >= hi => csize'[n][o] = csize[n][o]
    BY DEF Within, Same, Heads
  <2>2. lo \in Nat /\ hi \in Nat /\ (\A c \in Heads(n) : c \in Nat) /\ \A c \in Heads(n)' : c \in Nat
    BY ArenaFacts, TagsFacts DEF Within, Heads
  <2>3. \A c \in Nat : c <= lo \/ c >= hi \/ (lo <= c /\ c < hi)
    BY <2>2
  <2>4. \A c \in Heads(n) : ~csize[n][c].inuse => c < lo \/ c >= hi
    BY <2>2
  <2>5. \A c \in Heads(n)' : ~csize'[n][c].inuse => c < lo \/ c >= hi
    BY <2>2
  <2>6. \A c \in Nat : c < lo => c <= lo
    BY <2>2
  <2>7. \A c : c \in Heads(n)' /\ ~csize'[n][c].inuse <=> c \in Heads(n) /\ ~csize[n][c].inuse
    BY <2>1, <2>2, <2>4, <2>5, <2>6
  <2>8. \A c \in Heads(n) : ~csize[n][c].inuse => csize'[n][c] = csize[n][c]
    BY <2>1, <2>4
  <2> QED
    BY <1>2, <2>7, <2>8 DEF Free, Heads
<1> QED
  BY <1>1, <1>2

\* Arenas stay tiled when the one that changes does.
LEMMA ArenaKept ==
  ASSUME IInv, NEW n \in Nodes, mapped[n], Tiled(csize'[n], psize'[n]),
         \A m \in Nodes \ {n} : csize'[m] = csize[m] /\ psize'[m] = psize[m]
                                /\ bins'[m] = bins[m] /\ binmap'[m] = binmap[m],
         mapped' = mapped, initialized' = initialized
  PROVE  \A m \in Nodes : Arena(m)'
BY DEF IInv, Arena, Heads

\* Nobody else is at the chunks that a thread holds.
LEMMA HeldOthers ==
  ASSUME IInv, NEW t \in Threads, pc[t] \in Holding, NEW n \in Nodes, n = loc[t].node,
         NEW lo \in Heads(n), lo = loc[t].self, NEW hi \in Heads(n), hi = Upto(t),
         Within(n, lo, hi), csize'[n][lo].inuse, psize'[n][hi].inuse, mapped' = mapped, Others(t)
  PROVE  /\ OthersKept(t)
         /\ \A u \in Threads \ {t} : \A c \in Nat : lo <= c /\ c < hi => ~Holds(u, n, c)'
<1>1. /\ mapped[n] /\ lo \in Heads(n) /\ hi \in Heads(n) /\ lo \in Nat /\ hi \in Nat /\ lo < hi
  BY HeldFacts
<1>2. \A c \in Heads(n) : lo <= c /\ c < hi => csize[n][c].inuse /\ Holds(t, n, c)
  BY DEF IInv, Grip, Holds
<1>3. \A u \in Threads \ {t} : \A c \in Heads(n) :
        lo <= c /\ c < hi => ~Holds(u, n, c) /\ ~Links(u, n, c)
  <2>1. ASSUME NEW u \in Threads \ {t}, NEW c \in Heads(n), lo <= c, c < hi
        PROVE  ~Holds(u, n, c) /\ ~Links(u, n, c)
    <3>1. csize[n][c].inuse /\ Holds(t, n, c)
      BY <1>2, <2>1
    <3>2. ~Holds(u, n, c)
      BY <3>1 DEF IInv, Apart
    <3>3. Links(u, n, c) => csize[n][c] = Word(loc[u].size, FALSE) /\ loc[u].size \in Nat
      BY LocFacts DEF IInv, Links, Grip
    <3> QED
      BY <3>1, <3>2, <3>3, WordFacts
  <2> QED
    BY <2>1
<1>4. OthersKept(t)
  BY <1>1, <1>3, OthersGrip
<1>5. ASSUME NEW u \in Threads \ {t}, NEW c \in Nat, lo <= c, c < hi PROVE ~Holds(u, n, c)'
  <2>1. Holds(u, n, c)' => Holds(u, n, c)
    BY <1>4 DEF OthersKept
  <2>2. Holds(u, n, c) => c \in Heads(n)
    BY DEF Holds
  <2> QED
    BY <2>1, <2>2, <1>3, <1>5
<1> QED
  BY <1>4, <1>5

\* A thread divides or merges the chunks it holds and keeps or gives what it
\* held: nothing free changes.
LEMMA UsedStep ==
  ASSUME IInv, NEW t \in Threads, pc[t] \in Holding, NEW n \in Nodes, n = loc[t].node,
         NEW lo \in Heads(n), lo = loc[t].self, NEW hi \in Heads(n), hi = Upto(t),
         Within(n, lo, hi), Tiled(csize'[n], psize'[n]),
         \A c \in Heads(n)' : lo <= c /\ c < hi => csize'[n][c].inuse,
         csize'[n][lo].inuse, psize'[n][hi].inuse,
         mapped' = mapped, initialized' = initialized, binmap' = binmap, bins' = bins,
         Others(t), KeepLocks(t), Types', Stage(t)', Locks(t)', Grip(t)', pc'[t] # "link",
         \A m \in Nodes : \A c \in Nat : Holds(t, m, c)' => m = n /\ lo <= c /\ c < hi,
         \A c \in Heads(n)' : lo <= c /\ c < hi => Taken(n, c)',
         \A b \in Given : b # Subject(t) => b \in Given',
         \A b \in Given' : b \notin Given \/ b = Subject(t) => Placed(b)',
         \A b \in Given : b # Subject(t) => b # Subject(t)',
         Distinct', Private'
  PROVE  IInv'
<1>1. /\ mapped[n] /\ lo \in Heads(n) /\ hi \in Heads(n) /\ lo \in Nat /\ hi \in Nat /\ lo < hi
  BY HeldFacts
<1>2. \A c \in Heads(n) : lo <= c /\ c < hi => csize[n][c].inuse /\ Holds(t, n, c)
  BY DEF IInv, Grip, Holds
<1>4. OthersKept(t)
  BY HeldOthers
<1>5. /\ \A o \in Nat : o <= lo \/ o >= hi => (o \in Heads(n)' <=> o \in Heads(n))
      /\ \A o \in Heads(n) : o < lo \/ o >= hi => csize'[n][o] = csize[n][o]
  BY DEF Within, Same, Heads
<1>6. \A m \in Nodes \ {n} : csize'[m] = csize[m] /\ Heads(m)' = Heads(m)
  BY DEF Within, Heads
<1>7. (\A m \in Nodes : \A c \in Heads(m) : c \in Nat) /\ \A m \in Nodes : \A c \in Heads(m)' : c \in Nat
  <2>1. \A m \in Nodes : \A c \in Heads(m) : c \in Nat
    BY ArenaFacts
  <2>2. \A c \in Heads(n)' : c \in Nat
    BY TagsFacts DEF Within, Heads
  <2> QED
    BY <2>1, <2>2, <1>6
<1>8. \A m \in Nodes : Arena(m)'
  BY <1>1, ArenaKept DEF Within
<1>9. \A m \in Nodes : \A c \in Nat : Holds(t, m, c) => m = n /\ lo <= c /\ c < hi
  BY DEF Holds
<1>10. ASSUME NEW m \in Nodes PROVE Covered(m)'
  <2>1. SUFFICES ASSUME NEW c \in Heads(m)', c # Sentinel, csize'[m][c].inuse PROVE Taken(m, c)'
    BY DEF Covered
  <2>2. CASE m = n /\ lo <= c /\ c < hi
    BY <2>2
  <2>3. CASE ~(m = n /\ lo <= c /\ c < hi)
    <3>1. c \in Nat
      BY <1>7
    <3>2. c \in Heads(m) /\ csize'[m][c] = csize[m][c]
      <4>1. CASE m # n
        BY <4>1, <1>6
      <4>2. CASE m = n
        <5>1. c < lo \/ c >= hi
          BY <3>1, <4>2, <2>3, <1>1
        <5>2. c <= lo \/ c >= hi
          BY <3>1, <5>1, <1>1
        <5> QED
          BY <3>1, <4>2, <5>1, <5>2, <1>5
      <4> QED
        BY <4>1, <4>2
    <3>3. Taken(m, c)
      BY <2>1, <3>2 DEF IInv, Covered
    <3>4. ~Holds(t, m, c)
      BY <1>9, <2>3, <3>1
    <3>5. CASE \E u \in Threads : Holds(u, m, c)
      BY <3>1, <3>4, <3>5, <1>4 DEF OthersKept, Taken
    <3>6. CASE \E b \in Given : b.heap = m /\ b.at = c
      <4>1. PICK b \in Given : b.heap = m /\ b.at = c
        BY <3>6
      <4>2. b # Subject(t)
        <5>1. ASSUME b = Subject(t) PROVE FALSE
          <6>1. b # None /\ b.heap = loc[t].node /\ b.at = loc[t].self
            BY <5>1, GivenFacts DEF Subject, IInv, Stage
          <6> QED
            BY <6>1, <4>1, <2>3, <1>1
        <5> QED
          BY <5>1
      <4> QED
        BY <4>1, <4>2 DEF Taken
    <3> QED
      BY <3>3, <3>5, <3>6 DEF Taken
  <2> QED
    BY <2>2, <2>3
<1>11. ASSUME NEW m \in Nodes PROVE Binned(m)'
  <2>1. Free(m)' = Free(m) /\ \A c \in Free(m) : csize'[m][c] = csize[m][c]
    BY <1>1, <1>2, FreeKept
  <2>2. \A u \in Threads : \A c \in Nat : Links(u, m, c)' <=> Links(u, m, c)
    BY <1>4 DEF OthersKept, Links, Holding
  <2> QED
    BY <2>1, <2>2, BinnedSame
<1>12. Apart'
  <2>1. ASSUME NEW m \in Nodes, NEW c \in Nat, Holds(t, m, c)'
        PROVE  Holds(t, m, c) \/ \A u \in Threads \ {t} : ~Holds(u, m, c)
    <3>1. m = n /\ lo <= c /\ c < hi
      BY <2>1
    <3> QED
      BY <3>1, <1>2 DEF Holds
  <2> QED
    BY <2>1, <1>4, <1>7, ApartKept
<1>13. ASSUME NEW b \in Given' PROVE Placed(b)'
  <2>1. CASE b \notin Given \/ b = Subject(t)
    BY <2>1
  <2>2. CASE b \in Given /\ b # Subject(t)
    <3>1. Placed(b) /\ b.at \in Nat
      BY <2>2, GivenFacts
    <3>2. b.heap = n => ~(lo <= b.at /\ b.at < hi)
      BY <3>1, <2>2, <1>2 DEF Placed
    <3>3. b.heap \in Nodes => b.at \in Heads(b.heap)' /\ csize'[b.heap][b.at] = csize[b.heap][b.at]
      <4>1. CASE b.heap \in Nodes \ {n}
        BY <4>1, <3>1, <1>6 DEF Placed
      <4>2. CASE b.heap = n
        <5>1. b.at < lo \/ b.at >= hi
          BY <3>1, <3>2, <4>2, <1>1
        <5>2. b.at <= lo \/ b.at >= hi
          BY <3>1, <5>1, <1>1
        <5> QED
          BY <3>1, <4>2, <5>1, <5>2, <1>5 DEF Placed
      <4> QED
        BY <4>1, <4>2
    <3>4. b.heap \in Nodes => ~Holds(t, b.heap, b.at)'
      BY <3>1, <3>2
    <3> QED
      BY <2>2, <3>3, <3>4, <1>4, PlacedKept
  <2> QED
    BY <2>1, <2>2
<1> QED
  BY <1>4, <1>8, <1>10, <1>11, <1>12, <1>13, Assemble

\* What a thread holds has become one chunk.
Joined(t, n, lo, hi, size, inuse) ==
  /\ mapped[n] /\ lo \in Nat /\ lo # Sentinel /\ hi \in Nat
  /\ size \in Nat \ {0} /\ lo < hi /\ hi = lo + size /\ hi = loc[t].next
  /\ Within(n, lo, hi) /\ Tiled(csize'[n], psize'[n])
  /\ csize' \in [Nodes -> Tags] /\ psize' \in [Nodes -> Tags]
  /\ csize'[n][lo] = Word(size, inuse) /\ psize'[n][hi] = Word(size, inuse)
  /\ csize'[n][lo].inuse = inuse /\ psize'[n][hi].inuse = inuse /\ csize'[n][lo].size = size
  /\ lo \in Heads(n)' /\ hi \in Heads(n)'
  /\ \A c \in Heads(n)' : lo <= c /\ c < hi => c = lo

\* A thread labels what it holds as one chunk.
LEMMA HeldLabel ==
  ASSUME IInv, NEW t \in Threads, pc[t] \in Works, NEW n \in Nodes, n = loc[t].node,
         NEW lo \in Heads(n), lo = loc[t].self, NEW hi \in Heads(n), hi = Upto(t),
         NEW size \in Nat, size = loc[t].size, NEW inuse \in BOOLEAN, Label(n, lo, size, inuse)
  PROVE  Joined(t, n, lo, hi, size, inuse)
<1>1. /\ n \in Nodes /\ mapped[n] /\ lo \in Heads(n) /\ hi \in Heads(n) /\ lo \in Nat /\ hi \in Nat
      /\ lo < hi /\ lo # Sentinel /\ hi = loc[t].next /\ loc[t].next = lo + size /\ size > 0
  BY HeldFacts DEF Works
<1>2. size \in Nat
  BY HeldTypes DEF Locals
<1>3. size = hi - lo
  BY <1>1, <1>2
<1>4. Within(n, lo, hi) /\ Tiled(csize'[n], psize'[n])
  BY <1>1, <1>3, LabelTags
<1>5. csize' \in [Nodes -> Tags] /\ psize' \in [Nodes -> Tags]
  BY <1>1, <1>3, LabelTags
<1>6. csize'[n][lo] = Word(size, inuse) /\ psize'[n][hi] = Word(size, inuse)
  BY <1>1, <1>3, LabelTags
<1>7. \A o \in Heads(n)' : o \in Heads(n) /\ (o <= lo \/ o >= hi)
  BY <1>1, <1>3, LabelTags
<1>8. csize'[n][lo].inuse = inuse /\ psize'[n][hi].inuse = inuse /\ csize'[n][lo].size = size
  BY <1>2, <1>6, WordFacts
<1>9. lo \in Heads(n)' /\ hi \in Heads(n)'
  BY <1>1, <1>4 DEF Within, Same, Heads
<1>10. \A c \in Heads(n)' : lo <= c /\ c < hi => c = lo
  <2>1. \A c \in Heads(n)' : c \in Nat
    BY <1>1, <1>7, ArenaFacts
  <2> QED
    BY <2>1, <1>1, <1>7
<1> QED
  BY <1>1, <1>2, <1>4, <1>5, <1>6, <1>8, <1>9, <1>10 DEF Joined

\* popcorn_free looks at both neighbours, and labels its chunk.
LEMMA TestStep ==
  ASSUME IInv, NEW t \in Threads, Test(t)
  PROVE  IInv'
<1>1. pc[t] = "test" /\ pc[t] \in Works /\ pc[t] \in Holding
      /\ UNCHANGED <<arenas, lists, owner, live, loc, calls>>
  BY DEF Test, Works, Holding
<1>2. Types /\ loc[t] \in Locals /\ loc[t].then # "grown" /\ Become(t, loc[t])
      /\ Stage(t) /\ Locks(t) /\ Grip(t)
  BY <1>1, HeldTypes, Stayed
<1>3. KeepLocks(t) /\ (\A m \in DOMAIN owner' : owner'[m] \in Threads) /\ \A m : Owns(t, m) => Owns(t, m)'
  BY <1>1, <1>2, LocksUntouched
<1>4. CASE ~Between(loc[t].node, loc[t].self, loc[t].next)
  <2>1. Goto(t, "rev") /\ UNCHANGED tags /\ "rev" \in Works
    BY <1>4 DEF Test, Works, Holding
  <2> QED
    BY <1>1, <1>2, <1>3, <2>1, HeldStep
<1>5. CASE Between(loc[t].node, loc[t].self, loc[t].next)
  <2>1. PICK n \in Nodes : n = loc[t].node
    BY <1>1, HeldFacts
  <2>2. PICK lo \in Heads(n) : lo = loc[t].self
    BY <1>1, <2>1, HeldFacts
  <2>3. PICK hi \in Heads(n) : hi = Upto(t)
    BY <1>1, <2>1, HeldFacts
  <2>4. PICK size \in Nat : size = loc[t].size
    BY <1>2 DEF Locals
  <2>5. PICK inuse \in BOOLEAN : inuse = TRUE
    OBVIOUS
  <2>6. Label(n, lo, size, inuse) /\ Goto(t, "lockBin")
    BY <2>5, <1>5, <2>1, <2>2, <2>4 DEF Test
  <2>70. Joined(t, n, lo, hi, size, inuse)
    BY <1>1, <2>1, <2>2, <2>3, <2>4, <2>5, <2>6, HeldLabel
  <2>71. mapped[n] /\ lo \in Nat /\ lo # Sentinel /\ hi \in Nat
         /\ size \in Nat \ {0} /\ lo < hi /\ hi = lo + size /\ hi = loc[t].next
    BY <2>70 DEF Joined
  <2>72. Within(n, lo, hi) /\ Tiled(csize'[n], psize'[n])
         /\ csize' \in [Nodes -> Tags] /\ psize' \in [Nodes -> Tags]
    BY <2>70 DEF Joined
  <2>73. csize'[n][lo].inuse = inuse /\ psize'[n][hi].inuse = inuse
         /\ lo \in Heads(n)' /\ hi \in Heads(n)'
         /\ \A c \in Heads(n)' : lo <= c /\ c < hi => c = lo
    BY <2>70 DEF Joined
  <2>7. csize'[n][lo].inuse /\ psize'[n][hi].inuse
    BY <2>73, <2>5
  <2>8. /\ pc' \in [Threads -> PCs] /\ pc'[t] = "lockBin"
        /\ loc' \in [Threads -> Locals] /\ loc'[t] = loc[t] /\ Others(t)
    BY <1>2, <2>6, Moved DEF PCs
  <2>9. Types'
    BY <1>1, <1>2, <1>3, <2>7, <2>71, <2>72, <2>73, <2>8 DEF Types, arenas, lists
  <2>10. Stage(t)'
    BY <1>1, <1>2, <2>8 DEF Stage, Searches
  <2>11. Locks(t)'
    BY <1>1, <1>2, <2>8 DEF Locks, Owns, arenas
  <2>14. Upto(t)' = hi
    BY <2>7, <2>71, <2>72, <2>73, <2>8 DEF Upto
  <2>15. Grip(t)'
    BY <1>1, <2>1, <2>2, <2>4, <2>7, <2>71, <2>72, <2>73, <2>8, <2>14 DEF Grip, Holding, arenas
  <2>16. Subject(t) = None /\ Subject(t)' = None
    BY <1>1, <1>2, <2>8 DEF Subject
  <2>17. Given' = Given /\ Distinct' /\ Private'
    BY <1>1, <2>8, GivenKept DEF BlocksKept
  <2>18. \A m \in Nodes : \A c \in Nat : Holds(t, m, c)' => m = n /\ lo <= c /\ c < hi
    BY <2>1, <2>2, <2>8, <2>14 DEF Holds
  <2>19. Taken(n, lo)'
    BY <2>1, <2>2, <2>7, <2>71, <2>72, <2>73, <2>8, <2>14 DEF Taken, Holds, Holding
  <2>20. /\ \A c \in Heads(n)' : lo <= c /\ c < hi => csize'[n][c].inuse
         /\ \A c \in Heads(n)' : lo <= c /\ c < hi => Taken(n, c)'
    BY <2>7, <2>71, <2>72, <2>73, <2>19
  <2>21. /\ \A b \in Given : b # Subject(t) => b \in Given'
         /\ \A b \in Given' : b \notin Given \/ b = Subject(t) => Placed(b)'
         /\ \A b \in Given : b # Subject(t) => b # Subject(t)'
    BY <2>16, <2>17, GivenFacts
  <2>22. /\ mapped' = mapped /\ initialized' = initialized /\ binmap' = binmap /\ bins' = bins
         /\ pc'[t] # "link" /\ pc[t] \in Holding /\ Others(t)
    BY <1>1, <2>8 DEF arenas, lists
  <2> QED
    BY <1>3, <2>1, <2>2, <2>3, <2>7, <2>71, <2>72, <2>73, <2>9, <2>10, <2>11, <2>15,
       <2>17, <2>18, <2>20, <2>21, <2>22, UsedStep, ZenonT(60)
<1> QED
  BY <1>4, <1>5

\* The chunk a thread trims is that of the block it has got.
LEMMA TrimFacts ==
  ASSUME IInv, NEW t \in Threads, pc[t] = "trim"
  PROVE  /\ pc[t] \in Holding /\ Subject(t) = loc[t].res /\ loc[t].res \in Given
         /\ loc[t].res # None /\ loc[t].res.heap = loc[t].node /\ loc[t].res.at = loc[t].self
         /\ loc[t].res.size = loc[t].want /\ loc[t].want \in Nat \ {0}
         /\ loc[t].then \in {"idle", "served", "shrunk"}
         /\ loc[t].then = "idle" => loc[t].old = None
         /\ loc[t].then = "shrunk" => loc[t].old # None /\ loc[t].want > 1
         /\ loc[t].init => loc[t].then # "idle"
         /\ Upto(t) = loc[t].self + csize[loc[t].node][loc[t].self].size
         /\ loc[t].want <= csize[loc[t].node][loc[t].self].size
<1>1. Types /\ Stage(t) /\ Grip(t)
  BY DEF IInv
<1>2. pc[t] \in Holding /\ loc[t].then # "grown" /\ loc[t].then \in {"idle", "served", "shrunk"}
      /\ loc[t].want \in Nat \ {0}
  BY <1>1, LocFacts DEF Stage, Holding
<1>3. Subject(t) = loc[t].res
  BY <1>2 DEF Subject
<1>4. loc[t].res # None /\ loc[t].res \in Given
  BY <1>1, <1>2 DEF Stage, Pending, Given, IInv, Private
<1> QED
  BY <1>1, <1>2, <1>3, <1>4 DEF Stage, Upto, Grip

\* trim of a chunk that has no excess.
LEMMA TrimExact ==
  ASSUME IInv, NEW t \in Threads, Trim(t),
         loc[t].want >= csize[loc[t].node][loc[t].self].size
  PROVE  IInv'
<1>1. pc[t] = "trim" /\ Resume(t) /\ UNCHANGED tags /\ UNCHANGED <<arenas, lists, owner, live, calls>>
  BY DEF Trim
<1>2. Types /\ loc[t] \in Locals /\ Stage(t) /\ Locks(t) /\ Grip(t) /\ calls \in Nat
  BY HeldTypes DEF Types
<1>3. PICK n \in Nodes : n = loc[t].node
  BY <1>1, HeldFacts DEF Holding
<1>4. PICK lo \in Heads(n) : lo = loc[t].self
  BY <1>1, <1>3, HeldFacts DEF Holding
<1>5. PICK hi \in Heads(n) : hi = Upto(t)
  BY <1>1, <1>3, HeldFacts DEF Holding
<1>6. PICK b \in Given : b = loc[t].res
  BY <1>1, TrimFacts
<1>7. /\ pc[t] \in Holding /\ Subject(t) = b /\ b # None /\ b.heap = n /\ b.at = lo
      /\ loc[t].then \in {"idle", "served", "shrunk"}
      /\ loc[t].then = "idle" => loc[t].old = None
      /\ loc[t].init => loc[t].then # "idle"
      /\ b.size = csize[n][lo].size /\ hi = lo + csize[n][lo].size
      /\ loc[t].want \in Nat \ {0} /\ loc[t].then = "shrunk" => loc[t].want > 1
  <2>1. csize[n][lo].size \in Nat
    BY ChunkFacts
  <2> QED
    BY <2>1, <1>1, <1>3, <1>4, <1>5, <1>6, TrimFacts
<1>8. mapped[n] /\ lo \in Nat /\ hi \in Nat /\ lo < hi /\ lo # Sentinel
  BY <1>3, <1>4, <1>5, <1>7, HeldFacts
<1>9. csize[n][lo].inuse /\ psize[n][hi] = csize[n][lo] /\ \A c \in Heads(n) : lo <= c /\ c < hi => c = lo
  <2>1. Holds(t, n, lo)
    BY <1>3, <1>4, <1>7, HeldFacts
  <2>2. csize[n][lo].inuse
    BY <2>1, <1>2, <1>3, <1>4, <1>7 DEF Grip, Holds
  <2>3. psize[n][hi] = csize[n][lo]
    BY <1>7, <1>8, ChunkFacts
  <2>4. \A c \in Heads(n) : lo < c => lo + csize[n][lo].size <= c
    BY ChunkFacts
  <2>5. \A c \in Heads(n) : c \in Nat
    BY ArenaFacts
  <2>6. \A c \in Heads(n) : lo <= c /\ c < hi => c = lo
    BY <2>4, <2>5, <1>7, <1>8
  <2> QED
    BY <2>2, <2>3, <2>6
<1>10. PICK r : r = IF loc[t].then = "idle" THEN Idle ELSE loc[t]
  OBVIOUS
<1>11. r \in Locals /\ Goto(t, loc[t].then) /\ Become(t, r) /\ loc[t].then \in PCs
  BY <1>1, <1>2, <1>7, <1>10, IdleType DEF Resume, PCs
<1>12. /\ pc' \in [Threads -> PCs] /\ pc'[t] = loc[t].then
       /\ loc' \in [Threads -> Locals] /\ loc'[t] = r /\ Others(t)
  BY <1>2, <1>11, Moved
<1>13. KeepLocks(t) /\ (\A m \in DOMAIN owner' : owner'[m] \in Threads) /\ \A m : Owns(t, m) => Owns(t, m)'
  BY <1>1, <1>2, LocksUntouched
<1>14. Types'
  BY <1>1, <1>2, <1>12, <1>13 DEF Types, arenas, lists, tags
<1>15. BlocksKept(t)
  <2>1. CASE loc[t].then = "idle"
    BY <2>1, <1>1, <1>7, <1>10, <1>12, IdleType DEF BlocksKept, Pending
  <2>2. CASE loc[t].then # "idle"
    BY <2>2, <1>1, <1>7, <1>10, <1>12 DEF BlocksKept
  <2> QED
    BY <2>1, <2>2
<1>16. Given' = Given /\ Distinct' /\ Private'
  BY <1>12, <1>15, GivenKept
<1>17. Stage(t)'
  <2>1. CASE loc[t].then = "idle"
    BY <2>1, <1>10, <1>12, IdleType DEF Stage, Searches
  <2>2. CASE loc[t].then # "idle"
    BY <2>2, <1>1, <1>2, <1>3, <1>7, <1>10, <1>12 DEF Stage, Searches
  <2> QED
    BY <2>1, <2>2
<1>18. Locks(t)'
  <2>1. CASE loc[t].then = "idle"
    BY <2>1, <1>10, <1>12, IdleType DEF Locks
  <2>2. CASE loc[t].then # "idle"
    BY <2>2, <1>1, <1>2, <1>3, <1>7, <1>10, <1>12, <1>13 DEF Locks, arenas
  <2> QED
    BY <2>1, <2>2
<1>19. pc'[t] \notin Holding \cup {"link"} /\ Grip(t)' /\ Subject(t)' = None
       /\ \A m \in Nodes : \A c \in Nat : ~Holds(t, m, c)'
  <2>1. pc'[t] \notin Holding \cup {"link"}
    BY <1>7, <1>12 DEF Holding
  <2>2. loc'[t].then # "grown"
    BY <1>7, <1>10, <1>12, IdleType
  <2> QED
    BY <2>1, <2>2 DEF Grip, Holds, Holding, Subject
<1>20. Within(n, lo, hi)
  <2>1. csize[n] \in Tags /\ psize[n] \in Tags
    BY <1>2, TagTypes
  <2> QED
    BY <2>1, <1>1 DEF Within, Same, tags
<1>21. Tiled(csize'[n], psize'[n])
  BY <1>1, <1>8, ArenaFacts DEF tags
<1>22. /\ \A c \in Heads(n)' : lo <= c /\ c < hi => csize'[n][c].inuse
       /\ csize'[n][lo].inuse /\ psize'[n][hi].inuse
  BY <1>1, <1>9 DEF tags, Heads
<1>23. \A c \in Heads(n)' : lo <= c /\ c < hi => Taken(n, c)'
  BY <1>1, <1>6, <1>7, <1>9, <1>16 DEF tags, Heads, Taken
<1>24. Placed(b)'
  <2>1. Placed(b)
    BY GivenFacts
  <2>2. OthersKept(t)
    BY <1>1, <1>12, OthersUntouched DEF arenas, tags
  <2>3. \A m \in Nodes : mapped[m] => mapped'[m]
    BY <1>1 DEF arenas
  <2>4. b.at \in Heads(b.heap)' /\ csize'[b.heap][b.at] = csize[b.heap][b.at]
    BY <1>1, <1>7 DEF tags, Heads
  <2>5. ~Holds(t, b.heap, b.at)' /\ csize[b.heap][b.at].size = b.size
    BY <1>7, <1>8, <1>19
  <2> QED
    BY <1>12, <2>2, <2>3, <2>4, <2>5, PlacedKept
<1>25. /\ \A e \in Given : e # Subject(t) => e \in Given'
       /\ \A e \in Given' : e \notin Given \/ e = Subject(t) => Placed(e)'
       /\ \A e \in Given : e # Subject(t) => e # Subject(t)'
  <2>1. \A e \in Given : e # None
    BY GivenFacts
  <2> QED
    BY <2>1, <1>7, <1>16, <1>19, <1>24
<1>26. /\ mapped' = mapped /\ initialized' = initialized /\ binmap' = binmap /\ bins' = bins
       /\ pc'[t] # "link"
  BY <1>1, <1>19 DEF arenas, lists
<1>27. \A m \in Nodes : \A c \in Nat : Holds(t, m, c)' => m = n /\ lo <= c /\ c < hi
  BY <1>19
<1> QED
  BY <1>3, <1>4, <1>5, <1>7, <1>12, <1>13, <1>14, <1>16, <1>17, <1>18, <1>19, <1>20,
     <1>21, <1>22, <1>23, <1>25, <1>26, <1>27, UsedStep, ZenonT(60)

\* trim of a chunk that is divided: the thread goes on to free the rest.
LEMMA TrimSplit ==
  ASSUME IInv, NEW t \in Threads, Trim(t),
         loc[t].want < csize[loc[t].node][loc[t].self].size
  PROVE  IInv'
<1>1. pc[t] = "trim" /\ UNCHANGED <<arenas, lists, owner, live, calls>>
  BY DEF Trim
<1>2. Types /\ loc[t] \in Locals /\ Stage(t) /\ Locks(t) /\ Grip(t) /\ calls \in Nat
  BY HeldTypes DEF Types
<1>3. PICK n \in Nodes : n = loc[t].node
  BY <1>1, HeldFacts DEF Holding
<1>4. PICK lo \in Heads(n) : lo = loc[t].self
  BY <1>1, <1>3, HeldFacts DEF Holding
<1>5. PICK hi \in Heads(n) : hi = Upto(t)
  BY <1>1, <1>3, HeldFacts DEF Holding
<1>6. PICK b \in Given : b = loc[t].res
  BY <1>1, TrimFacts
<1>7. PICK size \in Nat : size = csize[n][lo].size
  BY ChunkFacts
<1>8. PICK want \in Nat \ {0} : want = loc[t].want
  BY <1>1, TrimFacts
<1>9. /\ pc[t] \in Holding /\ Subject(t) = b /\ b # None /\ b.heap = n /\ b.at = lo
      /\ loc[t].then \in {"idle", "served", "shrunk"}
      /\ b.size = want /\ hi = lo + size
  BY <1>1, <1>3, <1>4, <1>5, <1>6, <1>7, <1>8, TrimFacts
<1>10. mapped[n] /\ lo \in Nat /\ hi \in Nat /\ lo < hi /\ lo # Sentinel /\ want < size
  BY <1>3, <1>4, <1>5, <1>7, <1>8, <1>9, HeldFacts
<1>11. PICK rest \in Nat : rest = lo + want
  BY <1>10
<1>12. PICK inuse \in BOOLEAN : inuse = TRUE
  OBVIOUS
<1>13. PICK r : r = [loc[t] EXCEPT !.self = rest, !.next = lo + size, !.size = size - want]
  OBVIOUS
<1>14. Split(n, lo, want, inuse) /\ Become(t, r) /\ Goto(t, "test")
  <2>1. ~(want >= size)
    BY <1>10
  <2>2. /\ Split(n, lo, want, TRUE)
        /\ Become(t, [loc[t] EXCEPT !.self = lo + want, !.next = lo + size, !.size = size - want])
        /\ Goto(t, "test")
    BY <2>1, <1>3, <1>4, <1>7, <1>8, Zenon DEF Trim
  <2> QED
    BY <2>2, <1>11, <1>12, <1>13
<1>15. /\ r \in Locals /\ r.self = rest /\ r.next = hi /\ r.size = size - want /\ r.size > 0
       /\ r.want = loc[t].want /\ r.node = n /\ r.init = loc[t].init /\ r.then = loc[t].then
       /\ r.old = loc[t].old /\ r.res = loc[t].res /\ hi = rest + r.size
  <2>1. PICK left \in Nat \ {0} : left = size - want
    BY <1>8, <1>10
  <2>2. r = [loc[t] EXCEPT !.self = rest, !.next = hi, !.size = left]
    BY <2>1, <1>9, <1>13
  <2>3. /\ r \in Locals /\ r.self = rest /\ r.next = hi /\ r.size = left
        /\ r.want = loc[t].want /\ r.node = n /\ r.init = loc[t].init /\ r.then = loc[t].then
        /\ r.old = loc[t].old /\ r.res = loc[t].res
    BY <2>2, <1>2, <1>3, <1>10 DEF Locals
  <2>4. hi = rest + left
    BY <2>1, <1>9, <1>10, <1>11
  <2> QED
    BY <2>1, <2>3, <2>4
<1>16. /\ pc' \in [Threads -> PCs] /\ pc'[t] = "test"
       /\ loc' \in [Threads -> Locals] /\ loc'[t] = r /\ Others(t)
  BY <1>2, <1>14, <1>15, Moved DEF PCs
<1>17. KeepLocks(t) /\ (\A m \in DOMAIN owner' : owner'[m] \in Threads) /\ \A m : Owns(t, m) => Owns(t, m)'
  BY <1>1, <1>2, LocksUntouched
<1>18. Within(n, lo, hi) /\ Tiled(csize'[n], psize'[n]) /\ Divided(n, lo, want, size, inuse)
  <2>1. Within(n, lo, lo + size)
    BY <1>3, <1>4, <1>7, <1>8, <1>10, <1>12, <1>14, SplitTags
  <2>2. Tiled(csize'[n], psize'[n])
    BY <1>3, <1>4, <1>7, <1>8, <1>10, <1>12, <1>14, SplitTags
  <2>3. Divided(n, lo, want, size, inuse)
    BY <1>3, <1>4, <1>7, <1>8, <1>10, <1>12, <1>14, SplitTags
  <2> QED
    BY <2>1, <2>2, <2>3, <1>9
<1>19. csize' \in [Nodes -> Tags] /\ psize' \in [Nodes -> Tags] /\ Heads(n)' = Heads(n) \cup {rest}
  BY <1>11, <1>18 DEF Divided
<1>20. csize'[n][lo] = Word(want, TRUE) /\ csize'[n][rest] = Word(size - want, inuse)
       /\ psize'[n][hi] = Word(size - want, inuse)
  BY <1>9, <1>11, <1>18 DEF Divided
<1>21. csize'[n][lo].inuse /\ csize'[n][lo].size = want /\ csize'[n][rest].inuse /\ psize'[n][hi].inuse
  <2>1. size - want \in Nat
    BY <1>10
  <2> QED
    BY <2>1, <1>12, <1>20, WordFacts
<1>22. \A c \in Heads(n)' : lo <= c /\ c < hi => c = lo \/ c = rest
  <2>1. \A c \in Heads(n) : lo < c => lo + csize[n][lo].size <= c
    BY ChunkFacts
  <2>2. \A c \in Heads(n) : c \in Nat
    BY ArenaFacts
  <2> QED
    BY <2>1, <2>2, <1>7, <1>9, <1>10, <1>19
<1>23. rest # Sentinel /\ lo < rest /\ rest < hi
  <2>1. hi <= Sentinel
    <3>1. Heads(n) \subseteq 0 .. Sentinel
      BY <1>10, EndFacts
    <3> QED
      BY <3>1
  <2> QED
    BY <2>1, <1>9, <1>10, <1>11, Sizes
<1>24. Types'
  BY <1>1, <1>2, <1>16, <1>17, <1>19 DEF Types, arenas, lists
<1>25. BlocksKept(t)
  BY <1>1, <1>15, <1>16 DEF BlocksKept
<1>26. Given' = Given /\ Distinct' /\ Private'
  BY <1>16, <1>25, GivenKept
<1>27. Stage(t)'
  BY <1>1, <1>2, <1>3, <1>9, <1>15, <1>16 DEF Stage, Searches
<1>28. Locks(t)'
  BY <1>1, <1>2, <1>3, <1>15, <1>16, <1>17 DEF Locks, arenas
<1>29. Upto(t)' = hi
  BY <1>15, <1>16 DEF Upto
<1>30. Grip(t)'
  <2>1. n \in Nodes /\ mapped'[n] /\ rest \in Heads(n)' /\ hi \in Heads(n)'
    BY <1>1, <1>10, <1>19 DEF arenas
  <2>2. \A c \in Heads(n)' : c \in Nat
    BY <1>19, ArenaFacts
  <2>3. \A c \in Heads(n)' : rest <= c /\ c < hi => csize'[n][c].inuse
    BY <2>2, <1>10, <1>21, <1>22, <1>23
  <2> QED
    BY <2>1, <2>3, <1>15, <1>16, <1>23, <1>29 DEF Grip
<1>31. Subject(t)' = None
  BY <1>9, <1>15, <1>16 DEF Subject
<1>32. \A m \in Nodes : \A c \in Nat : Holds(t, m, c)' => m = n /\ rest <= c /\ c < hi
  BY <1>15, <1>16, <1>29 DEF Holds
<1>33. \A m \in Nodes : \A c \in Nat : Holds(t, m, c)' => m = n /\ lo <= c /\ c < hi
  BY <1>10, <1>11, <1>32
<1>34. Taken(n, lo)' /\ Taken(n, rest)'
  <2>1. Taken(n, lo)'
    BY <1>9, <1>26 DEF Taken
  <2>2. Holds(t, n, rest)'
    BY <1>15, <1>16, <1>19, <1>23, <1>29 DEF Holds, Holding
  <2> QED
    BY <2>1, <2>2 DEF Taken
<1>35. /\ \A c \in Heads(n)' : lo <= c /\ c < hi => csize'[n][c].inuse
       /\ \A c \in Heads(n)' : lo <= c /\ c < hi => Taken(n, c)'
  BY <1>21, <1>22, <1>34
<1>36. /\ mapped' = mapped /\ initialized' = initialized /\ binmap' = binmap /\ bins' = bins
       /\ pc'[t] # "link"
  BY <1>1, <1>16 DEF arenas, lists
<1>37. \A u \in Threads : ~Holds(u, n, lo)'
  <2>1. \A u \in Threads \ {t} : \A c \in Nat : lo <= c /\ c < hi => ~Holds(u, n, c)'
    BY <1>3, <1>4, <1>5, <1>9, <1>16, <1>18, <1>21, <1>36, HeldOthers
  <2>2. ~Holds(t, n, lo)'
    BY <1>10, <1>23, <1>32
  <2> QED
    BY <2>1, <2>2, <1>10
<1>38. Placed(b)'
  BY <1>1, <1>8, <1>9, <1>10, <1>19, <1>21, <1>37 DEF Placed, arenas
<1>39. /\ \A e \in Given : e # Subject(t) => e \in Given'
       /\ \A e \in Given' : e \notin Given \/ e = Subject(t) => Placed(e)'
       /\ \A e \in Given : e # Subject(t) => e # Subject(t)'
  <2>1. \A e \in Given : e # None
    BY GivenFacts
  <2> QED
    BY <2>1, <1>9, <1>26, <1>31, <1>38
<1> QED
  BY <1>3, <1>4, <1>5, <1>9, <1>16, <1>17, <1>18, <1>21, <1>24, <1>26, <1>27, <1>28, <1>30,
     <1>33, <1>35, <1>36, <1>39, UsedStep, ZenonT(180)

\* trim.
LEMMA TrimStep ==
  ASSUME IInv, NEW t \in Threads, Trim(t)
  PROVE  IInv'
<1>1. loc[t].want >= csize[loc[t].node][loc[t].self].size
      \/ loc[t].want < csize[loc[t].node][loc[t].self].size
  BY HeldFacts, ChunkFacts, LocFacts DEF Trim, Holding, IInv
<1> QED
  BY <1>1, TrimExact, TrimSplit

\* The blocks calls are about are all given out.
LEMMA CallBlocks ==
  ASSUME IInv, NEW u \in Threads
  PROVE  /\ loc[u].old # None => loc[u].old \in live /\ loc[u].old \in Given
         /\ loc[u].res # None => loc[u].res \in Given
         /\ Subject(u) # None => Subject(u) \in Given
<1>1. Stage(u) /\ loc[u].then \in {"idle", "served", "shrunk", "grown"}
  BY LocFacts DEF IInv
<1>2. loc[u].old # None => loc[u].old \in live /\ loc[u].old \in Given
  BY DEF IInv, Private, Given
<1>3. loc[u].res # None => loc[u].res \in Given
  BY <1>1 DEF IInv, Private, Given, Pending, Stage
<1> QED
  BY <1>2, <1>3 DEF Subject

\* A block that grows or shrinks in place takes the place of what it was.
LEMMA GivenReplaced ==
  ASSUME IInv, NEW t \in Threads, Others(t), NEW a \in live, a = loc[t].old, loc[t].then = "grown",
         NEW b \in Blocks, b.heap = a.heap, b.at = a.at, live' = (live \ {a}) \cup {b},
         \/ loc'[t].old = None /\ loc'[t].res = b /\ loc'[t].then = "idle"
         \/ loc'[t].old = b /\ loc'[t].res = None
  PROVE  Given' = (Given \ {a}) \cup {b} /\ Distinct' /\ Private'
         /\ \A e \in Given : e # a => e # b
<1>1. loc[t].res = None /\ a # None /\ b # None /\ a \in Given /\ ~Pending(t) /\ ~Pending(t)'
  BY Names, CallBlocks, GivenFacts DEF IInv, Stage, Given, Pending
<1>2. \A e \in Given : e # a => e # b
  BY <1>1 DEF IInv, Distinct
<1>3. \A u \in Threads \ {t} : /\ loc'[u] = loc[u]
                               /\ Pending(u)' <=> Pending(u)
                               /\ loc[u].old # None => loc[u].old # b
                               /\ loc[u].old # a /\ loc[u].res # a
                               /\ loc[u].res # None => loc[u].res # b
  <2>1. \A u \in Threads \ {t} : loc'[u] = loc[u] /\ (Pending(u)' <=> Pending(u))
    BY DEF Others, Pending
  <2>2. \A u \in Threads \ {t} : loc[u].old # a /\ loc[u].res # a
    BY <1>1 DEF IInv, Private
  <2>3. \A u \in Threads \ {t} : /\ loc[u].old # None => loc[u].old # b
                                 /\ loc[u].res # None => loc[u].res # b
    BY <2>2, <1>2, CallBlocks
  <2> QED
    BY <2>1, <2>2, <2>3
<1>4. Given' = (Given \ {a}) \cup {b}
  <2>1. \A e : e \in Given' <=> e \in live' \/ \E u \in Threads : Pending(u)' /\ e = loc'[u].res
    BY DEF Given
  <2>2. \A e : e \in Given <=> e \in live \/ \E u \in Threads : Pending(u) /\ e = loc[u].res
    BY DEF Given
  <2>3. \A e : (\E u \in Threads : Pending(u)' /\ e = loc'[u].res)
               <=> \E u \in Threads : Pending(u) /\ e = loc[u].res
    BY <1>1, <1>3
  <2>4. \A u \in Threads : Pending(u) => loc[u].res # a
    BY <1>1, <1>3
  <2> QED
    BY <2>1, <2>2, <2>3, <2>4
<1>5. Distinct'
  <2>1. \A e \in Given \ {a} : ~(e.heap = b.heap /\ e.at = b.at)
    BY <1>1 DEF IInv, Distinct
  <2> QED
    BY <1>4, <2>1 DEF IInv, Distinct
<1>6. Private'
  <2>1. Private
    BY DEF IInv
  <2>2. \A u \in Threads : loc'[u].old # None => loc'[u].old \in live'
    BY <2>1, <1>3 DEF Private
  <2>3. \A u \in Threads : Pending(u)' => loc'[u].res \notin live'
    BY <2>1, <1>1, <1>3 DEF Private, Pending
  <2>4. \A u \in Threads : loc'[u].then = "idle" /\ loc'[u].res # None => loc'[u].res \in live'
    BY <2>1, <1>1, <1>3 DEF Private
  <2>5. \A u, v \in Threads : u # v =>
          /\ loc'[u].old # None => loc'[v].old # loc'[u].old /\ loc'[v].res # loc'[u].old
          /\ loc'[u].res # None => loc'[v].res # loc'[u].res
    <3>1. ASSUME NEW u \in Threads \ {t}, NEW v \in Threads \ {t}, u # v
          PROVE  /\ loc'[u].old # None => loc'[v].old # loc'[u].old /\ loc'[v].res # loc'[u].old
                 /\ loc'[u].res # None => loc'[v].res # loc'[u].res
      BY <2>1, <1>3, <3>1 DEF Private
    <3>2. ASSUME NEW v \in Threads \ {t}
          PROVE  /\ loc'[t].old # None => loc'[v].old # loc'[t].old /\ loc'[v].res # loc'[t].old
                 /\ loc'[t].res # None => loc'[v].res # loc'[t].res
      BY <1>1, <1>3
    <3>3. ASSUME NEW u \in Threads \ {t}
          PROVE  /\ loc'[u].old # None => loc'[t].old # loc'[u].old /\ loc'[t].res # loc'[u].old
                 /\ loc'[u].res # None => loc'[t].res # loc'[u].res
      BY <1>1, <1>3
    <3> QED
      BY <3>1, <3>2, <3>3
  <2> QED
    BY <2>2, <2>3, <2>4, <2>5 DEF Private
<1> QED
  BY <1>2, <1>4, <1>5, <1>6

\* The block that a thread grows or divides in place.
LEMMA GrownFacts ==
  ASSUME IInv, NEW t \in Threads, pc[t] = "grown"
  PROVE  /\ pc[t] \in Works /\ pc[t] \in Holding /\ loc[t].then = "grown"
         /\ loc[t].old # None /\ loc[t].old \in live /\ loc[t].old \in Blocks
         /\ loc[t].old.heap = loc[t].node /\ loc[t].old.at = loc[t].self
         /\ loc[t].res = None /\ loc[t].init = FALSE /\ loc[t].want \in Nat \ {0}
         /\ Subject(t) = loc[t].old
<1>1. Types /\ Stage(t) /\ loc[t].init \in BOOLEAN /\ loc[t].want \in Nat
  BY LocFacts DEF IInv
<1>2. loc[t].then = "grown" /\ pc[t] \in Works /\ pc[t] \in Holding
  BY <1>1 DEF Stage, Works, Holding
<1>3. loc[t].old # None => loc[t].old \in live /\ loc[t].old \in Given
  BY CallBlocks
<1>4. loc[t].old # None /\ loc[t].old \in live /\ loc[t].old \in Blocks
  BY <1>1, <1>2, <1>3, GivenFacts DEF Stage
<1> QED
  BY <1>1, <1>2, <1>4 DEF Stage, Subject

\* popcorn_realloc with a block that has grown in place as far as it can.
LEMMA GrownStep ==
  ASSUME IInv, NEW t \in Threads, Grown(t)
  PROVE  IInv'
<1>1. pc[t] = "grown" /\ UNCHANGED <<arenas, lists, owner, calls>>
  BY DEF Grown
<1>2. Types /\ loc[t] \in Locals /\ Locks(t) /\ calls \in Nat
  BY HeldTypes DEF Types
<1>3. PICK n \in Nodes : n = loc[t].node
  BY <1>1, HeldFacts DEF Holding
<1>4. PICK lo \in Heads(n) : lo = loc[t].self
  BY <1>1, <1>3, HeldFacts DEF Holding
<1>5. PICK hi \in Heads(n) : hi = Upto(t)
  BY <1>1, <1>3, HeldFacts DEF Holding
<1>6. PICK size \in Nat : size = loc[t].size
  BY <1>2 DEF Locals
<1>7. PICK want \in Nat \ {0} : want = loc[t].want
  BY <1>1, GrownFacts
<1>8. PICK a \in live : a = loc[t].old
  BY <1>1, GrownFacts
<1>9. /\ pc[t] \in Works /\ pc[t] \in Holding /\ loc[t].then = "grown" /\ Subject(t) = a
      /\ a # None /\ a \in Blocks /\ a.heap = n /\ a.at = lo
      /\ loc[t].res = None /\ loc[t].init = FALSE
  BY <1>1, <1>3, <1>4, <1>8, GrownFacts
<1>10. PICK inuse \in BOOLEAN : inuse = TRUE
  OBVIOUS
<1>11. Label(n, lo, size, inuse)
  BY <1>3, <1>4, <1>6, <1>10 DEF Grown
<1>11a. Joined(t, n, lo, hi, size, inuse)
  BY <1>3, <1>4, <1>5, <1>6, <1>9, <1>10, <1>11, HeldLabel
<1>12. mapped[n] /\ lo \in Nat /\ lo # Sentinel /\ hi \in Nat
       /\ size \in Nat \ {0} /\ lo < hi /\ hi = lo + size /\ hi = loc[t].next
  BY <1>11a DEF Joined
<1>13. Within(n, lo, hi) /\ Tiled(csize'[n], psize'[n])
       /\ csize' \in [Nodes -> Tags] /\ psize' \in [Nodes -> Tags]
  BY <1>11a DEF Joined
<1>14. csize'[n][lo].inuse = inuse /\ psize'[n][hi].inuse = inuse /\ csize'[n][lo].size = size
       /\ lo \in Heads(n)' /\ hi \in Heads(n)'
       /\ \A c \in Heads(n)' : lo <= c /\ c < hi => c = lo
  BY <1>11a DEF Joined
<1>15. csize'[n][lo].inuse /\ psize'[n][hi].inuse
  BY <1>10, <1>14
<1>16. PICK most \in Nat \ {0} : most = IF want <= size THEN want ELSE size
  BY <1>7, <1>12
<1>17. PICK b : b = [loc[t].old EXCEPT !.size = IF want <= size THEN want ELSE size]
  OBVIOUS
<1>18. b \in Blocks /\ b.heap = n /\ b.at = lo /\ b.size = most /\ b # None
  <2>1. b = [a EXCEPT !.size = most]
    BY <1>8, <1>16, <1>17
  <2>2. b \in Blocks /\ b.heap = n /\ b.at = lo /\ b.size = most
    BY <2>1, <1>9, <1>16 DEF Blocks
  <2> QED
    BY <2>2, Names
<1>19. live' = (live \ {a}) \cup {b}
  BY <1>6, <1>7, <1>8, <1>17 DEF Grown
<1>20. KeepLocks(t) /\ (\A m \in DOMAIN owner' : owner'[m] \in Threads) /\ \A m : Owns(t, m) => Owns(t, m)'
  BY <1>1, <1>2, LocksUntouched
<1>21. /\ mapped' = mapped /\ initialized' = initialized /\ binmap' = binmap /\ bins' = bins
  BY <1>1 DEF arenas, lists
<1>22. PICK l, r :
         /\ Goto(t, l) /\ Become(t, r) /\ l \in {"trim", "mmap", "scan", "global"}
         /\ r \in Locals /\ r.node = n /\ r.want = want /\ r.init = FALSE
         /\ l = "trim" => /\ want <= size /\ r.old = None /\ r.res = b /\ r.then = "idle"
                          /\ r.self = lo
         /\ l # "trim" => size < want /\ r.old = b /\ r.res = None /\ r.then = "served"
         /\ l = "scan" => want <= MmapThreshold
  <2>1. CASE want <= size
    <3>1. PICK r : r = [loc[t] EXCEPT !.old = None, !.res = b, !.then = "idle"]
      OBVIOUS
    <3>2. Goto(t, "trim") /\ Become(t, r)
      BY <2>1, <3>1, <1>6, <1>7, <1>17 DEF Grown
    <3>3. /\ r \in Locals /\ r.node = n /\ r.want = want /\ r.init = FALSE
          /\ r.old = None /\ r.res = b /\ r.then = "idle" /\ r.self = lo
      BY <3>1, <1>2, <1>3, <1>4, <1>7, <1>9, <1>18 DEF Locals
    <3> QED
      BY <2>1, <3>2, <3>3
  <2>2. CASE ~(want <= size)
    <3>1. PICK r : r = [Idle EXCEPT !.old = b, !.node = n, !.want = want, !.then = "served"]
      OBVIOUS
    <3>2. PICK l : l = Entry(n, want)
      OBVIOUS
    <3>3. Goto(t, l) /\ Become(t, r)
      BY <2>2, <3>1, <3>2, <1>3, <1>6, <1>7, <1>17 DEF Grown, Move
    <3>4. /\ r \in Locals /\ r.node = n /\ r.want = want /\ r.init = FALSE
          /\ r.old = b /\ r.res = None /\ r.then = "served"
      BY <3>1, <1>3, <1>7, <1>18, IdleType DEF Idle, Locals
    <3>5. l \in {"global", "mmap", "scan"} /\ (l = "scan" => want <= MmapThreshold)
      BY <3>2, EntryFacts
    <3>6. size < want
      BY <2>2, <1>7
    <3> QED
      BY <3>3, <3>4, <3>5, <3>6
  <2> QED
    BY <2>1, <2>2
<1>23. /\ pc' \in [Threads -> PCs] /\ pc'[t] = l
       /\ loc' \in [Threads -> Locals] /\ loc'[t] = r /\ Others(t)
  BY <1>2, <1>22, Moved DEF PCs
<1>24. Given' = (Given \ {a}) \cup {b} /\ Distinct' /\ Private' /\ \A e \in Given : e # a => e # b
  BY <1>8, <1>9, <1>18, <1>19, <1>22, <1>23, GivenReplaced
<1>25. Types'
  <2>1. live' \in SUBSET Blocks
    BY <1>2, <1>18, <1>19 DEF Types
  <2> QED
    BY <2>1, <1>1, <1>2, <1>13, <1>20, <1>23 DEF Types, arenas, lists
<1>26. Stage(t)'
  BY <1>3, <1>7, <1>16, <1>18, <1>22, <1>23 DEF Stage, Searches
<1>27. Locks(t)'
  BY <1>22, <1>23 DEF Locks
<1>28. l = "trim" => Upto(t)' = hi
  BY <1>12, <1>14, <1>22, <1>23 DEF Upto
<1>29. Grip(t)'
  BY <1>3, <1>7, <1>12, <1>14, <1>15, <1>21, <1>22, <1>23, <1>28 DEF Grip, Holding
<1>30. Subject(t)' = (IF l = "trim" THEN b ELSE None)
  BY <1>22, <1>23 DEF Subject
<1>31. \A m \in Nodes : \A c \in Nat : Holds(t, m, c)' => m = n /\ lo <= c /\ c < hi /\ l = "trim"
  BY <1>22, <1>23, <1>28 DEF Holds, Holding
<1>32. Taken(n, lo)'
  BY <1>18, <1>24 DEF Taken
<1>33. /\ \A c \in Heads(n)' : lo <= c /\ c < hi => csize'[n][c].inuse
       /\ \A c \in Heads(n)' : lo <= c /\ c < hi => Taken(n, c)'
  BY <1>14, <1>15, <1>32
<1>34. \A u \in Threads \ {t} : ~Holds(u, n, lo)'
  <2>1. \A u \in Threads \ {t} : \A c \in Nat : lo <= c /\ c < hi => ~Holds(u, n, c)'
    BY <1>3, <1>4, <1>5, <1>9, <1>13, <1>15, <1>21, <1>23, HeldOthers
  <2> QED
    BY <2>1, <1>12
<1>35. Placed(b)'
  <2>1. \A u \in Threads : Holds(u, n, lo)' => Subject(u)' = b
    BY <1>12, <1>30, <1>31, <1>34
  <2>2. most <= size /\ ((\A u \in Threads : Subject(u)' # b) => most = size)
    <3>1. l # "trim" => most = size
      BY <1>6, <1>7, <1>16, <1>22
    <3>2. most <= size
      BY <1>6, <1>7, <1>16
    <3> QED
      BY <3>1, <3>2, <1>30
  <2> QED
    BY <2>1, <2>2, <1>12, <1>14, <1>15, <1>18, <1>21 DEF Placed
<1>36. /\ \A e \in Given : e # Subject(t) => e \in Given'
       /\ \A e \in Given' : e \notin Given \/ e = Subject(t) => Placed(e)'
       /\ \A e \in Given : e # Subject(t) => e # Subject(t)'
  <2>1. \A e \in Given : e # None
    BY GivenFacts
  <2> QED
    BY <2>1, <1>9, <1>24, <1>30, <1>35
<1>37. pc'[t] # "link" /\ \A m \in Nodes : \A c \in Nat : Holds(t, m, c)' => m = n /\ lo <= c /\ c < hi
  BY <1>22, <1>23, <1>31
<1> QED
  BY <1>3, <1>4, <1>5, <1>9, <1>13, <1>15, <1>20, <1>21, <1>23, <1>24, <1>25, <1>26, <1>27, <1>29,
     <1>33, <1>36, <1>37, UsedStep, ZenonT(60)

-----------------------------------------------------------------------------
(* Steps in which blocks are given out or taken back                       *)

\* A used chunk with the right footer that nobody is at.
Alone(n, c) ==
  /\ mapped[n] /\ c \in Heads(n) /\ c \in Nat /\ c # Sentinel
  /\ csize[n][c].size \in Nat \ {0} /\ csize[n][c].inuse
  /\ c + csize[n][c].size \in Heads(n)
  /\ psize[n][c + csize[n][c].size] = csize[n][c]
  /\ \A e \in Heads(n) : c <= e /\ e < c + csize[n][c].size => e = c
  /\ \A u \in Threads : ~Holds(u, n, c)

\* The chunk of a block that no thread grows or divides is as large as the
\* block.
LEMMA QuietBlock ==
  ASSUME IInv, NEW b \in Given, \A u \in Threads : Subject(u) # b,
         NEW n \in Nodes, n = b.heap, NEW c \in Nat, c = b.at
  PROVE  Alone(n, c) /\ csize[n][c].size = b.size
<1>1. Placed(b) /\ c \in Nat
  BY GivenFacts
<1>2. /\ mapped[n] /\ c \in Heads(n) /\ c # Sentinel
      /\ csize[n][c].size = b.size /\ csize[n][c].inuse
      /\ \A u \in Threads : ~Holds(u, n, c)
  BY <1>1 DEF Placed
<1>3. /\ csize[n][c].size \in Nat \ {0} /\ c + csize[n][c].size \in Heads(n)
      /\ psize[n][c + csize[n][c].size] = csize[n][c]
  BY <1>1, <1>2, ChunkFacts
<1>4. \A e \in Heads(n) : c <= e /\ e < c + csize[n][c].size => e = c
  <2>1. \A e \in Heads(n) : c < e => c + csize[n][c].size <= e
    BY <1>2, ChunkFacts
  <2>2. \A e \in Heads(n) : e \in Nat
    BY ArenaFacts
  <2> QED
    BY <2>1, <2>2, <1>1, <1>3
<1> QED
  BY <1>1, <1>2, <1>3, <1>4 DEF Alone

\* A step that leaves the chunks as they are: what is no longer given out, the
\* thread holds.
LEMMA ClaimStep ==
  ASSUME IInv, NEW t \in Threads, Others(t), KeepLocks(t),
         pc[t] \notin Holding \cup {"link"}, pc'[t] # "link", Subject(t) = None,
         mapped' = mapped, csize' = csize, psize' = psize, bins' = bins, binmap' = binmap,
         \A m \in Nodes : initialized'[m] => mapped[m],
         Types', Stage(t)', Locks(t)', Grip(t)', Distinct', Private',
         \A e \in Given' : e \in Given,
         \A m \in Nodes : \A c \in Nat : Holds(t, m, c)' => \A u \in Threads : ~Holds(u, m, c),
         \A e \in Given : e.heap \in Nodes /\ e \notin Given' => Holds(t, e.heap, e.at)',
         \A e \in Given' : e.heap \in Nodes /\ Holds(t, e.heap, e.at)' => Subject(t)' = e
  PROVE  IInv'
<1>1. OthersKept(t)
  BY OthersUntouched
<1>2. \A u \in Threads \ {t} : \A m \in Nodes : \A c \in Nat :
        (Holds(u, m, c)' <=> Holds(u, m, c)) /\ (Links(u, m, c)' <=> Links(u, m, c))
  BY <1>1 DEF OthersKept
<1>3. \A m \in Nodes : Heads(m)' = Heads(m) /\ Free(m)' = Free(m)
  BY DEF Heads, Free
<1>4. \A m \in Nodes : \A c \in Heads(m) : c \in Nat
  BY ArenaFacts
<1>5. \A m \in Nodes : \A c \in Nat : ~Holds(t, m, c) /\ ~Links(t, m, c) /\ ~Links(t, m, c)'
  BY DEF Holds, Links
<1>6. ASSUME NEW m \in Nodes PROVE Arena(m)' /\ Covered(m)' /\ Binned(m)'
  <2>1. Arena(m)'
    BY DEF IInv, Arena, Heads
  <2>2. Covered(m)'
    <3>1. ASSUME NEW c \in Heads(m), Taken(m, c) PROVE Taken(m, c)'
      <4>1. CASE \E u \in Threads : Holds(u, m, c)
        BY <4>1, <1>2, <1>4, <1>5 DEF Taken
      <4>2. CASE \E e \in Given : e.heap = m /\ e.at = c
        <5>1. PICK e \in Given : e.heap = m /\ e.at = c
          BY <4>2
        <5>2. CASE e \in Given'
          BY <5>1, <5>2 DEF Taken
        <5>3. CASE e \notin Given'
          <6>1. Holds(t, m, c)'
            BY <5>1, <5>3
          <6> QED
            BY <6>1 DEF Taken
        <5> QED
          BY <5>2, <5>3
      <4> QED
        BY <3>1, <4>1, <4>2 DEF Taken
    <3> QED
      BY <3>1, <1>3 DEF IInv, Covered
  <2>3. Binned(m)'
    BY <1>2, <1>3, <1>5, BinnedSame
  <2> QED
    BY <2>1, <2>2, <2>3
<1>7. Apart'
  BY <1>1, <1>3, <1>4, ApartKept
<1>8. ASSUME NEW e \in Given' PROVE Placed(e)'
  <2>1. e \in Given /\ Placed(e) /\ e.at \in Nat /\ e # None
    BY GivenFacts
  <2>2. e.heap \in Nodes => e.at \in Heads(e.heap)' /\ csize'[e.heap][e.at] = csize[e.heap][e.at]
    BY <2>1 DEF Placed, Heads
  <2>3. e.heap \in Nodes /\ Holds(t, e.heap, e.at)' => Subject(t)' = e
    OBVIOUS
  <2>4. Subject(t) # e
    BY <2>1
  <2> QED
    BY <1>1, <2>1, <2>2, <2>3, <2>4, PlacedKept
<1> QED
  BY <1>1, <1>6, <1>7, <1>8, Assemble

\* A call ends: block d is taken back, the block it has got is given out.
LEMMA GivenMoved ==
  ASSUME IInv, NEW t \in Threads, Others(t), NEW d \in live \cup {None},
         Pending(t) \/ loc[t].res = None,
         live' = (live \ {d}) \cup ({loc[t].res} \ {None}),
         d # None => \A u \in Threads \ {t} : loc[u].old # d /\ loc[u].res # d,
         loc'[t].old = None, loc'[t].then = "idle", loc'[t].res \in {None, loc[t].res}
  PROVE  Given' = Given \ {d} /\ Distinct' /\ Private'
<1>1. \A u \in Threads \ {t} : /\ loc'[u] = loc[u]
                               /\ Pending(u)' <=> Pending(u)
  BY DEF Others, Pending
<1>2. Private /\ ~Pending(t)'
  BY DEF IInv, Pending
<1>3. None \notin live /\ None \notin Given
  BY GivenFacts DEF Given
<1>4. Given' = Given \ {d}
  <2>1. \A e : e \in Given' <=> e \in live' \/ \E u \in Threads \ {t} : Pending(u) /\ e = loc[u].res
    BY <1>1, <1>2 DEF Given
  <2>2. \A e : e \in Given <=> \/ e \in live \/ \E u \in Threads \ {t} : Pending(u) /\ e = loc[u].res
                               \/ Pending(t) /\ e = loc[t].res
    BY DEF Given
  <2>3. \A e : e \in live' <=> (e \in live /\ e # d) \/ (Pending(t) /\ e = loc[t].res)
    <3>1. Pending(t) <=> loc[t].res # None
      BY DEF Pending
    <3> QED
      BY <3>1
  <2>4. \A u \in Threads \ {t} : Pending(u) => loc[u].res # d
    BY DEF Pending
  <2>5. Pending(t) => loc[t].res # d
    BY <1>2 DEF Pending, Private
  <2> QED
    BY <2>1, <2>2, <2>3, <2>4, <2>5
<1>5. Distinct'
  BY <1>4 DEF IInv, Distinct
<1>6. Private'
  <2>1. \A u \in Threads : loc'[u].old # None => loc'[u].old \in live'
    BY <1>1, <1>2, <1>3 DEF Private
  <2>2. \A u \in Threads : Pending(u)' => loc'[u].res \notin live'
    <3>1. ASSUME NEW u \in Threads \ {t}, Pending(u) PROVE loc[u].res \notin live'
      BY <3>1, <1>2 DEF Private, Pending
    <3> QED
      BY <3>1, <1>1, <1>2
  <2>3. \A u \in Threads : loc'[u].then = "idle" /\ loc'[u].res # None => loc'[u].res \in live'
    <3>1. ASSUME NEW u \in Threads \ {t}, loc[u].then = "idle", loc[u].res # None
          PROVE  loc[u].res \in live'
      BY <3>1, <1>2 DEF Private
    <3>2. loc'[t].res # None => loc'[t].res \in live'
      OBVIOUS
    <3> QED
      BY <3>1, <3>2, <1>1
  <2>4. \A u, v \in Threads : u # v =>
          /\ loc'[u].old # None => loc'[v].old # loc'[u].old /\ loc'[v].res # loc'[u].old
          /\ loc'[u].res # None => loc'[v].res # loc'[u].res
    <3>1. \A u \in Threads : loc'[u].old \in {None, loc[u].old} /\ loc'[u].res \in {None, loc[u].res}
      BY <1>1
    <3> QED
      BY <3>1, <1>2 DEF Private
  <2> QED
    BY <2>1, <2>2, <2>3, <2>4 DEF Private
<1> QED
  BY <1>4, <1>5, <1>6

\* A call begins to move, grow or shrink a block.
LEMMA GivenMarked ==
  ASSUME IInv, NEW t \in Threads, Others(t), live' = live, ~Pending(t), NEW b \in live,
         \A u \in Threads : loc[u].old # b /\ loc[u].res # b,
         loc'[t].old = b, loc'[t].res = None
  PROVE  Given' = Given /\ Distinct' /\ Private'
<1>1. \A u \in Threads \ {t} : /\ loc'[u] = loc[u]
                               /\ Pending(u)' <=> Pending(u)
  BY DEF Others, Pending
<1>2. Private /\ ~Pending(t)'
  BY DEF IInv, Pending
<1>3. b # None
  BY GivenFacts DEF Given
<1>4. Given' = Given
  BY <1>1, <1>2 DEF Given
<1>5. Distinct'
  BY <1>4 DEF IInv, Distinct
<1>6. Private'
  <2>1. \A u \in Threads : loc'[u].old # None => loc'[u].old \in live'
    BY <1>1, <1>2 DEF Private
  <2>2. \A u \in Threads : Pending(u)' => loc'[u].res \notin live'
    BY <1>1, <1>2 DEF Private
  <2>3. \A u \in Threads : loc'[u].then = "idle" /\ loc'[u].res # None => loc'[u].res \in live'
    BY <1>1, <1>2 DEF Private
  <2>4. \A u, v \in Threads : u # v =>
          /\ loc'[u].old # None => loc'[v].old # loc'[u].old /\ loc'[v].res # loc'[u].old
          /\ loc'[u].res # None => loc'[v].res # loc'[u].res
    BY <1>1, <1>2, <1>3 DEF Private
  <2> QED
    BY <2>1, <2>2, <2>3, <2>4 DEF Private
<1> QED
  BY <1>4, <1>5, <1>6

\* popcorn_free begins: the footer is right, and the thread holds the chunk.
LEMMA FreeingStep ==
  ASSUME IInv, NEW t \in Threads, KeepLocks(t),
         pc[t] \notin Holding \cup {"link"}, Subject(t) = None,
         NEW b \in live, \A u \in Threads : Subject(u) # b,
         \A u \in Threads \ {t} : loc[u].old # b /\ loc[u].res # b,
         Pending(t) \/ loc[t].res = None, NEW res \in {None, loc[t].res}, Freeing(t, b, res),
         live' = (live \ {b}) \cup ({loc[t].res} \ {None}),
         mapped' = mapped, csize' = csize, psize' = psize, bins' = bins, binmap' = binmap,
         initialized' \in [Nodes -> BOOLEAN], \A m \in Nodes : initialized'[m] => mapped[m],
         calls' \in Nat, \A m \in DOMAIN owner' : owner'[m] \in Threads
  PROVE  IInv'
<1>1. /\ Types /\ b \in Given /\ b \in Blocks /\ b # None
      /\ loc[t].res \in Blocks \cup {None} /\ res \in Blocks \cup {None}
  BY GivenFacts, LocFacts DEF IInv, Given
<1>2. live' \in SUBSET Blocks
  BY <1>1 DEF Types
<1>3. CASE b.heap \notin Nodes
  <2>1. Goto(t, "idle") /\ Become(t, Idle)
    BY <1>3 DEF Freeing, Return
  <2>2. /\ pc' \in [Threads -> PCs] /\ pc'[t] = "idle"
        /\ loc' \in [Threads -> Locals] /\ loc'[t] = Idle /\ Others(t)
    BY <1>1, <2>1, Moved, IdleType DEF PCs
  <2>3. Given' = Given \ {b} /\ Distinct' /\ Private'
    BY <1>1, <2>2, GivenMoved, IdleType
  <2>4. Types'
    BY <1>1, <1>2, <2>2 DEF Types
  <2>5. Stage(t)' /\ Locks(t)' /\ Grip(t)' /\ \A m \in Nodes : \A c \in Nat : ~Holds(t, m, c)'
    BY <2>2, IdleType DEF Stage, Searches, Locks, Grip, Holds, Holding
  <2>6. /\ \A e \in Given' : e \in Given
        /\ \A e \in Given : e.heap \in Nodes /\ e \notin Given' => Holds(t, e.heap, e.at)'
    BY <1>3, <2>3
  <2>7. /\ \A m \in Nodes : \A c \in Nat : Holds(t, m, c)' => \A u \in Threads : ~Holds(u, m, c)
        /\ \A e \in Given' : e.heap \in Nodes /\ Holds(t, e.heap, e.at)' => Subject(t)' = e
    BY <2>5, <2>6, GivenFacts
  <2>8. pc'[t] # "link"
    BY <2>2
  <2> QED
    BY <2>2, <2>3, <2>4, <2>5, <2>6, <2>7, <2>8, ClaimStep, ZenonT(60)
<1>4. CASE b.heap \in Nodes
  <2>1. PICK n \in Nodes : n = b.heap
    BY <1>4
  <2>2. PICK c \in Nat : c = b.at
    BY <1>1, GivenFacts
  <2>3. /\ mapped[n] /\ c \in Heads(n) /\ c \in Nat /\ c # Sentinel
        /\ csize[n][c].size \in Nat \ {0} /\ csize[n][c].inuse
        /\ c + csize[n][c].size \in Heads(n)
        /\ psize[n][c + csize[n][c].size] = csize[n][c]
        /\ \A e \in Heads(n) : c <= e /\ e < c + csize[n][c].size => e = c
        /\ \A u \in Threads : ~Holds(u, n, c)
    <3>1. Alone(n, c)
      BY <1>1, <2>1, <2>2, QuietBlock
    <3> QED
      BY <3>1 DEF Alone
  <2>4. PICK size \in Nat \ {0} : size = csize[n][c].size
    BY <2>3
  <2>5. PICK r : r = [Idle EXCEPT !.node = n, !.self = c, !.next = c + size, !.size = size, !.res = res]
    OBVIOUS
  <2>6. Goto(t, "test") /\ Become(t, r)
    BY <2>1, <2>2, <2>3, <2>4, <2>5 DEF Freeing
  <2>7. /\ r \in Locals /\ r.node = n /\ r.self = c /\ r.next = c + size /\ r.size = size
        /\ r.res = res /\ r.old = None /\ r.then = "idle" /\ r.init = FALSE
    <3>1. PICK hi \in Nat : hi = c + size
      BY <2>3, <2>4
    <3>2. r = [Idle EXCEPT !.node = n, !.self = c, !.next = hi, !.size = size, !.res = res]
      BY <2>5, <3>1
    <3>3. /\ r \in Locals /\ r.node = n /\ r.self = c /\ r.next = hi /\ r.size = size
          /\ r.res = res /\ r.old = None /\ r.then = "idle" /\ r.init = FALSE
      BY <1>1, <2>1, <2>3, <2>4, <3>1, <3>2, IdleType, ZenonT(60) DEF Idle, Locals
    <3> QED
      BY <3>1, <3>3
  <2>8. /\ pc' \in [Threads -> PCs] /\ pc'[t] = "test"
        /\ loc' \in [Threads -> Locals] /\ loc'[t] = r /\ Others(t)
    BY <1>1, <2>6, <2>7, Moved DEF PCs
  <2>9. Given' = Given \ {b} /\ Distinct' /\ Private'
    BY <1>1, <2>7, <2>8, GivenMoved
  <2>10. Types'
    BY <1>1, <1>2, <2>8 DEF Types
  <2>11. Stage(t)' /\ Locks(t)'
    BY <2>7, <2>8 DEF Stage, Searches, Locks
  <2>12. Upto(t)' = c + size /\ Heads(n)' = Heads(n)
    BY <2>7, <2>8 DEF Upto, Heads
  <2>13. Grip(t)'
    <3>1. \A e \in Heads(n) : c <= e /\ e < c + size => csize[n][e].inuse
      BY <2>3, <2>4
    <3>2. mapped'[n] /\ c \in Heads(n)' /\ c + size \in Heads(n)'
      BY <2>3, <2>4, <2>12
    <3>3. pc'[t] = "test" /\ loc'[t].node = n /\ loc'[t].self = c /\ loc'[t].next = c + size
          /\ loc'[t].size = size
      BY <2>7, <2>8
    <3> QED
      BY <3>1, <3>2, <3>3, <2>3, <2>4, <2>12 DEF Grip, Holding
  <2>14. \A m \in Nodes : \A o \in Nat : Holds(t, m, o)' <=> m = n /\ o = c
    <3>1. ASSUME NEW m \in Nodes, NEW o \in Nat, Holds(t, m, o)' PROVE m = n /\ o = c
      <4>1. m = n /\ o \in Heads(n) /\ c <= o /\ o < c + size
        BY <3>1, <2>7, <2>8, <2>12 DEF Holds
      <4> QED
        BY <4>1, <2>3, <2>4
    <3>2. Holds(t, n, c)'
      BY <2>3, <2>4, <2>7, <2>8, <2>12 DEF Holds, Holding
    <3> QED
      BY <3>1, <3>2
  <2>15. /\ \A e \in Given' : e \in Given
         /\ \A e \in Given : e.heap \in Nodes /\ e \notin Given' => Holds(t, e.heap, e.at)'
    BY <2>1, <2>2, <2>3, <2>9, <2>14
  <2>16. /\ \A m \in Nodes : \A o \in Nat : Holds(t, m, o)' => \A u \in Threads : ~Holds(u, m, o)
         /\ \A e \in Given' : e.heap \in Nodes /\ Holds(t, e.heap, e.at)' => Subject(t)' = e
    <3>1. \A e \in Given' : ~(e.heap = n /\ e.at = c)
      BY <1>1, <2>1, <2>2, <2>9 DEF IInv, Distinct
    <3>2. \A e \in Given' : e.at \in Nat
      BY <2>15, GivenFacts
    <3> QED
      BY <3>1, <3>2, <2>3, <2>14
  <2>17. pc'[t] # "link"
    BY <2>8
  <2> QED
    BY <2>8, <2>9, <2>10, <2>11, <2>13, <2>15, <2>16, <2>17, ClaimStep, ZenonT(60)
<1> QED
  BY <1>3, <1>4

\* popcorn_free begins.
LEMMA FreeStep ==
  ASSUME IInv, NEW t \in Threads, FreeCall(t)
  PROVE  IInv'
<1>1. /\ pc[t] = "idle" /\ calls' = calls + 1 /\ UNCHANGED <<arenas, lists, tags, owner>>
  BY DEF FreeCall
<1>2. PICK b \in Passable : live' = live \ {b} /\ Freeing(t, b, None)
  BY DEF FreeCall
<1>3. b \in live /\ \A u \in Threads : loc[u].old # b /\ loc[u].res # b
  BY <1>2 DEF Passable
<1>4. Types /\ loc[t] = Idle /\ loc[t].res = None /\ b # None
  BY <1>1, <1>3, IdleType, GivenFacts DEF IInv, Stage, Given
<1>5. \A u \in Threads : Subject(u) # b
  BY <1>3, <1>4 DEF Subject
<1>6. Subject(t) = None /\ pc[t] \notin Holding \cup {"link"}
  BY <1>1, <1>4, IdleType DEF Subject, Holding
<1>7. KeepLocks(t) /\ \A m \in DOMAIN owner' : owner'[m] \in Threads
  BY <1>1, <1>4, LocksUntouched
<1>8. live' = (live \ {b}) \cup ({loc[t].res} \ {None})
  BY <1>2, <1>4
<1>9. initialized' \in [Nodes -> BOOLEAN] /\ \A m \in Nodes : initialized'[m] => mapped[m]
  BY <1>1, <1>4 DEF IInv, Types, Arena, arenas
<1>10. calls' \in Nat
  BY <1>1, <1>4 DEF Types
<1>11. mapped' = mapped /\ csize' = csize /\ psize' = psize /\ bins' = bins /\ binmap' = binmap
  BY <1>1 DEF arenas, lists, tags
<1> QED
  BY <1>2, <1>3, <1>4, <1>5, <1>6, <1>7, <1>8, <1>9, <1>10, <1>11, FreeingStep

\* popcorn_malloc ends.
LEMMA ServedStep ==
  ASSUME IInv, NEW t \in Threads, Served(t)
  PROVE  IInv'
<1>1. pc[t] \in {"served", "shrunk"} /\ UNCHANGED <<mapped, lists, tags, calls>>
  BY DEF Served
<1>2. Types /\ loc[t] \in Locals /\ Stage(t) /\ Locks(t) /\ calls \in Nat
  BY HeldTypes DEF Types
<1>3. /\ loc[t].then = pc[t] /\ loc[t].then \in {"served", "shrunk"} /\ loc[t].want \in Nat
      /\ loc[t].then = "shrunk" => loc[t].old # None /\ loc[t].node \in Nodes /\ loc[t].want > 1
      /\ loc[t].init => loc[t].res # None
      /\ loc[t].init => loc[t].node \in Nodes /\ Owns(t, InitLock(loc[t].node)) /\ mapped[loc[t].node]
      /\ loc[t].init \in BOOLEAN /\ loc[t].res \in Blocks \cup {None} /\ loc[t].old \in Blocks \cup {None}
  BY <1>1, <1>2, LocFacts DEF Stage, Locks
<1>4. Subject(t) = None /\ pc[t] \notin Holding \cup {"link"} /\ (Pending(t) \/ loc[t].res = None)
  BY <1>1, <1>3 DEF Subject, Holding, Pending
<1>5. /\ mapped' = mapped /\ csize' = csize /\ psize' = psize /\ bins' = bins /\ binmap' = binmap
      /\ calls' \in Nat
  BY <1>1, <1>2 DEF lists, tags
<1>6. /\ KeepLocks(t) /\ \A m \in DOMAIN owner' : owner'[m] \in Threads
      /\ initialized' \in [Nodes -> BOOLEAN] /\ \A m \in Nodes : initialized'[m] => mapped[m]
      /\ ~loc[t].init => initialized' = initialized
  <2>1. initialized \in [Nodes -> BOOLEAN] /\ \A m \in Nodes : initialized[m] => mapped[m]
    BY <1>2 DEF IInv, Types, Arena
  <2>2. CASE loc[t].init
    <3>1. PICK L : L = {InitLock(loc[t].node)}
      OBVIOUS
    <3>2. Unlock(L) /\ \A m \in L : Owns(t, m)
      BY <2>2, <3>1, <1>3 DEF Served
    <3>3. KeepLocks(t) /\ \A m \in DOMAIN owner' : owner'[m] \in Threads
      BY <3>2, <1>2, Released
    <3>4. initialized' = [initialized EXCEPT ![loc[t].node] = TRUE]
      BY <2>2 DEF Served
    <3> QED
      BY <2>1, <2>2, <3>3, <3>4, <1>3
  <2>3. CASE ~loc[t].init
    <3>1. initialized' = initialized /\ owner' = owner
      BY <2>3 DEF Served
    <3> QED
      BY <2>1, <3>1, <1>2, LocksUntouched
  <2> QED
    BY <2>2, <2>3, <1>3
<1>7. CASE loc[t].res = None
  <2>1. live' = live /\ loc[t].init = FALSE /\ initialized' = initialized
    BY <1>3, <1>6, <1>7 DEF Served
  <2>2. PICK l, r : /\ Goto(t, l) /\ Become(t, r) /\ l \in {"remap", "idle"} /\ r \in Locals
                    /\ l = "idle" => r = Idle
                    /\ r.res = None /\ r.init = FALSE /\ r.old \in {loc[t].old, None}
                    /\ l = "remap" => /\ r.then = "shrunk" /\ r.node = loc[t].node /\ r.old = loc[t].old
                                      /\ r.want > 0 /\ loc[t].then = "shrunk"
    <3>1. CASE pc[t] = "shrunk"
      <4>1. PICK w \in Nat \ {0} : w = loc[t].want - 1
        BY <3>1, <1>3
      <4>2. PICK r : r = [loc[t] EXCEPT !.want = w]
        OBVIOUS
      <4>3. Goto(t, "remap") /\ Become(t, r)
        BY <3>1, <4>1, <4>2, <1>7 DEF Served
      <4>4. r \in Locals /\ r.then = loc[t].then /\ r.node = loc[t].node /\ r.old = loc[t].old
            /\ r.want = w /\ r.res = None /\ r.init = FALSE
        BY <4>1, <4>2, <1>2, <1>7, <2>1 DEF Locals
      <4> QED
        BY <3>1, <4>1, <4>3, <4>4, <1>3
    <3>2. CASE pc[t] = "served"
      <4>1. Goto(t, "idle") /\ Become(t, Idle)
        BY <3>2, <1>7 DEF Served, Return
      <4> QED
        BY <4>1, IdleType
    <3> QED
      BY <3>1, <3>2, <1>1
  <2>3. /\ pc' \in [Threads -> PCs] /\ pc'[t] = l
        /\ loc' \in [Threads -> Locals] /\ loc'[t] = r /\ Others(t)
    BY <1>2, <2>2, Moved DEF PCs
  <2>4. BlocksKept(t)
    BY <1>7, <2>1, <2>2, <2>3 DEF BlocksKept, Pending
  <2>5. Stage(t)'
    <3>1. CASE l = "idle"
      BY <3>1, <2>2, <2>3, IdleType DEF Stage, Searches
    <3>2. CASE l = "remap"
      BY <3>2, <2>2, <2>3, <1>3 DEF Stage, Searches
    <3> QED
      BY <3>1, <3>2, <2>2
  <2>6. Locks(t)'
    BY <2>2, <2>3 DEF Locks
  <2>7. Subject(t)' = Subject(t)
    BY <1>4, <2>2, <2>3, IdleType DEF Subject
  <2>8. /\ \A m \in Nodes : \A c \in Nat : /\ Holds(t, m, c)' <=> Holds(t, m, c)
                                           /\ Links(t, m, c)' <=> Links(t, m, c)
        /\ Grip(t)'
    <3>1. pc'[t] \notin Holding \cup {"link"}
      BY <2>2, <2>3 DEF Holding
    <3> QED
      BY <3>1, <1>4, NothingHeld
  <2> QED
    BY <1>5, <1>6, <2>1, <2>3, <2>4, <2>5, <2>6, <2>7, <2>8, LocalStep
<1>8. CASE loc[t].res # None /\ loc[t].old = None
  <2>1. live' = live \cup {loc[t].res} /\ Goto(t, "idle") /\ Become(t, Idle)
    BY <1>8 DEF Served, Return
  <2>2. /\ pc' \in [Threads -> PCs] /\ pc'[t] = "idle"
        /\ loc' \in [Threads -> Locals] /\ loc'[t] = Idle /\ Others(t)
    BY <1>2, <2>1, Moved, IdleType DEF PCs
  <2>3. Given' = Given /\ Distinct' /\ Private'
    <3>1. PICK d \in live \cup {None} : d = None
      OBVIOUS
    <3>2. d \notin live /\ d \notin Given
      BY <3>1, GivenFacts DEF Given
    <3>3. live' = (live \ {d}) \cup ({loc[t].res} \ {None})
      BY <3>1, <3>2, <2>1, <1>8
    <3>4. Given' = Given \ {d} /\ Distinct' /\ Private'
      BY <3>1, <3>3, <1>4, <2>2, GivenMoved, IdleType
    <3> QED
      BY <3>2, <3>4
  <2>4. Types'
    <3>1. live' \in SUBSET Blocks
      BY <1>2, <1>3, <1>8, <2>1 DEF Types
    <3> QED
      BY <3>1, <1>2, <1>5, <1>6, <2>2 DEF Types
  <2>5. Stage(t)' /\ Locks(t)' /\ Grip(t)' /\ \A m \in Nodes : \A c \in Nat : ~Holds(t, m, c)'
    BY <2>2, IdleType DEF Stage, Searches, Locks, Grip, Holds, Holding
  <2>6. /\ \A e \in Given' : e \in Given
        /\ \A e \in Given : e.heap \in Nodes /\ e \notin Given' => Holds(t, e.heap, e.at)'
    BY <2>3
  <2>7. /\ \A m \in Nodes : \A c \in Nat : Holds(t, m, c)' => \A u \in Threads : ~Holds(u, m, c)
        /\ \A e \in Given' : e.heap \in Nodes /\ Holds(t, e.heap, e.at)' => Subject(t)' = e
    BY <2>5, <2>6, GivenFacts
  <2>8. pc'[t] # "link"
    BY <2>2
  <2> QED
    BY <1>4, <1>5, <1>6, <2>2, <2>3, <2>4, <2>5, <2>6, <2>7, <2>8, ClaimStep, ZenonT(60)
<1>9. CASE loc[t].res # None /\ loc[t].old # None
  <2>1. live' = (live \ {loc[t].old}) \cup {loc[t].res} /\ Freeing(t, loc[t].old, loc[t].res)
    BY <1>9 DEF Served
  <2>2. PICK b \in live : b = loc[t].old
    BY <1>9, CallBlocks
  <2>3. PICK res \in {None, loc[t].res} : res = loc[t].res
    OBVIOUS
  <2>4. \A u \in Threads \ {t} : loc[u].old # b /\ loc[u].res # b
    BY <1>9, <2>2 DEF IInv, Private
  <2>5. \A u \in Threads : Subject(u) # b
    <3>1. b # None
      BY <1>9, <2>2
    <3>2. \A u \in Threads \ {t} : Subject(u) # b
      BY <3>1, <2>4 DEF Subject
    <3> QED
      BY <3>1, <3>2, <1>4
  <2>6. live' = (live \ {b}) \cup ({loc[t].res} \ {None}) /\ Freeing(t, b, res)
    BY <1>9, <2>1, <2>2, <2>3
  <2> QED
    BY <1>4, <1>5, <1>6, <2>2, <2>3, <2>4, <2>5, <2>6, FreeingStep, ZenonT(60)
<1> QED
  BY <1>7, <1>8, <1>9

\* A block that a call may be about.
LEMMA PassableFacts ==
  ASSUME IInv, NEW b \in Passable
  PROVE  /\ b \in live /\ b \in Given /\ b \in Blocks /\ b # None
         /\ \A u \in Threads : loc[u].old # b /\ loc[u].res # b /\ Subject(u) # b
<1>1. b \in live /\ \A u \in Threads : loc[u].old # b /\ loc[u].res # b
  BY DEF Passable
<1>2. b \in Given /\ b \in Blocks /\ b # None
  BY <1>1, GivenFacts DEF Given
<1> QED
  BY <1>1, <1>2 DEF Subject

\* A call that is going to copy the block, or have it remapped.
LEMMA ReallocMoves ==
  ASSUME IInv, NEW t \in Threads, pc[t] = "idle", calls' = calls + 1,
         UNCHANGED <<arenas, lists, tags, owner, live>>, NEW b \in Passable,
         NEW l \in {"global", "mmap", "scan", "remap"}, Goto(t, l), NEW r \in Locals, Become(t, r),
         r.old = b, r.res = None, r.init = FALSE, r.want > 0,
         l \in {"scan", "remap"} \/ r.then = "shrunk" => r.node \in Nodes,
         l = "scan" => r.want <= MmapThreshold,
         IF l = "remap" THEN r.then = "idle" ELSE r.then \in {"served", "shrunk"},
         r.then = "shrunk" => r.want > 1
  PROVE  IInv'
<1>1. /\ b \in live /\ b \in Given /\ b \in Blocks /\ b # None
      /\ \A u \in Threads : loc[u].old # b /\ loc[u].res # b
  BY PassableFacts
<1>2. Types /\ loc[t] = Idle
  BY DEF IInv, Stage
<1>3. /\ pc' \in [Threads -> PCs] /\ pc'[t] = l
      /\ loc' \in [Threads -> Locals] /\ loc'[t] = r /\ Others(t)
  BY <1>2, Moved DEF PCs
<1>4. Given' = Given /\ Distinct' /\ Private'
  BY <1>1, <1>2, <1>3, GivenMarked, IdleType DEF Pending
<1>5. KeepLocks(t) /\ \A m \in DOMAIN owner' : owner'[m] \in Threads
  BY <1>2, LocksUntouched
<1>6. Types'
  BY <1>2, <1>3, <1>5 DEF Types, arenas, lists, tags
<1>7. Stage(t)'
  BY <1>1, <1>3 DEF Stage, Searches
<1>8. Locks(t)'
  <2>1. l \notin {"lockFree", "publish", "link", "expand"}
    OBVIOUS
  <2> QED
    BY <2>1, <1>3 DEF Locks
<1>9. pc[t] \notin Holding \cup {"link"} /\ pc'[t] \notin Holding \cup {"link"}
  BY <1>3 DEF Holding
<1>10. Grip(t)' /\ \A m \in Nodes : \A c \in Nat : ~Holds(t, m, c)'
  BY <1>9 DEF Grip, Holds, Holding
<1>11. Subject(t) = None
  BY <1>2, IdleType DEF Subject
<1>12. /\ mapped' = mapped /\ csize' = csize /\ psize' = psize /\ bins' = bins /\ binmap' = binmap
       /\ \A m \in Nodes : initialized'[m] => mapped[m]
  BY DEF IInv, Arena, arenas, lists, tags
<1>13. /\ \A e \in Given' : e \in Given
       /\ \A e \in Given : e.heap \in Nodes /\ e \notin Given' => Holds(t, e.heap, e.at)'
  BY <1>4
<1>14. /\ \A m \in Nodes : \A c \in Nat : Holds(t, m, c)' => \A u \in Threads : ~Holds(u, m, c)
       /\ \A e \in Given' : e.heap \in Nodes /\ Holds(t, e.heap, e.at)' => Subject(t)' = e
  BY <1>10, <1>13, GivenFacts
<1>15. pc'[t] # "link"
  BY <1>9
<1> QED
  BY <1>3, <1>4, <1>5, <1>6, <1>7, <1>8, <1>9, <1>10, <1>11, <1>12, <1>13, <1>14, <1>15, ClaimStep, ZenonT(60)

\* A call that is going to resize the block in place.
LEMMA ReallocGrows ==
  ASSUME IInv, NEW t \in Threads, pc[t] = "idle", calls' = calls + 1,
         UNCHANGED <<arenas, lists, tags, owner, live>>, NEW b \in Passable,
         NEW n \in Nodes, b.heap = n, NEW want \in Nat \ {0}, NEW size \in Nat, size = csize[n][b.at].size,
         Become(t, [Idle EXCEPT !.old = b, !.node = n, !.want = want, !.self = b.at,
                                !.size = size, !.next = b.at + size, !.then = "grown"]),
         Goto(t, CASE psize[n][b.at + size] # csize[n][b.at] -> "crashed"
                   [] want > size -> "fwd"
                   [] OTHER -> "grown")
  PROVE  IInv'
<1>1. /\ b \in live /\ b \in Given /\ b \in Blocks /\ b # None
      /\ \A u \in Threads : loc[u].old # b /\ loc[u].res # b /\ Subject(u) # b
  BY PassableFacts
<1>2. Types /\ loc[t] = Idle
  BY DEF IInv, Stage
<1>3. PICK c \in Nat : c = b.at
  BY <1>1, GivenFacts
<1>4. /\ mapped[n] /\ c \in Heads(n) /\ c \in Nat /\ c # Sentinel
      /\ size \in Nat \ {0} /\ csize[n][c].inuse
      /\ c + size \in Heads(n)
      /\ psize[n][c + size] = csize[n][c]
      /\ \A e \in Heads(n) : c <= e /\ e < c + size => e = c
      /\ \A u \in Threads : ~Holds(u, n, c)
  <2>1. Alone(n, c)
    BY <1>1, <1>3, QuietBlock
  <2> QED
    BY <2>1, <1>3 DEF Alone
<1>5. PICK hi \in Nat : hi = c + size
  OBVIOUS
<1>6. PICK r : r = [Idle EXCEPT !.old = b, !.node = n, !.want = want, !.self = c,
                                !.size = size, !.next = hi, !.then = "grown"]
  OBVIOUS
<1>7. PICK l \in {"fwd", "grown"} : Goto(t, l) /\ Become(t, r)
  BY <1>3, <1>4, <1>5, <1>6
<1>8. /\ r \in Locals /\ r.old = b /\ r.node = n /\ r.want = want /\ r.self = c /\ r.size = size
      /\ r.next = hi /\ r.then = "grown" /\ r.res = None /\ r.init = FALSE
  <2>1. size \in Nat /\ b \in Blocks
    BY <1>1, <1>4
  <2>2. /\ r.old = b /\ r.node = n /\ r.want = want /\ r.self = c /\ r.size = size
        /\ r.next = hi /\ r.then = "grown" /\ r.res = None /\ r.init = FALSE
    BY <1>6 DEF Idle
  <2>3. r = [want |-> want, node |-> n, self |-> c, next |-> hi, size |-> size, k |-> 0,
             init |-> FALSE, then |-> "grown", old |-> b, res |-> None]
    BY <1>6 DEF Idle
  <2>4. r \in Locals
    BY <2>1, <2>3, <1>3, <1>5 DEF Locals
  <2> QED
    BY <2>2, <2>4
<1>9. /\ pc' \in [Threads -> PCs] /\ pc'[t] = l
      /\ loc' \in [Threads -> Locals] /\ loc'[t] = r /\ Others(t)
  <2>1. l \in PCs
    BY <1>7 DEF PCs
  <2>2. r \in Locals
    BY <1>8, Zenon
  <2> QED
    BY <1>2, <1>7, <2>1, <2>2, Moved, Zenon
<1>10. Given' = Given /\ Distinct' /\ Private'
  BY <1>1, <1>2, <1>8, <1>9, GivenMarked, IdleType DEF Pending
<1>11. KeepLocks(t) /\ \A m \in DOMAIN owner' : owner'[m] \in Threads
  BY <1>2, LocksUntouched
<1>12. Types'
  BY <1>2, <1>9, <1>11 DEF Types, arenas, lists, tags
<1>13. Stage(t)'
  BY <1>1, <1>3, <1>7, <1>8, <1>9 DEF Stage, Searches
<1>14. Locks(t)'
  BY <1>7, <1>8, <1>9 DEF Locks
<1>15. /\ mapped' = mapped /\ csize' = csize /\ psize' = psize /\ bins' = bins /\ binmap' = binmap
       /\ (\A m \in Nodes : initialized'[m] => mapped[m]) /\ Heads(n)' = Heads(n)
  BY DEF IInv, Arena, Heads, arenas, lists, tags
<1>16. Upto(t)' = hi
  BY <1>7, <1>8, <1>9 DEF Upto
<1>17. Grip(t)'
  <2>1. \A e \in Heads(n) : c <= e /\ e < hi => csize[n][e].inuse
    BY <1>4, <1>5
  <2>2. pc'[t] \in {"fwd", "grown"} /\ loc'[t].node = n /\ loc'[t].self = c /\ loc'[t].next = hi
        /\ loc'[t].size = size
    BY <1>7, <1>8, <1>9
  <2>3. mapped'[n] /\ c \in Heads(n)' /\ hi \in Heads(n)' /\ c # Sentinel /\ hi = c + size /\ size > 0
    <3>1. mapped'[n] /\ c \in Heads(n)' /\ hi \in Heads(n)' /\ c # Sentinel
      BY <1>4, <1>5, <1>15, Zenon
    <3>2. PICK k \in Nat \ {0} : k = size
      BY <1>4, Zenon
    <3>3. size > 0
      BY <3>2
    <3> QED
      BY <1>5, <3>1, <3>3, Zenon
  <2> QED
    BY <2>1, <2>2, <2>3, <1>15, <1>16 DEF Grip, Holding
<1>18. \A m \in Nodes : \A o \in Nat : Holds(t, m, o)' => m = n /\ o = c
  <2>1. ASSUME NEW m \in Nodes, NEW o \in Nat, Holds(t, m, o)' PROVE m = n /\ o = c
    <3>1. m = n /\ o \in Heads(n) /\ c <= o /\ o < hi
      BY <2>1, <1>8, <1>9, <1>15, <1>16 DEF Holds
    <3> QED
      BY <3>1, <1>4, <1>5
  <2> QED
    BY <2>1
<1>19. Subject(t)' = b /\ Subject(t) = None
  BY <1>2, <1>8, <1>9, IdleType DEF Subject
<1>20. /\ \A e \in Given' : e \in Given
       /\ \A e \in Given : e.heap \in Nodes /\ e \notin Given' => Holds(t, e.heap, e.at)'
  BY <1>10
<1>21. /\ \A m \in Nodes : \A o \in Nat : Holds(t, m, o)' => \A u \in Threads : ~Holds(u, m, o)
       /\ \A e \in Given' : e.heap \in Nodes /\ Holds(t, e.heap, e.at)' => Subject(t)' = e
  <2>1. \A e \in Given' : e.heap = n /\ e.at = c => e = b
    BY <1>1, <1>3, <1>10 DEF IInv, Distinct
  <2>2. \A e \in Given' : e.at \in Nat
    BY <1>20, GivenFacts
  <2> QED
    BY <2>1, <2>2, <1>4, <1>18, <1>19
<1>22. pc[t] \notin Holding \cup {"link"} /\ pc'[t] # "link"
  BY <1>7, <1>9 DEF Holding
<1> QED
  BY <1>9, <1>10, <1>11, <1>12, <1>13, <1>14, <1>15, <1>17, <1>19, <1>20, <1>21, <1>22, ClaimStep, ZenonT(60)

\* popcorn_realloc begins.
LEMMA ReallocStep ==
  ASSUME IInv, NEW t \in Threads, ReallocCall(t)
  PROVE  IInv'
<1>1. pc[t] = "idle" /\ calls' = calls + 1 /\ UNCHANGED <<arenas, lists, tags, owner, live>>
  BY DEF ReallocCall
<1>2. PICK b \in Passable, bytes \in Requests, n \in Nodes \cup {NoNode} :
        LET want == AdjustSize(bytes)
            again == AdjustSize(want * SizeAlign)
            c == csize[b.heap][b.at]
        IN  \/ /\ n = NoNode /\ b.heap \in Nodes
               /\ Move(t, b, n, again, "served")
            \/ /\ n # NoNode /\ b.heap = "mmap"
               /\ IF want < PageUnits THEN Move(t, b, n, again, "shrunk")
                  ELSE /\ Become(t, [Idle EXCEPT !.old = b, !.node = n, !.want = want])
                       /\ Goto(t, "remap")
            \/ /\ n # NoNode /\ b.heap \notin {"mmap", n}
               /\ Move(t, b, n, again, "served")
            \/ /\ n # NoNode /\ b.heap = n
               /\ Become(t, [Idle EXCEPT !.old = b, !.node = n, !.want = want, !.self = b.at,
                                         !.size = c.size, !.next = b.at + c.size, !.then = "grown"])
               /\ Goto(t, CASE psize[n][b.at + c.size] # c -> "crashed"
                            [] want > c.size -> "fwd"
                            [] OTHER -> "grown")
  BY <1>1, Zenon DEF ReallocCall
<1>3. PICK want \in Nat \ {0} : want = AdjustSize(bytes)
  BY Adjusted, HeapAssumption
<1>4. PICK again \in Nat : again = AdjustSize(want * SizeAlign) /\ again > 1
  BY AdjustedAgain
<1>5. b \in Passable /\ b \in Blocks /\ b \in Given /\ \A u \in Threads : Subject(u) # b
  BY <1>2, PassableFacts
<1>6. ASSUME NEW then \in {"served", "shrunk"}, Move(t, b, n, again, then),
             then = "shrunk" => n \in Nodes
      PROVE  IInv'
  <2>1. PICK r : r = [Idle EXCEPT !.old = b, !.node = n, !.want = again, !.then = then]
    OBVIOUS
  <2>2. PICK l : l = Entry(n, again)
    OBVIOUS
  <2>3. Goto(t, l) /\ Become(t, r)
    BY <1>6, <2>1, <2>2 DEF Move
  <2>4. /\ r \in Locals /\ r.old = b /\ r.node = n /\ r.want = again /\ r.then = then
        /\ r.res = None /\ r.init = FALSE
    BY <2>1, <1>4, <1>5, IdleType DEF Idle, Locals
  <2>5. l \in {"global", "mmap", "scan"} /\ (l = "scan" => n \in Nodes /\ again <= MmapThreshold)
    BY <2>2, EntryFacts, Names
  <2> QED
    <3>1. /\ l \in {"global", "mmap", "scan", "remap"} /\ r.want > 0
          /\ l \in {"scan", "remap"} \/ r.then = "shrunk" => r.node \in Nodes
          /\ l = "scan" => r.want <= MmapThreshold
          /\ IF l = "remap" THEN r.then = "idle" ELSE r.then \in {"served", "shrunk"}
          /\ r.then = "shrunk" => r.want > 1
      BY <1>4, <1>6, <2>4, <2>5
    <3> QED
      BY <1>1, <1>5, <2>3, <2>4, <3>1, ReallocMoves
<1>7. ASSUME n # NoNode, Become(t, [Idle EXCEPT !.old = b, !.node = n, !.want = want]), Goto(t, "remap")
      PROVE  IInv'
  <2>1. PICK r : r = [Idle EXCEPT !.old = b, !.node = n, !.want = want]
    OBVIOUS
  <2>2. /\ r \in Locals /\ r.old = b /\ r.node = n /\ r.want = want /\ r.then = "idle"
        /\ r.res = None /\ r.init = FALSE
    BY <2>1, <1>5, IdleType DEF Idle, Locals
  <2>3. n \in Nodes /\ want > 0
    BY <1>2, <1>3, <1>7
  <2> QED
    BY <1>1, <1>5, <1>7, <2>1, <2>2, <2>3, ReallocMoves
<1>8. CASE n = NoNode /\ b.heap \in Nodes /\ Move(t, b, n, again, "served")
  BY <1>6, <1>8
<1>9. CASE n # NoNode /\ b.heap = "mmap" /\ want < PageUnits /\ Move(t, b, n, again, "shrunk")
  BY <1>6, <1>9
<1>10. CASE n # NoNode /\ Become(t, [Idle EXCEPT !.old = b, !.node = n, !.want = want]) /\ Goto(t, "remap")
  BY <1>7, <1>10
<1>11. CASE n # NoNode /\ b.heap \notin {"mmap", n} /\ Move(t, b, n, again, "served")
  BY <1>6, <1>11
<1>12. CASE /\ n # NoNode /\ b.heap = n
            /\ Become(t, [Idle EXCEPT !.old = b, !.node = n, !.want = want, !.self = b.at,
                                      !.size = csize[n][b.at].size,
                                      !.next = b.at + csize[n][b.at].size, !.then = "grown"])
            /\ Goto(t, CASE psize[n][b.at + csize[n][b.at].size] # csize[n][b.at] -> "crashed"
                         [] want > csize[n][b.at].size -> "fwd"
                         [] OTHER -> "grown")
  <2>1. n \in Nodes
    BY <1>2, <1>12
  <2>2. PICK c \in Nat : c = b.at
    BY <1>5, GivenFacts
  <2>3. Alone(n, c)
    BY <1>5, <1>12, <2>1, <2>2, QuietBlock
  <2>4. PICK size \in Nat : size = csize[n][b.at].size
    BY <2>2, <2>3 DEF Alone
  <2>5. /\ Become(t, [Idle EXCEPT !.old = b, !.node = n, !.want = want, !.self = b.at,
                                  !.size = size, !.next = b.at + size, !.then = "grown"])
        /\ Goto(t, CASE psize[n][b.at + size] # csize[n][b.at] -> "crashed"
                     [] want > size -> "fwd"
                     [] OTHER -> "grown")
    BY <1>12, <2>4
  <2> QED
    BY <1>1, <1>3, <1>5, <1>12, <2>1, <2>4, <2>5, ReallocGrows, ZenonT(30)
<1> QED
  BY <1>2, <1>3, <1>4, <1>8, <1>9, <1>10, <1>11, <1>12, Zenon

-----------------------------------------------------------------------------
(* Steps that make chunks, and steps that take them from and give them to  *)
(* the bins                                                                *)

\* The arena is mapped once, as one chunk before the sentinel.
LEMMA MapStep ==
  ASSUME IInv, NEW t \in Threads, MapArena(t)
  PROVE  IInv'
<1>1. pc[t] = "expand" /\ Searches(t) /\ UNCHANGED <<initialized, lists, owner, live, calls>>
  BY DEF MapArena, Searches
<1>2. Types /\ loc[t] \in Locals /\ Stage(t) /\ Locks(t) /\ calls \in Nat
  BY HeldTypes DEF Types
<1>3. PICK n \in Nodes : n = loc[t].node
  BY <1>1, <1>2 DEF Stage
<1>4. PICK want \in Nat \ {0} : want = loc[t].want
  BY <1>1, SearchFacts
<1>5. /\ want <= MmapThreshold /\ loc[t].res = None /\ loc[t].then \in {"served", "shrunk"}
      /\ loc[t].then = "shrunk" => loc[t].old # None /\ want > 1
      /\ loc[t].init => Owns(t, InitLock(n))
      /\ Subject(t) = None /\ ~Pending(t) /\ ~mapped[n]
  BY <1>1, <1>3, <1>4, SearchFacts DEF MapArena
<1>6. /\ Heads(n) = {} /\ DOMAIN psize[n] = {} /\ ~initialized[n]
      /\ binmap[n] = {} /\ \A i \in Bins : bins[n][i] = <<>>
  BY <1>5 DEF IInv, Arena
<1>7. PICK last \in Nat : last = Sentinel /\ last = ArenaUnits - 1 /\ last > 0 /\ want <= last
  BY <1>5, Sizes DEF Sentinel
<1>8. PICK C : C = [o \in {0, last} |-> Word(IF o = 0 THEN last ELSE 0, TRUE)]
  OBVIOUS
<1>9. PICK P : P = [o \in {0, last} |-> Word(IF o = 0 THEN 0 ELSE last, TRUE)]
  OBVIOUS
<1>10. PICK b : b = Block(n, 0, want)
  OBVIOUS
<1>11. PICK r : r = [loc[t] EXCEPT !.self = 0, !.res = b]
  OBVIOUS
<1>12. /\ mapped' = [mapped EXCEPT ![n] = TRUE]
       /\ csize' = [csize EXCEPT ![n] = C] /\ psize' = [psize EXCEPT ![n] = P]
       /\ Become(t, r) /\ Goto(t, "trim")
  BY <1>3, <1>4, <1>7, <1>8, <1>9, <1>10, <1>11 DEF MapArena
<1>13. /\ DOMAIN C = {0, last} /\ DOMAIN P = {0, last}
       /\ C[0] = Word(last, TRUE) /\ C[last] = Word(0, TRUE)
       /\ P[0] = Word(0, TRUE) /\ P[last] = Word(last, TRUE)
  BY <1>7, <1>8, <1>9
<1>14. /\ C[0] \in Words /\ C[0].size = last /\ C[0].inuse /\ C[last] \in Words /\ C[last].size = 0
       /\ C[last].inuse
       /\ P[0] \in Words /\ P[0].size = 0 /\ P[last] \in Words /\ P[last].size = last
  BY <1>13, WordFacts
<1>15. C \in Tags /\ P \in Tags
  <2>1. PICK S \in SUBSET (0 .. Sentinel) : S = {0, last}
    <3>1. 0 \in 0 .. Sentinel /\ last \in 0 .. Sentinel
      BY <1>7
    <3> QED
      BY <3>1
  <2>2. C \in [S -> Words] /\ P \in [S -> Words]
    BY <2>1, <1>8, <1>9, <1>13, <1>14
  <2> QED
    BY <2>1, <2>2, TagsIntro
<1>16. Tiled(C, P)
  <2>1. DOMAIN P = DOMAIN C /\ {0, Sentinel} \subseteq DOMAIN C
        /\ C[Sentinel] = Word(0, TRUE) /\ P[0] = Word(0, TRUE)
    BY <1>7, <1>13
  <2>2. \A c \in DOMAIN C \ {Sentinel} :
          C[c].size > 0 /\ c + C[c].size \in DOMAIN C /\ P[c + C[c].size] = C[c]
    <3>1. \A c \in DOMAIN C \ {Sentinel} : c = 0
      BY <1>7, <1>13
    <3>2. 0 + C[0].size = last
      BY <1>7, <1>14
    <3> QED
      BY <3>1, <3>2, <1>7, <1>13, <1>14
  <2>3. \A c \in DOMAIN C \ {0} :
          P[c].size > 0 /\ c - P[c].size \in DOMAIN C /\ C[c - P[c].size] = P[c]
    <3>1. \A c \in DOMAIN C \ {0} : c = last
      BY <1>7, <1>13
    <3>2. last - P[last].size = 0
      BY <1>7, <1>14
    <3> QED
      BY <3>1, <3>2, <1>7, <1>13, <1>14
  <2>4. \A c, e \in DOMAIN C : c < e => c + C[c].size <= e
    <3>1. \A c, e \in DOMAIN C : c < e => c = 0 /\ e = last
      BY <1>7, <1>13
    <3>2. 0 + C[0].size <= last
      BY <1>7, <1>14
    <3> QED
      BY <3>1, <3>2
  <2> QED
    BY <2>1, <2>2, <2>3, <2>4 DEF Tiled
<1>17. /\ csize'[n] = C /\ psize'[n] = P /\ mapped'[n]
       /\ \A m \in Nodes \ {n} : csize'[m] = csize[m] /\ psize'[m] = psize[m] /\ mapped'[m] = mapped[m]
       /\ csize' \in [Nodes -> Tags] /\ psize' \in [Nodes -> Tags] /\ mapped' \in [Nodes -> BOOLEAN]
  BY <1>2, <1>12, <1>15 DEF Types
<1>18. Heads(n)' = {0, last} /\ \A m \in Nodes \ {n} : Heads(m)' = Heads(m) /\ Free(m)' = Free(m)
  BY <1>13, <1>17 DEF Heads, Free
<1>19. b \in Blocks /\ b.heap = n /\ b.at = 0 /\ b.size = want /\ b # None
  <2>1. b \in Blocks /\ b.heap = n /\ b.at = 0 /\ b.size = want
    BY <1>10 DEF Block, Blocks, HeapNames
  <2> QED
    BY <2>1, Names
<1>20. /\ r \in Locals /\ r.self = 0 /\ r.res = b /\ r.node = n /\ r.want = want
       /\ r.then = loc[t].then /\ r.old = loc[t].old /\ r.init = loc[t].init
  BY <1>2, <1>3, <1>4, <1>11, <1>19 DEF Locals
<1>21. /\ pc' \in [Threads -> PCs] /\ pc'[t] = "trim"
       /\ loc' \in [Threads -> Locals] /\ loc'[t] = r /\ Others(t)
  BY <1>2, <1>12, <1>20, Moved DEF PCs
<1>22. KeepLocks(t) /\ (\A m \in DOMAIN owner' : owner'[m] \in Threads) /\ \A m : Owns(t, m) => Owns(t, m)'
  BY <1>1, <1>2, LocksUntouched
<1>23. \A m \in Nodes : mapped[m] => m # n /\ mapped'[m]
  BY <1>5, <1>17
<1>24. \A u \in Threads : pc[u] \in Holding \cup {"link"} => loc[u].node \in Nodes \ {n}
  BY <1>5 DEF IInv, Grip
<1>25. OthersKept(t)
  <2>1. ASSUME NEW u \in Threads \ {t} PROVE Grip(u)'
    <3>1. Grip(u) /\ pc'[u] = pc[u] /\ loc'[u] = loc[u]
      BY <1>21 DEF IInv, Others
    <3>2. CASE pc[u] \in Holding \cup {"link"}
      <4>1. PICK m \in Nodes \ {n} : m = loc[u].node
        BY <3>2, <1>24
      <4>2. csize'[m] = csize[m] /\ psize'[m] = psize[m] /\ mapped'[m] = mapped[m]
        BY <4>1, <1>17
      <4> QED
        BY <3>1, <3>2, <4>1, <4>2 DEF Grip, Upto, Heads, Between
    <3>3. CASE pc[u] \notin Holding \cup {"link"}
      BY <3>1, <3>3 DEF Grip, Holding
    <3> QED
      BY <3>2, <3>3
  <2>2. ASSUME NEW u \in Threads \ {t}, NEW m \in Nodes, NEW c \in Nat
        PROVE  (Holds(u, m, c)' <=> Holds(u, m, c)) /\ (Links(u, m, c)' <=> Links(u, m, c))
    <3>1. pc'[u] = pc[u] /\ loc'[u] = loc[u]
      BY <1>21 DEF Others
    <3>2. Links(u, m, c)' <=> Links(u, m, c)
      BY <3>1 DEF Links
    <3>3. CASE pc[u] \in Holding /\ loc[u].node = m
      <4>1. csize'[m] = csize[m]
        BY <3>3, <1>17, <1>24
      <4> QED
        BY <3>1, <3>2, <3>3, <4>1 DEF Holds, Upto, Heads
    <3>4. CASE ~(pc[u] \in Holding /\ loc[u].node = m)
      BY <3>1, <3>2, <3>4 DEF Holds
    <3> QED
      BY <3>3, <3>4
  <2> QED
    BY <2>1, <2>2 DEF OthersKept
<1>26. \A e \in Given : e.heap # n
  BY <1>5, GivenFacts DEF Placed
<1>27. /\ b \notin Given /\ b \notin live /\ \A u \in Threads : loc[u].res # b /\ loc[u].old # b
       /\ \A e \in Given : ~(e.heap = b.heap /\ e.at = b.at)
  <2>1. b \notin Given /\ b \notin live
    BY <1>19, <1>26 DEF Given
  <2>2. \A u \in Threads : loc[u].res # b /\ loc[u].old # b
    BY <2>1, <1>19, CallBlocks
  <2> QED
    BY <2>1, <2>2, <1>19, <1>26
<1>28. Given' = Given \cup {b} /\ Distinct' /\ Private'
  BY <1>1, <1>5, <1>19, <1>20, <1>21, <1>27, GivenGrows
<1>29. Types'
  BY <1>1, <1>2, <1>17, <1>21, <1>22 DEF Types, lists
<1>30. Stage(t)'
  BY <1>2, <1>4, <1>5, <1>19, <1>20, <1>21 DEF Stage, Searches
<1>31. Locks(t)'
  BY <1>3, <1>5, <1>17, <1>20, <1>21, <1>22 DEF Locks
<1>32. Upto(t)' = last
  BY <1>7, <1>14, <1>17, <1>20, <1>21 DEF Upto
<1>33. Grip(t)'
  <2>1. \A c \in Heads(n)' : 0 <= c /\ c < last => csize'[n][c].inuse
    BY <1>7, <1>14, <1>17, <1>18
  <2>2. /\ mapped'[n] /\ 0 \in Heads(n)' /\ last \in Heads(n)' /\ 0 # Sentinel
        /\ want <= csize'[n][0].size
    BY <1>7, <1>14, <1>17, <1>18
  <2> QED
    BY <2>1, <2>2, <1>20, <1>21, <1>32 DEF Grip
<1>34. \A m \in Nodes : \A c \in Nat : Holds(t, m, c)' <=> m = n /\ c = 0
  <2>1. \A c \in Nat : c \in Heads(n)' /\ 0 <= c /\ c < last <=> c = 0
    BY <1>7, <1>18
  <2> QED
    BY <2>1, <1>20, <1>21, <1>32 DEF Holds, Holding
<1>35. \A m \in Nodes : \A c \in Nat : ~Holds(t, m, c) /\ ~Links(t, m, c) /\ ~Links(t, m, c)'
  BY <1>1, <1>21 DEF Holds, Links, Holding
<1>36. \A u \in Threads : \A c : ~Holds(u, n, c) /\ ~Links(u, n, c)
  BY <1>24 DEF Holds, Links
<1>37. ASSUME NEW m \in Nodes PROVE Arena(m)' /\ Covered(m)' /\ Binned(m)'
  <2>1. CASE m = n
    <3>1. Arena(m)'
      BY <2>1, <1>16, <1>17 DEF Arena
    <3>2. Covered(m)'
      <4>1. Holds(t, n, 0)'
        BY <1>34
      <4> QED
        BY <4>1, <2>1, <1>7, <1>18 DEF Covered, Taken
    <3>3. Free(n)' = {}
      BY <1>7, <1>13, <1>14, <1>17 DEF Free
    <3>4. bins'[n] = bins[n] /\ binmap'[n] = {} /\ \A i \in Bins : DOMAIN bins[n][i] = {}
      BY <1>1, <1>6 DEF lists
    <3>5. Binned(n)'
      BY <3>3, <3>4 DEF Binned, Once, Elements
    <3> QED
      BY <2>1, <3>1, <3>2, <3>5
  <2>2. CASE m # n
    <3>1. csize'[m] = csize[m] /\ psize'[m] = psize[m] /\ mapped'[m] = mapped[m]
          /\ bins'[m] = bins[m] /\ binmap'[m] = binmap[m] /\ initialized'[m] = initialized[m]
          /\ Heads(m)' = Heads(m) /\ Free(m)' = Free(m) /\ \A c \in Heads(m) : c \in Nat
      BY <2>2, <1>1, <1>17, <1>18, ArenaFacts DEF lists
    <3>2. Arena(m)'
      BY <3>1 DEF IInv, Arena, Heads
    <3>3. Covered(m)'
      <4>1. \A c \in Heads(m) : Taken(m, c) => Taken(m, c)'
        BY <3>1, <1>25, <1>28, <1>35 DEF Taken, OthersKept
      <4> QED
        BY <4>1, <3>1 DEF IInv, Covered
    <3>4. \A u \in Threads : \A c \in Nat : Links(u, m, c)' <=> Links(u, m, c)
      BY <1>25, <1>35 DEF OthersKept
    <3>5. Binned(m)'
      BY <3>1, <3>4, BinnedSame
    <3> QED
      BY <3>2, <3>3, <3>5
  <2> QED
    BY <2>1, <2>2
<1>38. Apart'
  <2>1. \A m \in Nodes : \A c \in Heads(m)' : c \in Nat
    BY <1>7, <1>18, ArenaFacts
  <2>2. \A m \in Nodes : \A c \in Nat :
          Holds(t, m, c)' => Holds(t, m, c) \/ \A u \in Threads \ {t} : ~Holds(u, m, c)
    BY <1>34, <1>36
  <2> QED
    BY <2>1, <2>2, <1>25, ApartKept
<1>39. Subject(t)' = b
  BY <1>5, <1>20, <1>21 DEF Subject
<1>40. ASSUME NEW e \in Given' PROVE Placed(e)'
  <2>1. CASE e = b
    <3>1. \A u \in Threads : Holds(u, n, 0)' => u = t
      BY <1>25, <1>36 DEF OthersKept
    <3>2. /\ mapped'[n] /\ 0 \in Heads(n)' /\ 0 # Sentinel
          /\ csize'[n][0].inuse /\ want <= csize'[n][0].size
      BY <1>7, <1>14, <1>17, <1>18
    <3> QED
      BY <2>1, <3>1, <3>2, <1>19, <1>39 DEF Placed
  <2>2. CASE e \in Given
    <3>1. Placed(e) /\ e.at \in Nat /\ e.heap # n /\ e # None
      BY <2>2, <1>26, GivenFacts
    <3>2. e.heap \in Nodes => e.at \in Heads(e.heap)' /\ csize'[e.heap][e.at] = csize[e.heap][e.at]
      BY <3>1, <1>17, <1>18 DEF Placed
    <3>3. e.heap \in Nodes => ~Holds(t, e.heap, e.at)'
      BY <3>1, <1>34
    <3>4. Subject(t) # e
      BY <3>1, <1>5
    <3> QED
      BY <2>2, <3>2, <3>3, <3>4, <1>21, <1>23, <1>25, PlacedKept
  <2> QED
    BY <2>1, <2>2, <1>28
<1> QED
  BY <1>21, <1>22, <1>23, <1>25, <1>28, <1>29, <1>30, <1>31, <1>33, <1>37, <1>38, <1>40, Assemble, ZenonT(60)

\* What is known of a free chunk.
LEMMA FreeFacts ==
  ASSUME IInv, NEW n \in Nodes, NEW c \in Free(n)
  PROVE  /\ mapped[n] /\ c \in Heads(n) /\ c \in Nat /\ c # Sentinel /\ csize[n][c].inuse = FALSE
         /\ csize[n][c].size \in Nat \ {0} /\ c + csize[n][c].size \in Heads(n)
         /\ psize[n][c + csize[n][c].size] = csize[n][c]
         /\ c + csize[n][c].size \notin Free(n)
         /\ \A e \in Heads(n) : c < e => c + csize[n][c].size <= e
         /\ BinIndex(csize[n][c].size) \in Bins
         /\ \A u \in Threads : ~Holds(u, n, c)
<1>1. c \in Heads(n) /\ ~csize[n][c].inuse
  BY DEF Free, Heads
<1>2. mapped[n] /\ c \in Nat /\ csize[n][c].inuse \in BOOLEAN
  BY <1>1, ChunkFacts
<1>3. c # Sentinel
  BY <1>1, <1>2, EndFacts
<1>4. /\ csize[n][c].size \in Nat \ {0} /\ c + csize[n][c].size \in Heads(n)
      /\ psize[n][c + csize[n][c].size] = csize[n][c]
      /\ \A e \in Heads(n) : c < e => c + csize[n][c].size <= e
  BY <1>1, <1>3, ChunkFacts
<1>5. BinIndex(csize[n][c].size) \in Bins
  BY <1>4, BinOf
<1>6. c + csize[n][c].size \notin Free(n)
  BY DEF IInv, Binned
<1>7. \A u \in Threads : ~Holds(u, n, c)
  <2>1. ASSUME NEW u \in Threads, Holds(u, n, c) PROVE FALSE
    BY <1>1, <2>1 DEF IInv, Grip, Holds
  <2> QED
    BY <2>1
<1> QED
  BY <1>1, <1>2, <1>3, <1>4, <1>5, <1>6, <1>7

\* Under the lock of a bin, all free chunks of its sizes are in it.
LEMMA AllListed ==
  ASSUME IInv, NEW n \in Nodes, NEW i \in Bins, Unlocked(BinLock(n, i)),
         NEW c \in Free(n), BinIndex(csize[n][c].size) = i
  PROVE  c \in Elements(bins[n][i]) /\ \A u \in Threads : ~Links(u, n, c)
<1>1. ASSUME NEW u \in Threads, Links(u, n, c) PROVE FALSE
  <2>1. pc[u] = "link" /\ loc[u].node = n /\ loc[u].self = c
    BY <1>1 DEF Links
  <2>2. csize[n][c] = Word(loc[u].size, FALSE) /\ Owns(u, BinLock(n, BinIndex(loc[u].size)))
    BY <2>1 DEF IInv, Grip, Locks
  <2>3. csize[n][c].size = loc[u].size
    BY <2>2, WordFacts, LocFacts DEF IInv
  <2> QED
    BY <2>2, <2>3 DEF Owns, Unlocked
<1>2. c \in Elements(bins[n][i])
  BY <1>1 DEF IInv, Binned
<1> QED
  BY <1>1, <1>2

\* Nobody else is at a free chunk.
LEMMA GrabOthers ==
  ASSUME IInv, NEW t \in Threads, Others(t), mapped' = mapped, NEW n \in Nodes,
         NEW c \in Free(n), \A u \in Threads : ~Links(u, n, c),
         NEW hi \in Heads(n), hi = c + csize[n][c].size, Within(n, c, hi)
  PROVE  OthersKept(t)
<1>1. /\ mapped[n] /\ c \in Heads(n) /\ c \in Nat /\ c # Sentinel /\ csize[n][c].inuse = FALSE
      /\ hi \in Nat /\ c < hi /\ psize[n][hi].inuse = FALSE
      /\ \A e \in Heads(n) : c < e => hi <= e
      /\ \A u \in Threads : ~Holds(u, n, c)
  <2>1. /\ mapped[n] /\ c \in Heads(n) /\ c \in Nat /\ c # Sentinel /\ csize[n][c].inuse = FALSE
        /\ csize[n][c].size \in Nat \ {0} /\ \A u \in Threads : ~Holds(u, n, c)
    BY FreeFacts
  <2>2. psize[n][hi] = csize[n][c] /\ \A e \in Heads(n) : c < e => hi <= e
    BY FreeFacts
  <2>3. hi \in Nat /\ c < hi
    BY <2>1
  <2>4. psize[n][hi].inuse = FALSE
    BY <2>1, <2>2
  <2> QED
    BY <2>1, <2>2, <2>3, <2>4
<1>2. \A m \in Nodes : \A o \in Heads(m) : o \in Nat
  BY ArenaFacts
<1>3. \A o \in Heads(n) : c <= o /\ o < hi => o = c
  BY <1>1, <1>2
<1>4. \A u \in Threads \ {t} : \A o \in Heads(n) :
        c <= o /\ o < hi => ~Holds(u, n, o) /\ ~Links(u, n, o)
  BY <1>1, <1>3
<1>5. /\ csize[n][c].inuse => csize'[n][c].inuse
      /\ psize[n][hi].inuse => psize'[n][hi].inuse
  BY <1>1
<1> QED
  BY <1>1, <1>4, <1>5, OthersGrip

\* A thread takes a free chunk, or the beginning of one, to what it holds.
LEMMA GrabStep ==
  ASSUME IInv, NEW t \in Threads, Others(t), KeepLocks(t), NEW n \in Nodes,
         NEW c \in Free(n), \A u \in Threads : ~Links(u, n, c),
         NEW hi \in Heads(n), hi = c + csize[n][c].size,
         Within(n, c, hi), Tiled(csize'[n], psize'[n]), Binned(n)', csize'[n][c].inuse,
         \A o \in Heads(n)' : c < o /\ o < hi => ~csize'[n][o].inuse,
         \A m \in Nodes \ {n} : bins'[m] = bins[m] /\ binmap'[m] = binmap[m],
         mapped' = mapped, initialized' = initialized,
         Types', Stage(t)', Locks(t)', Grip(t)', Distinct', Private',
         pc[t] # "link", pc'[t] # "link",
         \A m \in Nodes : \A o \in Nat : Holds(t, m, o)' <=> Holds(t, m, o) \/ (m = n /\ o = c),
         \A e \in Given : e \in Given', \A e \in Given' : e \notin Given => Placed(e)',
         \A e \in Given : Subject(t) = e => Subject(t)' = e
  PROVE  IInv'
<1>1. /\ mapped[n] /\ c \in Heads(n) /\ c \in Nat /\ c # Sentinel /\ csize[n][c].inuse = FALSE
      /\ hi \in Nat /\ c < hi /\ psize[n][hi].inuse = FALSE
      /\ \A e \in Heads(n) : c < e => hi <= e
      /\ \A u \in Threads : ~Holds(u, n, c)
  <2>1. /\ mapped[n] /\ c \in Heads(n) /\ c \in Nat /\ c # Sentinel /\ csize[n][c].inuse = FALSE
        /\ csize[n][c].size \in Nat \ {0} /\ \A u \in Threads : ~Holds(u, n, c)
    BY FreeFacts
  <2>2. psize[n][hi] = csize[n][c] /\ \A e \in Heads(n) : c < e => hi <= e
    BY FreeFacts
  <2>3. hi \in Nat /\ c < hi
    BY <2>1
  <2>4. psize[n][hi].inuse = FALSE
    BY <2>1, <2>2
  <2> QED
    BY <2>1, <2>2, <2>3, <2>4
<1>2. \A m \in Nodes : \A o \in Heads(m) : o \in Nat
  BY ArenaFacts
<1>4. OthersKept(t)
  BY GrabOthers
<1>5. /\ \A o \in Nat : o <= c \/ o >= hi => (o \in Heads(n)' <=> o \in Heads(n))
      /\ \A o \in Heads(n) : o < c \/ o >= hi => csize'[n][o] = csize[n][o]
      /\ \A m \in Nodes \ {n} : csize'[m] = csize[m] /\ psize'[m] = psize[m] /\ Heads(m)' = Heads(m)
                                /\ Free(m)' = Free(m)
  BY DEF Within, Same, Heads, Free
<1>6. \A m \in Nodes : \A o \in Heads(m)' : o \in Nat
  <2>1. \A o \in Heads(n)' : o \in Nat
    BY TagsFacts DEF Within, Heads
  <2> QED
    BY <2>1, <1>2, <1>5
<1>7. \A o \in Heads(n) \ {c} : o \in Heads(n)' /\ csize'[n][o] = csize[n][o]
  <2>1. \A o \in Heads(n) \ {c} : o < c \/ o >= hi
    <3>1. ASSUME NEW o \in Heads(n) \ {c} PROVE o < c \/ o >= hi
      <4>1. o \in Nat /\ (c < o => hi <= o)
        BY <1>1, <1>2
      <4> QED
        BY <4>1, <1>1
    <3> QED
      BY <3>1
  <2>2. \A o \in Heads(n) \ {c} : o <= c \/ o >= hi
    BY <2>1, <1>1, <1>2
  <2> QED
    BY <2>1, <2>2, <1>2, <1>5
<1>8. \A m \in Nodes : Arena(m)'
  BY <1>1, <1>5, ArenaKept
<1>9. \A u \in Threads : \A m \in Nodes : \A o \in Nat :
        (Holds(u, m, o) => Holds(u, m, o)') /\ (Links(u, m, o)' <=> Links(u, m, o))
  <2>1. \A m \in Nodes : \A o \in Nat : Links(t, m, o)' <=> Links(t, m, o)
    BY DEF Links
  <2> QED
    BY <2>1, <1>4 DEF OthersKept
<1>10. ASSUME NEW m \in Nodes PROVE Covered(m)'
  <2>1. SUFFICES ASSUME NEW o \in Heads(m)', o # Sentinel, csize'[m][o].inuse PROVE Taken(m, o)'
    BY DEF Covered
  <2>2. CASE m = n /\ o = c
    BY <2>2, <1>1 DEF Taken
  <2>3. CASE ~(m = n /\ o = c)
    <3>1. o \in Heads(m) /\ csize[m][o].inuse
      <4>1. CASE m # n
        BY <4>1, <2>1, <1>5
      <4>2. CASE m = n
        <5>1. o \in Nat /\ ~(c < o /\ o < hi)
          BY <2>1, <4>2, <1>6
        <5>2. o <= c \/ o >= hi
          BY <5>1, <1>1
        <5> QED
          BY <2>1, <2>3, <4>2, <5>1, <5>2, <1>5, <1>7
      <4> QED
        BY <4>1, <4>2
    <3>2. Taken(m, o) /\ o \in Nat
      <4>1. Covered(m)
        BY DEF IInv
      <4>2. Taken(m, o)
        BY <2>1, <3>1, <4>1 DEF Covered
      <4> QED
        BY <3>1, <4>2, <1>2
    <3> QED
      BY <3>2, <1>9 DEF Taken
  <2> QED
    BY <2>2, <2>3
<1>11. ASSUME NEW m \in Nodes PROVE Binned(m)'
  <2>1. CASE m # n
    BY <2>1, <1>5, <1>9, BinnedSame DEF Free, Heads
  <2> QED
    BY <2>1
<1>12. Apart'
  <2>1. \A m \in Nodes : \A o \in Nat :
          Holds(t, m, o)' => Holds(t, m, o) \/ \A u \in Threads \ {t} : ~Holds(u, m, o)
    BY <1>1
  <2> QED
    BY <2>1, <1>4, <1>6, ApartKept
<1>13. ASSUME NEW e \in Given' PROVE Placed(e)'
  <2>1. CASE e \in Given
    <3>1. Placed(e) /\ e.at \in Nat
      BY <2>1, GivenFacts
    <3>2. ~(e.heap = n /\ e.at = c)
      BY <3>1, <1>1 DEF Placed
    <3>3. e.heap \in Nodes => e.at \in Heads(e.heap)' /\ csize'[e.heap][e.at] = csize[e.heap][e.at]
      BY <3>1, <3>2, <1>5, <1>7 DEF Placed
    <3>4. e.heap \in Nodes /\ Holds(t, e.heap, e.at)' => Subject(t)' = e
      BY <2>1, <3>1, <3>2 DEF Placed
    <3>5. Subject(t) = e => Subject(t)' = e
      BY <2>1
    <3> QED
      BY <2>1, <3>3, <3>4, <3>5, <1>4, PlacedKept
  <2> QED
    BY <2>1
<1> QED
  BY <1>4, <1>8, <1>10, <1>11, <1>12, <1>13, Assemble, ZenonT(60)

\* unbin: the chunk is marked as used, and it is no longer in its bin.
Unbound(n, c, hi) ==
  /\ Within(n, c, hi) /\ Tiled(csize'[n], psize'[n])
  /\ csize' \in [Nodes -> Tags] /\ psize' \in [Nodes -> Tags]
  /\ Heads(n)' = Heads(n) /\ csize'[n][c].inuse /\ csize'[n][c].size = csize[n][c].size
  /\ Free(n)' = Free(n) \ {c} /\ \A o \in Free(n) \ {c} : csize'[n][o] = csize[n][o]

\* The tags after unbin.
LEMMA UnbinTags ==
  ASSUME IInv, NEW n \in Nodes, NEW c \in Free(n), NEW hi \in Heads(n), hi = c + csize[n][c].size,
         NEW i \in Bins, Unbin(n, c, i)
  PROVE  Unbound(n, c, hi)
<1>1. /\ csize \in [Nodes -> Tags] /\ psize \in [Nodes -> Tags]
      /\ csize[n] \in Tags /\ psize[n] \in Tags /\ Tiled(csize[n], psize[n])
      /\ c \in Heads(n) /\ c # Sentinel /\ csize[n][c].size \in Nat
  BY FreeFacts, ArenaFacts DEF IInv, Types
<1>2. PICK C \in Tags, P \in Tags : C = csize[n] /\ P = psize[n]
  BY <1>1
<1>3. PICK lo \in DOMAIN C : lo = c
  BY <1>1, <1>2 DEF Heads
<1>4. PICK size \in Nat : size = C[lo].size
  BY <1>1, <1>2, <1>3
<1>5. PICK C2 : C2 = Marked(C, lo)
  OBVIOUS
<1>6. PICK P2 : P2 = Marked(P, lo + size)
  OBVIOUS
<1>7. csize' = [csize EXCEPT ![n] = C2] /\ psize' = [psize EXCEPT ![n] = P2]
  BY <1>2, <1>3, <1>4, <1>5, <1>6 DEF Unbin, Marked
<1>8. csize'[n] = C2 /\ psize'[n] = P2
      /\ \A m \in Nodes \ {n} : csize'[m] = csize[m] /\ psize'[m] = psize[m]
  BY <1>1, <1>7
<1>9. Tiled(C, P) /\ lo # Sentinel
  BY <1>1, <1>2, <1>3
<1>10. /\ Tiled(C2, P2) /\ C2 \in Tags /\ P2 \in Tags /\ Same(C, P, C2, P2, lo, lo + size)
       /\ DOMAIN C2 = DOMAIN C /\ C2[lo] = Word(size, TRUE)
  <2>1. C \in Tags /\ P \in Tags /\ Tiled(C, P) /\ lo \in DOMAIN C /\ lo # Sentinel /\ size \in Nat
    BY <1>2, <1>3, <1>4, <1>9
  <2>2. MarkedWell(C, P, C2, P2, lo, size)
    BY <2>1, <1>3, <1>4, <1>5, <1>6, MarkedTiled
  <2> QED
    BY <2>2 DEF MarkedWell
<1>11. hi = lo + size
  BY <1>2, <1>3, <1>4
<1>12. Within(n, c, hi) /\ Tiled(csize'[n], psize'[n])
  BY <1>2, <1>3, <1>8, <1>10, <1>11 DEF Within
<1>13. csize' \in [Nodes -> Tags] /\ psize' \in [Nodes -> Tags]
  BY <1>1, <1>7, <1>10
<1>14. C2[lo].inuse /\ C2[lo].size = size
  BY <1>4, <1>10, WordFacts
<1>15. \A o \in DOMAIN C : o # lo => C2[o] = C[o]
  BY <1>5 DEF Marked
<1>16. Heads(n)' = Heads(n) /\ csize'[n][c].inuse /\ csize'[n][c].size = csize[n][c].size
  BY <1>2, <1>3, <1>4, <1>8, <1>10, <1>14 DEF Heads
<1>17. Free(n)' = Free(n) \ {c}
  <2>1. \A o : o \in DOMAIN C2 /\ ~C2[o].inuse <=> o \in DOMAIN C /\ ~C[o].inuse /\ o # lo
    BY <1>10, <1>14, <1>15
  <2> QED
    BY <2>1, <1>2, <1>3, <1>8 DEF Free
<1>18. \A o \in Free(n) \ {c} : csize'[n][o] = csize[n][o]
  BY <1>2, <1>3, <1>8, <1>15 DEF Free
<1> QED
  BY <1>12, <1>13, <1>16, <1>17, <1>18 DEF Unbound

\* The bins after a chunk has been taken from one.
LEMMA UnbinBins ==
  ASSUME IInv, NEW t \in Threads, Others(t), pc[t] # "link", pc'[t] # "link",
         NEW n \in Nodes, NEW c \in Free(n), NEW hi \in Heads(n), hi = c + csize[n][c].size,
         NEW i \in Bins, BinIndex(csize[n][c].size) = i, Unlocked(BinLock(n, i)), Unbin(n, c, i)
  PROVE  /\ Binned(n)'
         /\ bins' \in [Nodes -> [Bins -> Seq(Nat)]] /\ binmap' \in [Nodes -> SUBSET Bins]
         /\ \A m \in Nodes \ {n} : bins'[m] = bins[m] /\ binmap'[m] = binmap[m]
<1>1. /\ bins \in [Nodes -> [Bins -> Seq(Nat)]] /\ binmap \in [Nodes -> SUBSET Bins]
      /\ bins[n] \in [Bins -> Seq(Nat)] /\ binmap[n] \in SUBSET Bins
  BY DEF IInv, Types
<1>2. PICK s \in Seq(Nat) : s = bins[n][i]
  BY <1>1
<1>3. c \in Elements(s) /\ \A u \in Threads : ~Links(u, n, c)
  BY <1>2, AllListed
<1>4. PICK p : p = CHOOSE q \in DOMAIN s : s[q] = c
  OBVIOUS
<1>5. p \in DOMAIN s /\ s[p] = c /\ p \in Nat
  <2>1. \E q \in DOMAIN s : s[q] = c
    BY <1>3 DEF Elements
  <2>2. p \in DOMAIN s /\ s[p] = c
    BY <2>1, <1>4
  <2> QED
    BY <2>2, <1>2
<1>6. PICK r : r = RemoveAt(s, p)
  OBVIOUS
<1>7. Binned(n)
  BY DEF IInv
<1>8. Once(s)
  BY <1>2, <1>7 DEF Binned
<1>9. r \in Seq(Nat) /\ Len(r) = Len(s) - 1 /\ Once(r) /\ Elements(r) = Elements(s) \ {c}
  <2>1. r \in Seq(Nat) /\ Len(r) = Len(s) - 1 /\ Once(r) /\ Elements(r) = Elements(s) \ {s[p]}
    BY <1>2, <1>5, <1>6, <1>8, RemovedOnce, ZenonT(30)
  <2> QED
    BY <2>1, <1>5
<1>10. PICK b2 : b2 = [bins[n] EXCEPT ![i] = r]
  OBVIOUS
<1>11. PICK m2 : m2 = IF Len(s) = 1 THEN binmap[n] \ {i} ELSE binmap[n]
  OBVIOUS
<1>12. bins' = [bins EXCEPT ![n] = b2] /\ binmap' = [binmap EXCEPT ![n] = m2]
  BY <1>2, <1>4, <1>6, <1>10, <1>11 DEF Unbin
<1>13. b2 \in [Bins -> Seq(Nat)] /\ m2 \in SUBSET Bins /\ b2[i] = r
       /\ \A j \in Bins \ {i} : b2[j] = bins[n][j]
  BY <1>1, <1>9, <1>10, <1>11
<1>14. /\ bins' \in [Nodes -> [Bins -> Seq(Nat)]] /\ binmap' \in [Nodes -> SUBSET Bins]
       /\ \A m \in Nodes \ {n} : bins'[m] = bins[m] /\ binmap'[m] = binmap[m]
       /\ bins'[n] = b2 /\ binmap'[n] = m2
  BY <1>1, <1>12, <1>13
<1>15. /\ Free(n)' = Free(n) \ {c} /\ Heads(n)' = Heads(n)
       /\ \A o \in Free(n) \ {c} : csize'[n][o] = csize[n][o]
  <2>1. Unbound(n, c, hi)
    BY UnbinTags
  <2> QED
    BY <2>1 DEF Unbound
<1>16. \A u \in Threads : \A o : Links(u, n, o)' <=> Links(u, n, o)
  BY DEF Others, Links
<1>17. Binned(n)'
  <2>1. \A j \in Bins : Once(b2[j])
    BY <1>7, <1>9, <1>13 DEF Binned
  <2>2. \A j \in Bins : \A o \in Elements(b2[j]) :
          /\ o \in Elements(bins[n][j]) /\ o # c
          /\ o \in Free(n) /\ BinIndex(csize[n][o].size) = j
    <3>1. ASSUME NEW j \in Bins, NEW o \in Elements(b2[j])
          PROVE  o \in Elements(bins[n][j]) /\ (j = i => o # c)
      BY <1>2, <1>9, <1>13
    <3> QED
      BY <3>1, <1>7 DEF Binned
  <2>3. \A j \in Bins : \A o \in Elements(b2[j]) :
          /\ o \in Free(n) \ {c} /\ BinIndex(csize'[n][o].size) = j
          /\ \A u \in Threads : ~Links(u, n, o)'
    BY <2>2, <1>7, <1>15, <1>16 DEF Binned
  <2>4. \A o \in Free(n) \ {c} : \/ o \in Elements(b2[BinIndex(csize'[n][o].size)])
                                 \/ \E u \in Threads : Links(u, n, o)'
    <3>1. ASSUME NEW o \in Free(n) \ {c}, NEW j \in Bins, j = BinIndex(csize[n][o].size),
                 o \in Elements(bins[n][j])
          PROVE  o \in Elements(b2[j])
      BY <3>1, <1>2, <1>9, <1>13
    <3>2. \A o \in Free(n) : BinIndex(csize[n][o].size) \in Bins
      BY FreeFacts
    <3> QED
      BY <3>1, <3>2, <1>7, <1>15, <1>16 DEF Binned
  <2>5. \A j \in Bins : j \in m2 <=> \E o \in Free(n) \ {c} : BinIndex(csize'[n][o].size) = j
    <3>1. \A j \in Bins : (\E o \in Free(n) \ {c} : BinIndex(csize'[n][o].size) = j)
                          <=> \E o \in Free(n) \ {c} : BinIndex(csize[n][o].size) = j
      BY <1>15
    <3>2. \A j \in Bins : j \in binmap[n] <=> \E o \in Free(n) : BinIndex(csize[n][o].size) = j
      BY <1>7 DEF Binned
    <3>3. CASE Len(s) = 1
      <4>1. Elements(s) = {c}
        BY <3>3, <1>2, <1>5, OnlyOne
      <4>2. \A o \in Free(n) : BinIndex(csize[n][o].size) = i => o = c
        BY <4>1, <1>2, AllListed
      <4>3. m2 = binmap[n] \ {i}
        BY <3>3, <1>11
      <4> QED
        BY <3>1, <3>2, <4>2, <4>3
    <3>4. CASE Len(s) # 1
      <4>1. PICK o \in Elements(s) : o # c
        BY <3>4, <1>2, <1>5, <1>8, OneLeft
      <4>2. o \in Free(n) /\ BinIndex(csize[n][o].size) = i
        BY <4>1, <1>2, <1>7 DEF Binned
      <4>3. m2 = binmap[n]
        BY <3>4, <1>11
      <4> QED
        BY <3>1, <3>2, <4>1, <4>2, <4>3
    <3> QED
      BY <3>3, <3>4
  <2>6. \A o \in Free(n) \ {c} : o + csize'[n][o].size \notin Free(n) \ {c}
    BY <1>7, <1>15 DEF Binned
  <2> QED
    BY <2>1, <2>3, <2>4, <2>5, <2>6, <1>14, <1>15 DEF Binned
<1> QED
  BY <1>14, <1>17

\* Take: a search has got a free chunk, whole or without the rest that stays
\* in its bin.
Taking(t, n, want, c, hi) ==
  /\ pc[t] = "take" /\ n = loc[t].node /\ want = loc[t].want
  /\ hi = c + csize[n][c].size /\ \A u \in Threads : ~Links(u, n, c)
  /\ Within(n, c, hi) /\ Tiled(csize'[n], psize'[n]) /\ Binned(n)'
  /\ csize' \in [Nodes -> Tags] /\ psize' \in [Nodes -> Tags]
  /\ bins' \in [Nodes -> [Bins -> Seq(Nat)]] /\ binmap' \in [Nodes -> SUBSET Bins]
  /\ \A m \in Nodes \ {n} : bins'[m] = bins[m] /\ binmap'[m] = binmap[m]
  /\ c \in Heads(n)' /\ csize'[n][c].inuse /\ want <= csize'[n][c].size
  /\ \A o \in Heads(n)' : c < o /\ o < hi => ~csize'[n][o].inuse
  /\ Become(t, [loc[t] EXCEPT !.self = c, !.res = Block(n, c, want)]) /\ Goto(t, "trim")
  /\ UNCHANGED <<arenas, owner, live, calls>>

\* A whole chunk is taken from its bin.
LEMMA TakeGrab ==
  ASSUME IInv, NEW t \in Threads, NEW n \in Nodes, NEW want \in Nat \ {0},
         NEW c \in Free(n), NEW hi \in Heads(n), Taking(t, n, want, c, hi)
  PROVE  IInv'
<1>a. /\ pc[t] = "take" /\ n = loc[t].node /\ want = loc[t].want
      /\ Become(t, [loc[t] EXCEPT !.self = c, !.res = Block(n, c, want)]) /\ Goto(t, "trim")
  BY DEF Taking
<1>b. UNCHANGED <<arenas, owner, live, calls>>
  BY DEF Taking
<1>c. hi = c + csize[n][c].size /\ \A u \in Threads : ~Links(u, n, c)
  BY DEF Taking
<1>d. Within(n, c, hi) /\ Tiled(csize'[n], psize'[n]) /\ Binned(n)'
  BY DEF Taking
<1>e. /\ csize' \in [Nodes -> Tags] /\ psize' \in [Nodes -> Tags]
      /\ bins' \in [Nodes -> [Bins -> Seq(Nat)]] /\ binmap' \in [Nodes -> SUBSET Bins]
  BY DEF Taking
<1>f. \A m \in Nodes \ {n} : bins'[m] = bins[m] /\ binmap'[m] = binmap[m]
  BY DEF Taking
<1>g. /\ c \in Heads(n)' /\ csize'[n][c].inuse /\ want <= csize'[n][c].size
      /\ \A o \in Heads(n)' : c < o /\ o < hi => ~csize'[n][o].inuse
  BY DEF Taking
<1>1. Types /\ loc[t] \in Locals /\ Stage(t) /\ Locks(t) /\ calls \in Nat
  BY HeldTypes DEF Types
<1>2. /\ want <= MmapThreshold /\ loc[t].res = None /\ loc[t].then \in {"served", "shrunk"}
      /\ loc[t].then = "shrunk" => loc[t].old # None /\ want > 1
      /\ loc[t].init = FALSE /\ Subject(t) = None /\ ~Pending(t)
  BY <1>a, SearchFacts DEF Searches
<1>3. /\ mapped[n] /\ c \in Heads(n) /\ c \in Nat /\ c # Sentinel /\ csize[n][c].inuse = FALSE
      /\ \A u \in Threads : ~Holds(u, n, c)
  BY FreeFacts
<1>4. PICK b : b = Block(n, c, want)
  OBVIOUS
<1>5. b \in Blocks /\ b.heap = n /\ b.at = c /\ b.size = want /\ b # None
  <2>1. b \in Blocks /\ b.heap = n /\ b.at = c /\ b.size = want
    BY <1>3, <1>4 DEF Block, Blocks, HeapNames
  <2> QED
    BY <2>1, Names
<1>6. PICK r : r = [loc[t] EXCEPT !.self = c, !.res = b]
  OBVIOUS
<1>7. /\ r \in Locals /\ r.self = c /\ r.res = b /\ r.node = n /\ r.want = want
      /\ r.then = loc[t].then /\ r.old = loc[t].old /\ r.init = FALSE
  BY <1>a, <1>1, <1>2, <1>3, <1>5, <1>6 DEF Locals
<1>8. Become(t, r)
  BY <1>a, <1>4, <1>6
<1>9. /\ pc' \in [Threads -> PCs] /\ pc'[t] = "trim"
      /\ loc' \in [Threads -> Locals] /\ loc'[t] = r /\ Others(t)
  BY <1>a, <1>1, <1>7, <1>8, Moved DEF PCs
<1>10. KeepLocks(t) /\ (\A m \in DOMAIN owner' : owner'[m] \in Threads)
  BY <1>b, <1>1, LocksUntouched
<1>11. mapped' = mapped /\ initialized' = initialized /\ live' = live
  BY <1>b DEF arenas
<1>12. OthersKept(t)
  BY <1>c, <1>d, <1>9, <1>11, GrabOthers
<1>13. /\ csize'[n] \in Tags /\ psize'[n] \in Tags
       /\ csize'[n][c].size \in Nat /\ csize'[n][c].size > 0 /\ c + csize'[n][c].size \in Heads(n)'
       /\ \A e \in Heads(n)' : e \in Nat /\ (c < e => c + csize'[n][c].size <= e)
  <2>1. PICK C \in Tags, P \in Tags : C = csize'[n] /\ P = psize'[n]
    BY <1>e
  <2>2. Tiled(C, P) /\ c \in DOMAIN C
    BY <2>1, <1>d, <1>g DEF Heads
  <2>3. /\ DOMAIN C \subseteq 0 .. Sentinel
        /\ C[c].size \in Nat /\ C[c].size > 0 /\ c + C[c].size \in DOMAIN C
        /\ \A e \in DOMAIN C : c < e => c + C[c].size <= e
    <3>1. \A o \in DOMAIN C : C[o].size \in Nat
      BY <2>1, <2>2, TiledFacts
    <3>2. \A o \in DOMAIN C : o # Sentinel => C[o].size > 0 /\ o + C[o].size \in DOMAIN C
      BY <2>1, <2>2, TiledFacts
    <3>3. DOMAIN C \subseteq 0 .. Sentinel /\ \A o, e \in DOMAIN C : o < e => o + C[o].size <= e
      BY <2>1, <2>2, TiledFacts
    <3> QED
      BY <3>1, <3>2, <3>3, <2>2, <1>3
  <2> QED
    BY <2>1, <2>3, Sizes DEF Heads
<1>14. PICK next \in Nat : next = c + csize'[n][c].size /\ next \in Heads(n)'
  BY <1>3, <1>13
<1>15. Upto(t)' = next
  BY <1>7, <1>9, <1>14 DEF Upto
<1>16. \A o \in Heads(n)' : c <= o /\ o < next <=> o = c
  BY <1>3, <1>13, <1>14
<1>17. \A m \in Nodes : \A o \in Nat :
         (Holds(t, m, o)' <=> m = n /\ o = c) /\ ~Holds(t, m, o)
  <2>1. \A m \in Nodes : \A o \in Nat : ~Holds(t, m, o)
    BY <1>a DEF Holds, Holding
  <2>2. /\ pc'[t] = "trim" /\ loc'[t].self = c /\ loc'[t].node = n
    BY <1>7, <1>9
  <2>3. \A m \in Nodes : \A o \in Nat : Holds(t, m, o)' => m = n /\ o = c
    BY <2>2, <1>15, <1>16 DEF Holds
  <2>4. Holds(t, n, c)'
    BY <2>2, <1>3, <1>15, <1>16, <1>g DEF Holds, Holding
  <2> QED
    BY <2>1, <2>3, <2>4
<1>18. \A e \in Given : ~(e.heap = b.heap /\ e.at = b.at)
  <2>1. \A e \in Given : Placed(e)
    BY GivenFacts
  <2> QED
    BY <2>1, <1>3, <1>5 DEF Placed
<1>19. b \notin Given /\ b \notin live /\ \A u \in Threads : loc[u].res # b /\ loc[u].old # b
  <2>1. b \notin Given /\ b \notin live
    BY <1>18 DEF Given
  <2> QED
    BY <2>1, <1>5, CallBlocks
<1>20. Given' = Given \cup {b} /\ Distinct' /\ Private'
  BY <1>2, <1>5, <1>7, <1>9, <1>11, <1>18, <1>19, GivenGrows
<1>21. Types'
  BY <1>b, <1>e, <1>1, <1>9, <1>10, <1>11, <1>20 DEF Types, arenas
<1>22. Stage(t)'
  BY <1>a, <1>1, <1>2, <1>3, <1>5, <1>7, <1>9 DEF Stage, Searches
<1>23. Locks(t)'
  BY <1>7, <1>9 DEF Locks
<1>24. Grip(t)'
  <2>1. /\ mapped'[n] /\ c \in Heads(n)' /\ c # Sentinel /\ next \in Heads(n)'
        /\ \A o \in Heads(n)' : c <= o /\ o < next => csize'[n][o].inuse
        /\ want <= csize'[n][c].size
    BY <1>g, <1>3, <1>11, <1>14, <1>16
  <2> QED
    BY <2>1, <1>7, <1>9, <1>15 DEF Grip
<1>25. Subject(t)' = b
  BY <1>2, <1>7, <1>9 DEF Subject
<1>26. Placed(b)'
  <2>1. \A u \in Threads : Holds(u, n, c)' => u = t
    BY <1>3, <1>12 DEF OthersKept
  <2>2. /\ mapped'[n] /\ c \in Heads(n)' /\ c # Sentinel
        /\ csize'[n][c].inuse /\ want <= csize'[n][c].size
    BY <1>g, <1>3, <1>11
  <2> QED
    BY <2>1, <2>2, <1>5, <1>25 DEF Placed
<1>27. /\ \A e \in Given : e \in Given' /\ Subject(t) # e
       /\ \A e \in Given' : e \notin Given => Placed(e)'
  <2>1. \A e \in Given : e # None
    BY GivenFacts
  <2> QED
    BY <2>1, <1>2, <1>20, <1>26
<1>28. /\ \A e \in Given : e \in Given'
       /\ \A e \in Given' : e \notin Given => Placed(e)'
       /\ \A e \in Given : Subject(t) = e => Subject(t)' = e
       /\ \A m \in Nodes : \A o \in Nat : Holds(t, m, o)' <=> Holds(t, m, o) \/ (m = n /\ o = c)
       /\ pc[t] # "link" /\ pc'[t] # "link"
  BY <1>a, <1>9, <1>17, <1>27
<1> QED
  BY <1>c, <1>d, <1>f, <1>g, <1>9, <1>10, <1>11, <1>20, <1>21, <1>22, <1>23, <1>24, <1>28, GrabStep, ZenonT(60)

\* A free chunk of which the rest is left: only the beginning is used.
Pretrimmed(n, c, want, hi) ==
  /\ Within(n, c, hi) /\ Tiled(csize'[n], psize'[n])
  /\ csize' \in [Nodes -> Tags] /\ psize' \in [Nodes -> Tags]
  /\ c + want \notin Heads(n) /\ c \in Heads(n)'
  /\ csize'[n][c].inuse /\ csize'[n][c].size = want
  /\ csize'[n][c + want].inuse = FALSE /\ csize'[n][c + want].size = csize[n][c].size - want
  /\ Free(n)' = (Free(n) \ {c}) \cup {c + want}
  /\ \A o \in Free(n) \ {c} : csize'[n][o] = csize[n][o]
  /\ \A o \in Heads(n)' : c < o /\ o < hi => o = c + want

\* The tags after pretrim.
LEMMA PretrimTags ==
  ASSUME IInv, NEW n \in Nodes, NEW c \in Free(n), NEW hi \in Heads(n), hi = c + csize[n][c].size,
         NEW want \in Nat \ {0}, want < csize[n][c].size, NEW inuse \in BOOLEAN, inuse = FALSE,
         Split(n, c, want, inuse)
  PROVE  Pretrimmed(n, c, want, hi)
<1>1. /\ mapped[n] /\ c \in Heads(n) /\ c \in Nat /\ c # Sentinel /\ csize[n][c].inuse = FALSE
      /\ csize[n][c].size \in Nat \ {0} /\ \A e \in Heads(n) : c < e => hi <= e
  BY FreeFacts
<1>2. PICK size \in Nat : size = csize[n][c].size
  BY <1>1
<1>3. PICK rest \in Nat : rest = c + want /\ c < rest /\ rest < hi /\ hi = c + size
  BY <1>1, <1>2
<1>4. /\ Within(n, c, c + size) /\ Tiled(csize'[n], psize'[n]) /\ Divided(n, c, want, size, inuse)
  <2>1. c # Sentinel /\ want < size
    BY <1>1, <1>2
  <2> QED
    BY <2>1, <1>1, <1>2, SplitTags, ZenonT(60)
<1>5. Within(n, c, hi)
  BY <1>3, <1>4
<1>6. /\ csize' \in [Nodes -> Tags] /\ psize' \in [Nodes -> Tags]
      /\ Heads(n)' = Heads(n) \cup {rest}
      /\ csize'[n][c] = Word(want, TRUE)
      /\ csize'[n][rest] = Word(size - want, inuse)
  BY <1>3, <1>4 DEF Divided
<1>7. /\ csize'[n][c].inuse = TRUE /\ csize'[n][c].size = want
      /\ csize'[n][rest].inuse = FALSE /\ csize'[n][rest].size = size - want
  <2>1. size - want \in Nat
    BY <1>1, <1>2
  <2> QED
    BY <2>1, <1>6, WordFacts
<1>8. rest \notin Heads(n) /\ \A o \in Heads(n)' : c < o /\ o < hi => o = rest
  <2>1. rest \notin Heads(n)
    BY <1>1, <1>3
  <2>2. \A o \in Heads(n) : o \in Nat
    BY ArenaFacts
  <2>3. hi \in Nat
    BY <2>2
  <2>4. \A o \in Heads(n) : ~(c < o /\ o < hi)
    BY <2>2, <2>3, <1>1
  <2> QED
    BY <2>1, <2>4, <1>6
<1>9. \A o \in Heads(n) \ {c} : csize'[n][o] = csize[n][o]
  <2>1. \A o \in Heads(n) : o < c \/ o >= hi => csize'[n][o] = csize[n][o]
    BY <1>5 DEF Within, Same, Heads
  <2>2. \A o \in Heads(n) : o \in Nat
    BY ArenaFacts
  <2>3. \A o \in Heads(n) \ {c} : o < c \/ o >= hi
    <3> SUFFICES ASSUME NEW o \in Heads(n) \ {c} PROVE o < c \/ o >= hi
      OBVIOUS
    <3>1. c < o => hi <= o
      BY <1>1
    <3>2. PICK x \in Nat, y \in Nat, z \in Nat : x = c /\ y = hi /\ z = o
      BY <2>2, <1>1, Zenon
    <3>3. z # x /\ (x < z => y <= z)
      BY <3>1, <3>2, Zenon
    <3>4. z < x \/ z >= y
      BY <3>3
    <3> QED
      BY <3>2, <3>4, Zenon
  <2> QED
    BY <2>1, <2>3
<1>10. Free(n)' = (Free(n) \ {c}) \cup {rest}
  <2>1. \A o : o \in Free(n)' <=> o \in Heads(n)' /\ ~csize'[n][o].inuse
    BY DEF Free, Heads
  <2>2. \A o : o \in Free(n) <=> o \in Heads(n) /\ ~csize[n][o].inuse
    BY DEF Free, Heads
  <2> QED
    BY <2>1, <2>2, <1>6, <1>7, <1>8, <1>9
<1>11. \A o \in Free(n) \ {c} : csize'[n][o] = csize[n][o]
  BY <1>9 DEF Free, Heads
<1>12. c \in Heads(n)'
  BY <1>1, <1>6
<1> QED
  BY <1>2, <1>3, <1>4, <1>5, <1>6, <1>7, <1>8, <1>10, <1>11, <1>12 DEF Pretrimmed

\* The rest takes the place of the chunk in its bin.
Relisted(n, c, want, j) ==
  /\ bins[n][j] # <<>> /\ Head(bins[n][j]) = c /\ want < csize[n][c].size
  /\ BinIndex(csize[n][c].size) = j /\ BinIndex(csize[n][c].size - want) = j
  /\ bins' = [bins EXCEPT ![n][j][1] = c + want] /\ binmap' = binmap

\* The bins after pretrim: the rest takes the place of the chunk in its bin.
LEMMA PretrimBins ==
  ASSUME IInv, NEW t \in Threads, Others(t), pc[t] # "link", pc'[t] # "link",
         NEW n \in Nodes, NEW c \in Free(n), NEW hi \in Heads(n), hi = c + csize[n][c].size,
         NEW want \in Nat \ {0}, Pretrimmed(n, c, want, hi),
         NEW j \in Bins, Relisted(n, c, want, j)
  PROVE  /\ Binned(n)'
         /\ bins' \in [Nodes -> [Bins -> Seq(Nat)]] /\ binmap' \in [Nodes -> SUBSET Bins]
         /\ \A m \in Nodes \ {n} : bins'[m] = bins[m] /\ binmap'[m] = binmap[m]
<1>a. /\ bins[n][j] # <<>> /\ Head(bins[n][j]) = c /\ want < csize[n][c].size
      /\ BinIndex(csize[n][c].size) = j /\ BinIndex(csize[n][c].size - want) = j
  BY DEF Relisted
<1>b. binmap' = binmap
  BY DEF Relisted
<1>1. /\ bins \in [Nodes -> [Bins -> Seq(Nat)]] /\ binmap \in [Nodes -> SUBSET Bins]
      /\ bins[n] \in [Bins -> Seq(Nat)]
  BY DEF IInv, Types
<1>2. PICK s \in Seq(Nat) : s = bins[n][j]
  BY <1>1
<1>3. PICK rest \in Nat : rest = c + want
  <2>1. c \in Nat
    BY FreeFacts
  <2> QED
    BY <2>1
<1>4. /\ rest \notin Heads(n) /\ csize'[n][rest].size = csize[n][c].size - want
      /\ Free(n)' = (Free(n) \ {c}) \cup {rest}
      /\ \A o \in Free(n) \ {c} : csize'[n][o] = csize[n][o]
  BY <1>3 DEF Pretrimmed
<1>5. Binned(n)
  BY DEF IInv
<1>6. /\ c \in Nat /\ hi \notin Free(n) /\ csize[n][c].size \in Nat
      /\ \A o \in Free(n) : o \in Heads(n) /\ o + csize[n][o].size \in Heads(n)
      /\ \A o \in Free(n) : BinIndex(csize[n][o].size) \in Bins
  <2>1. c \in Nat /\ hi \notin Free(n) /\ csize[n][c].size \in Nat
    BY FreeFacts
  <2>2. ASSUME NEW o \in Free(n)
        PROVE  /\ o \in Heads(n) /\ o + csize[n][o].size \in Heads(n)
               /\ BinIndex(csize[n][o].size) \in Bins
    BY FreeFacts
  <2> QED
    BY <2>1, <2>2
<1>7. Once(s) /\ s # <<>> /\ Head(s) = c /\ rest \notin Elements(s)
  <2>1. Once(s)
    BY <1>2, <1>5 DEF Binned
  <2>2. \A o \in Elements(s) : o \in Free(n)
    BY <1>2, <1>5 DEF Binned
  <2> QED
    BY <2>1, <2>2, <1>a, <1>2, <1>4, <1>6
<1>8. PICK r : r = [s EXCEPT ![1] = rest]
  OBVIOUS
<1>9. r \in Seq(Nat) /\ Once(r) /\ Elements(r) = (Elements(s) \ {c}) \cup {rest}
  <2>1. r \in Seq(Nat) /\ Once(r) /\ Elements(r) = (Elements(s) \ {Head(s)}) \cup {rest}
    BY <1>2, <1>3, <1>7, <1>8, ReplacedOnce, ZenonT(30)
  <2> QED
    BY <2>1, <1>7
<1>10. PICK b2 : b2 = [bins[n] EXCEPT ![j] = r]
  OBVIOUS
<1>11. bins' = [bins EXCEPT ![n] = b2]
  BY <1>2, <1>3, <1>8, <1>10 DEF Relisted
<1>12. b2 \in [Bins -> Seq(Nat)] /\ b2[j] = r /\ \A i \in Bins \ {j} : b2[i] = bins[n][i]
  BY <1>1, <1>9, <1>10
<1>13. /\ bins' \in [Nodes -> [Bins -> Seq(Nat)]] /\ binmap' \in [Nodes -> SUBSET Bins]
       /\ \A m \in Nodes \ {n} : bins'[m] = bins[m] /\ binmap'[m] = binmap[m]
       /\ bins'[n] = b2 /\ binmap'[n] = binmap[n]
  BY <1>b, <1>1, <1>11, <1>12
<1>14. \A u \in Threads : \A o : Links(u, n, o)' <=> Links(u, n, o)
  BY DEF Others, Links
<1>15. \A u \in Threads : ~Links(u, n, rest)
  BY <1>4 DEF IInv, Grip, Links
<1>16. c \in Elements(s) /\ \A u \in Threads : ~Links(u, n, c)
  <2>1. 1 \in DOMAIN s /\ s[1] = c
    BY <1>2, <1>7
  <2>2. c \in Elements(s)
    BY <2>1 DEF Elements
  <2> QED
    BY <2>2, <1>2, <1>5 DEF Binned
<1>17. Binned(n)'
  <2>1. \A i \in Bins : Once(b2[i])
    BY <1>5, <1>9, <1>12 DEF Binned
  <2>2. \A i \in Bins : \A o \in Elements(b2[i]) :
          /\ o \in Free(n)' /\ BinIndex(csize'[n][o].size) = i
          /\ \A u \in Threads : ~Links(u, n, o)'
    <3>1. ASSUME NEW i \in Bins, NEW o \in Elements(b2[i])
          PROVE  (o = rest /\ i = j) \/ (o \in Elements(bins[n][i]) /\ o # c)
      <4>1. CASE i = j
        BY <4>1, <3>1, <1>2, <1>9, <1>12
      <4>2. CASE i # j
        <5>1. o \in Elements(bins[n][i])
          BY <4>2, <3>1, <1>12
        <5>2. BinIndex(csize[n][o].size) = i
          BY <5>1, <1>5 DEF Binned
        <5> QED
          BY <5>1, <5>2, <4>2, <1>a
      <4> QED
        BY <4>1, <4>2
    <3>2. ASSUME NEW i \in Bins, NEW o \in Elements(b2[i])
          PROVE  /\ o \in Free(n)' /\ BinIndex(csize'[n][o].size) = i
                 /\ \A u \in Threads : ~Links(u, n, o)'
      <4>1. CASE o = rest /\ i = j
        BY <4>1, <1>a, <1>4, <1>14, <1>15
      <4>2. CASE o \in Elements(bins[n][i]) /\ o # c
        <5>1. o \in Free(n) \ {c} /\ BinIndex(csize[n][o].size) = i /\ \A u \in Threads : ~Links(u, n, o)
          BY <4>2, <1>5 DEF Binned
        <5> QED
          BY <5>1, <1>4, <1>14
      <4> QED
        BY <3>1, <3>2, <4>1, <4>2
    <3> QED
      BY <3>2
  <2>3. \A o \in Free(n)' : \/ o \in Elements(b2[BinIndex(csize'[n][o].size)])
                            \/ \E u \in Threads : Links(u, n, o)'
    <3>1. rest \in Elements(b2[j])
      BY <1>9, <1>12
    <3>2. ASSUME NEW o \in Free(n) \ {c}
          PROVE  \/ o \in Elements(b2[BinIndex(csize'[n][o].size)])
                 \/ \E u \in Threads : Links(u, n, o)'
      <4>1. CASE \E u \in Threads : Links(u, n, o)
        BY <4>1, <1>14
      <4>2. CASE ~\E u \in Threads : Links(u, n, o)
        <5>1. PICK i \in Bins : i = BinIndex(csize[n][o].size)
          BY <3>2, <1>6
        <5>2. o \in Elements(bins[n][i])
          BY <5>1, <4>2, <3>2, <1>5 DEF Binned
        <5>3. o \in Elements(b2[i])
          BY <5>1, <5>2, <3>2, <1>2, <1>9, <1>12
        <5>4. csize'[n][o] = csize[n][o]
          BY <3>2, <1>4
        <5> QED
          BY <5>1, <5>3, <5>4
      <4> QED
        BY <4>1, <4>2
    <3> QED
      BY <3>1, <3>2, <1>a, <1>4
  <2>4. \A i \in Bins : i \in binmap[n] <=> \E o \in Free(n)' : BinIndex(csize'[n][o].size) = i
    <3>1. \A i \in Bins : i \in binmap[n] <=> \E o \in Free(n) : BinIndex(csize[n][o].size) = i
      BY <1>5 DEF Binned
    <3>2. ASSUME NEW i \in Bins
          PROVE  (\E o \in Free(n)' : BinIndex(csize'[n][o].size) = i)
                 <=> \E o \in Free(n) : BinIndex(csize[n][o].size) = i
      <4>1. ASSUME NEW o \in Free(n)', BinIndex(csize'[n][o].size) = i
            PROVE  \E e \in Free(n) : BinIndex(csize[n][e].size) = i
        BY <4>1, <1>a, <1>4
      <4>2. ASSUME NEW o \in Free(n), BinIndex(csize[n][o].size) = i
            PROVE  \E e \in Free(n)' : BinIndex(csize'[n][e].size) = i
        BY <4>2, <1>a, <1>4
      <4> QED
        BY <4>1, <4>2
    <3> QED
      BY <3>1, <3>2
  <2>5. \A o \in Free(n)' : o + csize'[n][o].size \notin Free(n)'
    <3>1. rest + csize'[n][rest].size = hi
      BY <1>a, <1>3, <1>4, <1>6
    <3>2. hi \notin Free(n)'
      BY <1>4, <1>6
    <3>3. \A o \in Free(n) \ {c} : o + csize'[n][o].size \notin Free(n) /\ o + csize'[n][o].size # rest
      BY <1>4, <1>5, <1>6 DEF Binned
    <3> QED
      BY <3>1, <3>2, <3>3, <1>4
  <2> QED
    BY <2>1, <2>2, <2>3, <2>4, <2>5, <1>13 DEF Binned
<1> QED
  BY <1>13, <1>17

\* The first chunk of a bin, or the beginning of it, is taken.
LEMMA TakeStep ==
  ASSUME IInv, NEW t \in Threads, Take(t)
  PROVE  IInv'
<1>1. pc[t] = "take" /\ UNCHANGED <<arenas, owner, live, calls>>
  BY ZenonT(30) DEF Take
<1>2. Types /\ loc[t] \in Locals /\ Stage(t)
  BY HeldTypes
<1>3. PICK n \in Nodes : n = loc[t].node
  BY <1>1, <1>2 DEF Stage, Searches
<1>4. PICK j \in Bins : j = loc[t].k
  BY <1>1, <1>2 DEF Stage
<1>5. PICK want \in Nat \ {0} : want = loc[t].want
  <2>1. Searches(t)
    BY <1>1 DEF Searches
  <2> QED
    BY <2>1, SearchFacts
<1>6. want <= MmapThreshold /\ j >= BinIndexUp(want) /\ Unlocked(BinLock(n, j)) /\ loc[t].res = None
  <2>1. Unlocked(BinLock(n, j))
    BY <1>3, <1>4, ZenonT(30) DEF Take
  <2> QED
    BY <2>1, <1>1, <1>2, <1>3, <1>4, <1>5 DEF Stage, Searches
<1>7. CASE bins[n][j] = <<>>
  <2>1. Goto(t, "scan") /\ UNCHANGED <<lists, tags, loc>>
    BY <1>3, <1>4, <1>7, ZenonT(30) DEF Take
  <2>2. Become(t, loc[t])
    BY <2>1, <1>2, Stayed
  <2>3. KeepLocks(t) /\ \A m \in DOMAIN owner' : owner'[m] \in Threads
    BY <1>1, <1>2, LocksUntouched
  <2>4. Searches(t) /\ loc[t].init = FALSE
    <3>1. Searches(t)
      BY <1>1 DEF Searches
    <3> QED
      BY <3>1, <1>1, SearchFacts
  <2> QED
    BY <1>1, <1>2, <1>6, <2>1, <2>2, <2>3, <2>4, SearchStep
<1>8. CASE bins[n][j] # <<>>
  <2>1. PICK s \in Seq(Nat) : s = bins[n][j]
    BY <1>2 DEF Types
  <2>2. PICK c : c = Head(s)
    OBVIOUS
  <2>3. c \in Elements(s)
    <3>1. 1 \in DOMAIN s /\ c = s[1]
      BY <1>8, <2>1, <2>2
    <3> QED
      BY <3>1 DEF Elements
  <2>4. c \in Free(n) /\ BinIndex(csize[n][c].size) = j /\ \A u \in Threads : ~Links(u, n, c)
    BY <2>1, <2>3 DEF IInv, Binned
  <2>5. PICK size \in Nat \ {0} : size = csize[n][c].size
    BY <2>4, FreeFacts
  <2>6. want <= size
    BY <1>6, <2>4, <2>5, LargeEnough
  <2>7. c \in Nat /\ c \in Heads(n) /\ \A e \in Heads(n) : e \in Nat /\ (c < e => c + size <= e)
    BY <2>4, <2>5, FreeFacts, ArenaFacts
  <2>8. PICK hi \in Heads(n) : hi = c + size
    BY <2>4, <2>5, FreeFacts
  <2>9. PICK r : r = [loc[t] EXCEPT !.self = c, !.res = Block(n, c, want)]
    OBVIOUS
  <2>10. Become(t, r) /\ Goto(t, "trim")
    BY <1>3, <1>4, <1>5, <1>8, <2>1, <2>2, <2>9, ZenonT(30) DEF Take
  <2>11. r \in Locals
    BY <1>2, <2>7, <2>9 DEF Locals, Block, Blocks, HeapNames
  <2>12. Others(t) /\ pc[t] # "link" /\ pc'[t] # "link"
    BY <1>1, <1>2, <2>10, <2>11, Moved DEF PCs
  <2>13. CASE CanPretrim(size, want, j)
    <3>1. want < size /\ BinIndex(size - want) = j
      BY <2>13, PretrimSmaller
    <3>2. PICK inuse : inuse = FALSE /\ inuse \in BOOLEAN
      OBVIOUS
    <3>3. /\ Split(n, c, want, inuse) /\ binmap' = binmap
          /\ bins' = [bins EXCEPT ![n][j][1] = c + want]
      BY <1>3, <1>4, <1>5, <1>8, <2>1, <2>2, <2>5, <2>13, <3>2, ZenonT(30) DEF Take
    <3>31. Relisted(n, c, want, j)
      BY <1>8, <2>1, <2>2, <2>4, <2>5, <3>1, <3>3 DEF Relisted
    <3>4. Pretrimmed(n, c, want, hi)
      BY <2>4, <2>5, <2>8, <3>1, <3>2, <3>3, PretrimTags
    <3>5. /\ Binned(n)'
          /\ bins' \in [Nodes -> [Bins -> Seq(Nat)]] /\ binmap' \in [Nodes -> SUBSET Bins]
          /\ \A m \in Nodes \ {n} : bins'[m] = bins[m] /\ binmap'[m] = binmap[m]
      <4>1. hi = c + csize[n][c].size
        BY <2>5, <2>8
      <4> QED
        BY <2>4, <2>12, <3>31, <3>4, <4>1, PretrimBins, ZenonT(60)
    <3>6. /\ Within(n, c, hi) /\ Tiled(csize'[n], psize'[n])
          /\ csize' \in [Nodes -> Tags] /\ psize' \in [Nodes -> Tags]
          /\ c \in Heads(n)' /\ csize'[n][c].inuse /\ csize'[n][c].size = want
          /\ csize'[n][c + want].inuse = FALSE
          /\ \A o \in Heads(n)' : c < o /\ o < hi => o = c + want
      BY <3>4 DEF Pretrimmed
    <3>7. want <= csize'[n][c].size /\ \A o \in Heads(n)' : c < o /\ o < hi => ~csize'[n][o].inuse
      BY <3>6
    <3>8. Taking(t, n, want, c, hi)
      BY <1>1, <1>3, <1>5, <2>4, <2>5, <2>8, <2>9, <2>10, <3>5, <3>6, <3>7 DEF Taking
    <3> QED
      BY <2>4, <3>8, TakeGrab
  <2>14. CASE ~CanPretrim(size, want, j)
    <3>1. Unbin(n, c, j)
      BY <1>3, <1>4, <1>5, <1>8, <2>1, <2>2, <2>5, <2>14, ZenonT(30) DEF Take
    <3>2. hi = c + csize[n][c].size
      BY <2>5, <2>8
    <3>3. Unbound(n, c, hi)
      BY <2>4, <3>1, <3>2, UnbinTags
    <3>4. /\ Binned(n)'
          /\ bins' \in [Nodes -> [Bins -> Seq(Nat)]] /\ binmap' \in [Nodes -> SUBSET Bins]
          /\ \A m \in Nodes \ {n} : bins'[m] = bins[m] /\ binmap'[m] = binmap[m]
      BY <1>6, <2>4, <2>12, <3>1, <3>2, UnbinBins, ZenonT(60)
    <3>5. /\ Within(n, c, hi) /\ Tiled(csize'[n], psize'[n])
          /\ csize' \in [Nodes -> Tags] /\ psize' \in [Nodes -> Tags]
          /\ Heads(n)' = Heads(n) /\ csize'[n][c].inuse /\ csize'[n][c].size = csize[n][c].size
      BY <3>3 DEF Unbound
    <3>6. c \in Heads(n)' /\ want <= csize'[n][c].size
          /\ \A o \in Heads(n)' : c < o /\ o < hi => ~csize'[n][o].inuse
      <4>1. c + size \in Nat /\ \A o \in Heads(n) : ~(c < o /\ o < c + size)
        BY <2>7
      <4>2. \A o \in Heads(n)' : ~(c < o /\ o < hi)
        BY <4>1, <2>8, <3>5
      <4> QED
        BY <2>5, <2>6, <2>7, <3>5, <4>2
    <3>7. Taking(t, n, want, c, hi)
      BY <1>1, <1>3, <1>5, <2>4, <2>9, <2>10, <3>2, <3>4, <3>5, <3>6 DEF Taking
    <3> QED
      BY <2>4, <3>7, TakeGrab
  <2> QED
    BY <2>13, <2>14
<1> QED
  BY <1>7, <1>8

\* alloc_rev and alloc_fwd: the free chunk next to those that a thread holds
\* is added to them.
Absorbs(t, n, c, hi, r) ==
  /\ n = loc[t].node /\ hi = c + csize[n][c].size
  /\ \/ /\ r.self = c /\ hi = loc[t].self /\ r.next = loc[t].next /\ loc[t].then # "grown"
     \/ r.self = loc[t].self /\ c = loc[t].next /\ r.next = hi
  /\ r.size = loc[t].size + csize[n][c].size
  /\ r.want = loc[t].want /\ r.node = loc[t].node /\ r.init = loc[t].init /\ r.then = loc[t].then
  /\ r.old = loc[t].old /\ r.res = loc[t].res

\* A free neighbour is joined to what a thread holds, from either side.
LEMMA AbsorbStep ==
  ASSUME IInv, NEW t \in Threads, pc[t] \in {"revLock", "fwdLock"},
         NEW n \in Nodes, NEW c \in Free(n), NEW hi \in Heads(n), NEW r \in Locals,
         Absorbs(t, n, c, hi, r), NEW i \in Bins, i = BinIndex(csize[n][c].size),
         Unlocked(BinLock(n, i)), Unbin(n, c, i),
         NEW l \in {"fwd", "test", "grown"}, Goto(t, l), Become(t, r),
         l = "test" => loc[t].then # "grown", l = "grown" => loc[t].then = "grown",
         UNCHANGED <<arenas, owner, live, calls>>
  PROVE  IInv'
<1>1. Types /\ Stage(t) /\ Locks(t) /\ Grip(t) /\ calls \in Nat
  BY HeldTypes DEF Types
<1>2. pc[t] \in Holding /\ pc[t] # "trim" /\ l \in Holding /\ l # "trim" /\ l # "publish" /\ l \in PCs
  BY DEF Holding, PCs
<1>3. /\ r.size = loc[t].size + csize[n][c].size
      /\ r.want = loc[t].want /\ r.node = n /\ n = loc[t].node /\ r.init = loc[t].init
      /\ r.then = loc[t].then /\ r.old = loc[t].old /\ r.res = loc[t].res
      /\ hi = c + csize[n][c].size
  BY DEF Absorbs
<1>4. /\ pc' \in [Threads -> PCs] /\ pc'[t] = l
      /\ loc' \in [Threads -> Locals] /\ loc'[t] = r /\ Others(t)
  BY <1>1, <1>2, Moved
<1>5. KeepLocks(t) /\ (\A m \in DOMAIN owner' : owner'[m] \in Threads) /\ \A m : Owns(t, m) => Owns(t, m)'
  BY <1>1, LocksUntouched
<1>6. mapped' = mapped /\ initialized' = initialized /\ live' = live /\ calls' = calls
  BY DEF arenas
<1>7. /\ mapped[n] /\ c \in Heads(n) /\ c \in Nat /\ c # Sentinel
      /\ csize[n][c].size \in Nat \ {0} /\ \A e \in Heads(n) : c < e => hi <= e
  BY <1>3, FreeFacts
<1>8. \A u \in Threads : ~Holds(u, n, c)
  BY FreeFacts
<1>9. Unbound(n, c, hi)
  BY <1>3, UnbinTags
<1>10. /\ Within(n, c, hi) /\ Tiled(csize'[n], psize'[n])
       /\ csize' \in [Nodes -> Tags] /\ psize' \in [Nodes -> Tags]
       /\ Heads(n)' = Heads(n) /\ csize'[n][c].inuse
  BY <1>9 DEF Unbound
<1>11. \A u \in Threads : ~Links(u, n, c)
  BY AllListed
<1>12. /\ Binned(n)'
       /\ bins' \in [Nodes -> [Bins -> Seq(Nat)]] /\ binmap' \in [Nodes -> SUBSET Bins]
       /\ \A m \in Nodes \ {n} : bins'[m] = bins[m] /\ binmap'[m] = binmap[m]
  <2>1. pc[t] # "link" /\ pc'[t] # "link"
    BY <1>2, <1>4 DEF Holding
  <2> QED
    BY <1>3, <1>4, <2>1, UnbinBins, ZenonT(60)
<1>13. /\ loc[t].self \in Heads(n) /\ loc[t].next \in Heads(n) /\ loc[t].self \in Nat /\ loc[t].next \in Nat
       /\ loc[t].self # Sentinel /\ loc[t].self < loc[t].next
       /\ loc[t].next = loc[t].self + loc[t].size /\ loc[t].size \in Nat /\ loc[t].size > 0
       /\ Upto(t) = loc[t].next
  BY <1>1, <1>2, <1>3, HeldFacts, LocFacts
<1>14. /\ r.self \in Heads(n) /\ r.next \in Heads(n) /\ r.self # Sentinel /\ r.self \in Nat /\ r.next \in Nat
       /\ r.size > 0 /\ r.next = r.self + r.size
       /\ loc[t].then = "grown" => r.self = loc[t].self
  <2>a. PICK k \in Nat \ {0} : k = csize[n][c].size
    BY <1>7
  <2>b. PICK size \in Nat \ {0} : size = loc[t].size
    BY <1>13
  <2>c. r.size = size + k /\ hi = c + k
    BY <1>3, <2>a, <2>b
  <2>d. PICK self \in Nat, next \in Nat : self = loc[t].self /\ next = loc[t].next
    BY <1>13
  <2>e. self \in Heads(n) /\ next \in Heads(n) /\ self # Sentinel /\ next = self + size
    BY <1>13, <2>b, <2>d
  <2>f. c \in Nat
    BY <1>7
  <2>1. hi \in Nat /\ r.size > 0
    BY <1>7, <2>c
  <2>2. CASE /\ r.self = c /\ hi = loc[t].self /\ r.next = loc[t].next /\ loc[t].then # "grown"
    <3>1. r.self = c /\ hi = self /\ r.next = next
      BY <2>2, <2>d
    <3>2. next = c + (size + k)
      <4>1. self = c + k
        BY <3>1, <2>c
      <4>2. next = self + size
        BY <2>e
      <4> QED
        BY <4>1, <4>2, <2>f
    <3> QED
      BY <3>1, <3>2, <2>1, <2>2, <2>c, <2>e, <1>7
  <2>3. CASE r.self = loc[t].self /\ c = loc[t].next /\ r.next = hi
    <3>1. r.self = self /\ c = next /\ r.next = hi
      BY <2>3, <2>d
    <3>2. hi = self + (size + k)
      BY <3>1, <2>c, <2>e
    <3> QED
      BY <3>1, <3>2, <2>1, <2>3, <2>c, <2>e, <1>7
  <2> QED
    BY <2>2, <2>3 DEF Absorbs
<1>15. \A o \in Heads(n) : r.self <= o /\ o < r.next <=> (loc[t].self <= o /\ o < loc[t].next) \/ o = c
  <2>1. hi \in Nat /\ c < hi /\ \A o \in Heads(n) : o \in Nat
    <3>1. \A o \in Heads(n) : o \in Nat
      BY ArenaFacts, Zenon
    <3>2. PICK k \in Nat \ {0} : k = csize[n][c].size
      BY <1>7, Zenon
    <3>3. hi = c + k /\ c \in Nat /\ hi \in Nat
      BY <1>3, <1>7, <3>1, <3>2, Zenon
    <3>4. c < hi
      BY <3>3
    <3> QED
      BY <3>1, <3>3, <3>4, Zenon
  <2>2. \A o \in Heads(n) : c <= o /\ o < hi <=> o = c
    <3>1. c \in Nat /\ c \in Heads(n) /\ \A e \in Heads(n) : c < e => hi <= e
      BY <1>7, Zenon
    <3> QED
      BY <2>1, <3>1
  <2>a. PICK self \in Nat, next \in Nat : self = loc[t].self /\ next = loc[t].next /\ self < next
    BY <1>13
  <2>3. CASE /\ r.self = c /\ hi = loc[t].self /\ r.next = loc[t].next
    <3>1. r.self = c /\ hi = self /\ r.next = next
      BY <2>3, <2>a
    <3>2. \A o \in Heads(n) : c <= o /\ o < next <=> (self <= o /\ o < next) \/ o = c
      BY <2>1, <2>2, <2>a, <3>1, <1>7
    <3> QED
      BY <2>a, <3>1, <3>2, Zenon
  <2>4. CASE r.self = loc[t].self /\ c = loc[t].next /\ r.next = hi
    <3>1. r.self = self /\ c = next /\ r.next = hi
      BY <2>4, <2>a
    <3>2. \A o \in Heads(n) : self <= o /\ o < hi <=> (self <= o /\ o < next) \/ o = c
      BY <2>1, <2>2, <2>a, <3>1, <1>7
    <3> QED
      BY <2>a, <3>1, <3>2, Zenon
  <2> QED
    BY <2>3, <2>4 DEF Absorbs
<1>16. \A m \in Nodes : \A o \in Nat : Holds(t, m, o)' <=> Holds(t, m, o) \/ (m = n /\ o = c)
  <2>1. Upto(t)' = r.next /\ pc'[t] \in Holding
    BY <1>2, <1>4 DEF Upto
  <2>2. \A m \in Nodes : \A o \in Nat :
          Holds(t, m, o)' <=> m = n /\ o \in Heads(n) /\ r.self <= o /\ o < r.next
    BY <2>1, <1>3, <1>4, <1>10 DEF Holds
  <2>3. \A m \in Nodes : \A o \in Nat :
          Holds(t, m, o) <=> m = n /\ o \in Heads(n) /\ loc[t].self <= o /\ o < loc[t].next
    BY <1>2, <1>3, <1>13 DEF Holds
  <2> QED
    BY <2>2, <2>3, <1>7, <1>15
<1>17. Grip(t)'
  <2>1. Upto(t)' = r.next
    BY <1>2, <1>4 DEF Upto
  <2>2. \A o \in Heads(n) \ {c} : csize'[n][o] = csize[n][o]
    <3>1. \A o \in Heads(n) : o \in Nat
      BY ArenaFacts
    <3>2. \A o \in Heads(n) \ {c} : o < c \/ o >= hi
      BY <3>1, <1>7
    <3>3. \A o \in Heads(n) : o < c \/ o >= hi => csize'[n][o] = csize[n][o]
      BY <1>10 DEF Within, Same, Heads
    <3> QED
      BY <3>2, <3>3
  <2>3. \A o \in Heads(n) : loc[t].self <= o /\ o < loc[t].next => csize[n][o].inuse
    BY <1>1, <1>2, <1>3, <1>13 DEF Grip
  <2>4. \A o \in Heads(n) : r.self <= o /\ o < r.next => csize'[n][o].inuse
    BY <2>2, <2>3, <1>10, <1>15
  <2>5. mapped'[n]
    BY <1>6, <1>7
  <2> QED
    BY <2>1, <2>4, <2>5, <1>2, <1>3, <1>4, <1>10, <1>14 DEF Grip
<1>18. Stage(t)'
  BY <1>1, <1>2, <1>3, <1>4, <1>14, ZenonT(60) DEF Stage, Searches, Holding
<1>19. Locks(t)'
  BY <1>1, <1>2, <1>3, <1>4, <1>5, <1>6 DEF Locks, Holding
<1>20. Types'
  BY <1>1, <1>4, <1>5, <1>6, <1>10, <1>12 DEF Types
<1>21. Given' = Given /\ Distinct' /\ Private'
  <2>1. BlocksKept(t)
    BY <1>3, <1>4, <1>6 DEF BlocksKept
  <2> QED
    BY <2>1, <1>4, GivenKept
<1>22. Subject(t)' = Subject(t)
  BY <1>2, <1>3, <1>4 DEF Subject
<1>23. /\ \A e \in Given : e \in Given'
       /\ \A e \in Given' : e \notin Given => Placed(e)'
       /\ \A e \in Given : Subject(t) = e => Subject(t)' = e
       /\ pc[t] # "link" /\ pc'[t] # "link"
  BY <1>2, <1>4, <1>21, <1>22 DEF Holding
<1>24. \A o \in Heads(n)' : c < o /\ o < hi => ~csize'[n][o].inuse
  <2>1. hi \in Nat /\ \A o \in Heads(n) : o \in Nat
    BY ArenaFacts
  <2> QED
    BY <2>1, <1>7, <1>10
<1> QED
  BY <1>3, <1>4, <1>5, <1>6, <1>10, <1>11, <1>12, <1>16, <1>17, <1>18, <1>19, <1>20, <1>21, <1>23, <1>24,
     GrabStep, ZenonT(60)

\* alloc_rev with the lock of the bin.
LEMMA RevLockStep ==
  ASSUME IInv, NEW t \in Threads, RevLock(t)
  PROVE  IInv'
<1>1. pc[t] = "revLock" /\ UNCHANGED <<arenas, owner, live, calls>>
  BY DEF RevLock
<1>2. /\ Types /\ loc[t] \in Locals /\ Stage(t) /\ Locks(t) /\ Grip(t) /\ loc[t].then # "grown"
      /\ pc[t] \in Works /\ pc[t] \in Holding
  BY <1>1, HeldTypes DEF Works, Holding
<1>3. PICK n \in Nodes : n = loc[t].node
  BY <1>2, HeldFacts
<1>4. PICK k \in Nat : k = loc[t].k
  BY <1>2, LocFacts
<1>5. PICK self \in Heads(n) : self = loc[t].self
  BY <1>2, <1>3, HeldFacts
<1>6. CASE psize[n][self] # Word(k, FALSE)
  <2>1. Goto(t, "rev") /\ UNCHANGED <<lists, tags, loc>>
    BY <1>3, <1>4, <1>5, <1>6 DEF RevLock
  <2>2. Become(t, loc[t])
    BY <2>1, <1>2, Stayed
  <2>3. KeepLocks(t) /\ (\A m \in DOMAIN owner' : owner'[m] \in Threads) /\ \A m : Owns(t, m) => Owns(t, m)'
    BY <1>1, <1>2, LocksUntouched
  <2>4. "rev" \in Works
    BY DEF Works, Holding
  <2> QED
    BY <1>1, <1>2, <2>1, <2>2, <2>3, <2>4, HeldStep
<1>7. CASE psize[n][self] = Word(k, FALSE)
  <2>1. psize[n][self].size = k /\ psize[n][self].inuse = FALSE
    BY <1>7, WordFacts
  <2>2. mapped[n] /\ self \in Nat
    BY ChunkFacts
  <2>3. self # 0
    BY <2>1, <2>2, EndFacts
  <2>4. PICK c \in Heads(n) : c = self - k
    BY <2>1, <2>3, ChunkFacts
  <2>5. csize[n][c] = psize[n][self]
    BY <2>1, <2>3, <2>4, ChunkFacts
  <2>6. c \in Free(n) /\ csize[n][c].size = k
    BY <2>1, <2>4, <2>5 DEF Free, Heads
  <2>7. c \in Nat /\ self = c + k
    BY <2>2, <2>4, ArenaFacts
  <2>8. PICK i \in Bins : i = BinIndex(csize[n][c].size)
    BY <2>6, FreeFacts
  <2>13. PICK size \in Nat : size = loc[t].size + k
    BY <1>2, LocFacts
  <2>9. PICK r : r = [loc[t] EXCEPT !.self = c, !.size = size]
    OBVIOUS
  <2>10. /\ Unlocked(BinLock(n, i)) /\ Unbin(n, c, i) /\ Become(t, r) /\ Goto(t, "fwd")
    BY <1>3, <1>4, <1>5, <1>7, <2>4, <2>6, <2>8, <2>9, <2>13 DEF RevLock
  <2>11. /\ r \in Locals /\ r.self = c /\ r.size = loc[t].size + k /\ r.next = loc[t].next
         /\ r.want = loc[t].want /\ r.node = loc[t].node /\ r.init = loc[t].init
         /\ r.then = loc[t].then /\ r.old = loc[t].old /\ r.res = loc[t].res
    BY <1>2, <2>7, <2>9, <2>13 DEF Locals
  <2>12. Absorbs(t, n, c, self, r)
    BY <1>2, <1>3, <1>5, <2>6, <2>7, <2>11 DEF Absorbs
  <2> QED
    BY <1>1, <1>2, <2>6, <2>8, <2>10, <2>11, <2>12, AbsorbStep
<1> QED
  BY <1>6, <1>7

\* alloc_fwd with the lock of the bin.
LEMMA FwdLockStep ==
  ASSUME IInv, NEW t \in Threads, FwdLock(t)
  PROVE  IInv'
<1>1. pc[t] = "fwdLock" /\ UNCHANGED <<arenas, owner, live, calls>>
  BY DEF FwdLock
<1>2. /\ Types /\ loc[t] \in Locals /\ Stage(t) /\ Locks(t) /\ Grip(t)
      /\ pc[t] \in Works /\ pc[t] \in Holding
  BY <1>1, HeldTypes DEF Works, Holding
<1>3. PICK n \in Nodes : n = loc[t].node
  BY <1>2, HeldFacts
<1>4. PICK k \in Nat : k = loc[t].k
  BY <1>2, LocFacts
<1>5. PICK c \in Heads(n) : c = loc[t].next
  BY <1>1, <1>2, <1>3, HeldFacts
<1>6. CASE csize[n][c] # Word(k, FALSE)
  <2>1. Goto(t, "fwd") /\ UNCHANGED <<lists, tags, loc>>
    BY <1>3, <1>4, <1>5, <1>6 DEF FwdLock
  <2>2. Become(t, loc[t])
    BY <2>1, <1>2, Stayed
  <2>3. KeepLocks(t) /\ (\A m \in DOMAIN owner' : owner'[m] \in Threads) /\ \A m : Owns(t, m) => Owns(t, m)'
    BY <1>1, <1>2, LocksUntouched
  <2>4. "fwd" \in Works
    BY DEF Works, Holding
  <2> QED
    BY <1>1, <1>2, <2>1, <2>2, <2>3, <2>4, HeldStep
<1>7. CASE csize[n][c] = Word(k, FALSE)
  <2>1. csize[n][c].size = k /\ csize[n][c].inuse = FALSE
    BY <1>7, WordFacts
  <2>2. c \in Free(n)
    BY <2>1 DEF Free, Heads
  <2>3. PICK hi \in Heads(n) : hi = c + k
    BY <2>1, <2>2, FreeFacts
  <2>4. hi \in Nat
    BY ArenaFacts
  <2>5. PICK i \in Bins : i = BinIndex(csize[n][c].size)
    BY <2>2, FreeFacts
  <2>11. PICK size \in Nat : size = loc[t].size + k
    BY <1>2, LocFacts
  <2>6. PICK r : r = [loc[t] EXCEPT !.next = hi, !.size = size]
    OBVIOUS
  <2>7. /\ Unlocked(BinLock(n, i)) /\ Unbin(n, c, i) /\ Become(t, r) /\ FwdDone(t)
    BY <1>3, <1>4, <1>5, <1>7, <2>1, <2>3, <2>5, <2>6, <2>11 DEF FwdLock
  <2>8. PICK l \in {"test", "grown"} : /\ Goto(t, l)
                                       /\ l = "test" => loc[t].then # "grown"
                                       /\ l = "grown" => loc[t].then = "grown"
    BY <2>7 DEF FwdDone
  <2>9. /\ r \in Locals /\ r.self = loc[t].self /\ r.size = loc[t].size + k /\ r.next = hi
        /\ r.want = loc[t].want /\ r.node = loc[t].node /\ r.init = loc[t].init
        /\ r.then = loc[t].then /\ r.old = loc[t].old /\ r.res = loc[t].res
    BY <1>2, <2>3, <2>4, <2>6, <2>11 DEF Locals
  <2>10. Absorbs(t, n, c, hi, r)
    BY <1>2, <1>3, <1>5, <2>1, <2>3, <2>9 DEF Absorbs
  <2> QED
    <3>1. pc[t] \in {"revLock", "fwdLock"} /\ l \in {"fwd", "test", "grown"}
      BY <1>1
    <3> QED
      BY <1>1, <2>2, <2>5, <2>7, <2>8, <2>9, <2>10, <3>1, AbsorbStep, ZenonT(60)
<1> QED
  BY <1>6, <1>7

\* The locks of a node are different.
LEMMA LockNames ==
  ASSUME NEW n, NEW i, NEW m
  PROVE  FreeLock(n) # BinLock(m, i) /\ InitLock(n) # BinLock(m, i) /\ FreeLock(n) # InitLock(m)
  BY DEF FreeLock, BinLock, InitLock

\* Publish: with both locks the chunks a thread holds become a free chunk
\* between two used ones.
LEMMA PublishStep ==
  ASSUME IInv, NEW t \in Threads, Publish(t)
  PROVE  IInv'
<1>1. pc[t] = "publish" /\ pc[t] \in Works /\ pc[t] \in Holding
      /\ UNCHANGED <<arenas, bins, live, calls>>
  BY DEF Publish, Works, Holding
<1>2. Types /\ loc[t] \in Locals /\ loc[t].then # "grown"
      /\ Stage(t) /\ Locks(t) /\ Grip(t)
  BY <1>1, HeldTypes
<1>3. PICK n \in Nodes : n = loc[t].node
  BY <1>1, HeldFacts
<1>4. PICK lo \in Heads(n) : lo = loc[t].self
  BY <1>1, <1>3, HeldFacts
<1>5. PICK hi \in Heads(n) : hi = Upto(t)
  BY <1>1, <1>3, HeldFacts
<1>6. PICK size \in Nat : size = loc[t].size
  BY <1>2 DEF Locals
<1>7. PICK inuse : inuse = FALSE /\ inuse \in BOOLEAN
  OBVIOUS
<1>8. PICK i : i = BinIndex(size)
  OBVIOUS
<1>9. /\ Label(n, lo, size, inuse) /\ Goto(t, "link") /\ Unlock({FreeLock(n)})
      /\ binmap' = [binmap EXCEPT ![n] = @ \cup {i}] /\ UNCHANGED loc
  BY <1>3, <1>4, <1>6, <1>7, <1>8 DEF Publish
<1>10. Joined(t, n, lo, hi, size, inuse)
  BY <1>1, <1>3, <1>4, <1>5, <1>6, <1>7, <1>9, HeldLabel
<1>11. mapped[n] /\ lo \in Nat /\ lo # Sentinel /\ hi \in Nat
       /\ size \in Nat \ {0} /\ lo < hi /\ hi = lo + size /\ hi = loc[t].next
  BY <1>10 DEF Joined
<1>12. Within(n, lo, hi) /\ Tiled(csize'[n], psize'[n])
       /\ csize' \in [Nodes -> Tags] /\ psize' \in [Nodes -> Tags]
  BY <1>10 DEF Joined
<1>13. /\ csize'[n][lo] = Word(size, inuse) /\ csize'[n][lo].inuse = FALSE /\ csize'[n][lo].size = size
       /\ lo \in Heads(n)' /\ hi \in Heads(n)'
       /\ \A c \in Heads(n)' : lo <= c /\ c < hi => c = lo
  BY <1>7, <1>10 DEF Joined
<1>14. /\ pc' \in [Threads -> PCs] /\ pc'[t] = "link"
       /\ loc' \in [Threads -> Locals] /\ loc'[t] = loc[t] /\ Others(t)
  <2>1. Become(t, loc[t])
    BY <1>2, <1>9, Stayed
  <2> QED
    BY <2>1, <1>2, <1>9, Moved DEF PCs
<1>15. i \in Bins
  BY <1>8, <1>11, BinOf
<1>16. Owns(t, FreeLock(n)) /\ Owns(t, BinLock(n, i))
  BY <1>1, <1>2, <1>3, <1>6, <1>8 DEF Locks
<1>17. KeepLocks(t) /\ (\A m \in DOMAIN owner' : owner'[m] \in Threads)
       /\ \A m : m # FreeLock(n) /\ Owns(t, m) => Owns(t, m)'
  <2>1. PICK L : L = {FreeLock(n)}
    OBVIOUS
  <2>2. Unlock(L) /\ \A m \in L : Owns(t, m)
    BY <2>1, <1>9, <1>16
  <2> QED
    BY <2>1, <2>2, <1>2, Released
<1>18. mapped' = mapped /\ initialized' = initialized /\ live' = live /\ bins' = bins /\ calls' = calls
  BY <1>1 DEF arenas
<1>19. psize[n][lo].inuse /\ csize[n][hi].inuse
  BY <1>1, <1>2, <1>3, <1>4, <1>11 DEF Grip, Between
<1>20. \A c \in Heads(n) : lo <= c /\ c < hi => csize[n][c].inuse
  BY <1>1, <1>2, <1>3, <1>4, <1>5 DEF Grip
<1>21. \A m \in Nodes : \A c \in Nat : Holds(t, m, c) <=> m = n /\ c \in Heads(n) /\ lo <= c /\ c < hi
  BY <1>1, <1>3, <1>4, <1>5 DEF Holds
<1>22. \A m \in Nodes : \A c \in Heads(m) : c \in Nat
  BY ArenaFacts
<1>23. OthersKept(t)
  <2>1. ASSUME NEW u \in Threads \ {t}, NEW c \in Heads(n), lo <= c, c < hi
        PROVE  ~Holds(u, n, c) /\ ~Links(u, n, c)
    <3>1. Holds(t, n, c) /\ csize[n][c].inuse
      BY <2>1, <1>20, <1>21, <1>22
    <3>2. ~Holds(u, n, c)
      BY <2>1, <3>1 DEF IInv, Apart
    <3>3. ASSUME Links(u, n, c) PROVE FALSE
      <4>1. csize[n][c] = Word(loc[u].size, FALSE) /\ loc[u].size \in Nat
        BY <3>3, <1>2, LocFacts DEF IInv, Grip, Links
      <4> QED
        BY <4>1, <3>1, WordFacts
    <3> QED
      BY <3>2, <3>3
  <2>2. ASSUME NEW u \in Threads \ {t}, pc[u] = "publish" PROVE loc[u].node # n
    <3>1. Owns(u, FreeLock(loc[u].node))
      BY <2>2 DEF IInv, Locks
    <3> QED
      BY <3>1, <1>16 DEF Owns
  <2> QED
    BY <2>1, <2>2, <1>11, <1>12, <1>14, <1>18, OthersGrip
<1>24. /\ \A o \in Heads(n)' : o # lo => o \in Heads(n) /\ csize'[n][o] = csize[n][o] /\ (o < lo \/ o >= hi)
       /\ \A o \in Heads(n) : o < lo \/ o >= hi => o \in Heads(n)' /\ csize'[n][o] = csize[n][o] /\ o # lo
       /\ \A m \in Nodes \ {n} : csize'[m] = csize[m] /\ psize'[m] = psize[m] /\ Heads(m)' = Heads(m)
                                 /\ Free(m)' = Free(m)
  <2>1. /\ \A o \in Nat : o <= lo \/ o >= hi => (o \in Heads(n)' <=> o \in Heads(n))
        /\ \A o \in Heads(n) : o < lo \/ o >= hi => csize'[n][o] = csize[n][o]
        /\ \A m \in Nodes \ {n} : csize'[m] = csize[m] /\ psize'[m] = psize[m] /\ Heads(m)' = Heads(m)
                                  /\ Free(m)' = Free(m)
    BY <1>12 DEF Within, Same, Heads, Free
  <2>2. \A o \in Heads(n)' : o \in Nat
    BY <1>12, TagsFacts DEF Within, Heads
  <2>3. \A o \in Heads(n)' : o # lo => o < lo \/ o >= hi
    <3>1. \A o \in Heads(n)' : lo <= o /\ o < hi => o = lo
      BY <1>13
    <3> QED
      BY <2>2, <3>1, <1>11
  <2> QED
    BY <2>1, <2>2, <2>3, <1>11, <1>22
<1>25. lo \notin Free(n) /\ hi \notin Free(n) /\ \A o \in Free(n) : o < lo \/ o >= hi
  <2>1. lo \notin Free(n) /\ hi \notin Free(n)
    BY <1>11, <1>19, <1>20 DEF Free
  <2>2. \A o \in Free(n) : ~(lo <= o /\ o < hi)
    BY <1>20 DEF Free, Heads
  <2>3. \A o \in Free(n) : o \in Nat
    BY <1>22 DEF Free, Heads
  <2> QED
    BY <2>1, <2>2, <2>3, <1>11
<1>26. Free(n)' = Free(n) \cup {lo} /\ \A o \in Free(n) : csize'[n][o] = csize[n][o]
  <2>1. \A o : o \in Free(n)' <=> o \in Heads(n)' /\ ~csize'[n][o].inuse
    BY DEF Free, Heads
  <2>2. \A o : o \in Free(n) <=> o \in Heads(n) /\ ~csize[n][o].inuse
    BY DEF Free, Heads
  <2> QED
    BY <2>1, <2>2, <1>13, <1>24, <1>25
<1>27. /\ \A u \in Threads : \A m \in Nodes : \A o \in Nat :
            Links(u, m, o)' <=> Links(u, m, o) \/ (u = t /\ m = n /\ o = lo)
       /\ \A m \in Nodes : \A o \in Nat : ~Links(t, m, o) /\ ~Holds(t, m, o)'
  <2>1. \A m \in Nodes : \A o \in Nat :
          (Links(t, m, o)' <=> m = n /\ o = lo) /\ ~Links(t, m, o) /\ ~Holds(t, m, o)'
    BY <1>1, <1>3, <1>4, <1>14 DEF Links, Holds, Holding
  <2> QED
    BY <2>1, <1>23 DEF OthersKept
<1>28. /\ binmap' \in [Nodes -> SUBSET Bins] /\ binmap'[n] = binmap[n] \cup {i}
       /\ \A m \in Nodes \ {n} : binmap'[m] = binmap[m]
  BY <1>2, <1>9, <1>15 DEF Types
<1>29. Binned(n)'
  <2>1. Binned(n)
    BY DEF IInv
  <2>2. \A o \in Free(n) : o \in Nat /\ o + csize[n][o].size \in Heads(n)
                           /\ psize[n][o + csize[n][o].size] = csize[n][o] /\ csize[n][o].inuse = FALSE
    BY FreeFacts
  <2>3. \A j \in Bins : Once(bins'[n][j])
    BY <2>1, <1>18 DEF Binned
  <2>4. \A j \in Bins : \A o \in Elements(bins'[n][j]) :
          /\ o \in Free(n)' /\ BinIndex(csize'[n][o].size) = j
          /\ \A u \in Threads : ~Links(u, n, o)'
    <3>1. \A j \in Bins : \A o \in Elements(bins'[n][j]) :
            /\ o \in Free(n) /\ BinIndex(csize[n][o].size) = j
            /\ \A u \in Threads : ~Links(u, n, o)
      BY <2>1, <1>18 DEF Binned
    <3> QED
      BY <3>1, <2>2, <1>25, <1>26, <1>27
  <2>5. \A o \in Free(n)' : \/ o \in Elements(bins'[n][BinIndex(csize'[n][o].size)])
                            \/ \E u \in Threads : Links(u, n, o)'
    <3>1. Links(t, n, lo)'
      BY <1>11, <1>27
    <3>2. \A o \in Free(n) : \/ o \in Elements(bins'[n][BinIndex(csize'[n][o].size)])
                             \/ \E u \in Threads : Links(u, n, o)'
      BY <2>1, <2>2, <1>18, <1>26, <1>27 DEF Binned
    <3> QED
      BY <3>1, <3>2, <1>26
  <2>6. \A j \in Bins : j \in binmap'[n] <=> \E o \in Free(n)' : BinIndex(csize'[n][o].size) = j
    <3>1. \A j \in Bins : j \in binmap[n] <=> \E o \in Free(n) : BinIndex(csize[n][o].size) = j
      BY <2>1 DEF Binned
    <3> QED
      BY <3>1, <1>8, <1>13, <1>26, <1>28
  <2>7. \A o \in Free(n)' : o + csize'[n][o].size \notin Free(n)'
    <3>1. lo + csize'[n][lo].size = hi /\ hi # lo
      BY <1>11, <1>13
    <3>2. \A o \in Free(n) : o + csize[n][o].size \notin Free(n) /\ o + csize[n][o].size # lo
      BY <2>1, <2>2, <1>19 DEF Binned
    <3> QED
      BY <3>1, <3>2, <1>25, <1>26
  <2> QED
    BY <2>3, <2>4, <2>5, <2>6, <2>7 DEF Binned
<1>30. ASSUME NEW m \in Nodes PROVE Binned(m)'
  <2>1. CASE m = n
    BY <2>1, <1>29
  <2>2. CASE m # n
    <3>1. /\ bins'[m] = bins[m] /\ binmap'[m] = binmap[m] /\ Free(m)' = Free(m)
          /\ \A c \in Free(m) : csize'[m][c] = csize[m][c]
      BY <2>2, <1>18, <1>24, <1>28
    <3>2. \A u \in Threads : \A c \in Nat : Links(u, m, c)' <=> Links(u, m, c)
      BY <2>2, <1>27
    <3> QED
      BY <3>1, <3>2, BinnedSame
  <2> QED
    BY <2>1, <2>2
<1>31. \A m \in Nodes : Arena(m)'
  <2>1. ASSUME NEW m \in Nodes PROVE Arena(m)'
    <3>1. CASE m = n
      BY <3>1, <1>11, <1>12, <1>18 DEF Arena
    <3>2. CASE m # n
      <4>1. /\ csize'[m] = csize[m] /\ psize'[m] = psize[m] /\ bins'[m] = bins[m] /\ binmap'[m] = binmap[m]
            /\ mapped'[m] = mapped[m] /\ initialized'[m] = initialized[m] /\ Heads(m)' = Heads(m)
        BY <3>2, <1>18, <1>24, <1>28
      <4> QED
        BY <4>1 DEF IInv, Arena
    <3> QED
      BY <3>1, <3>2
  <2> QED
    BY <2>1
<1>32. Given' = Given /\ Distinct' /\ Private'
  <2>1. BlocksKept(t)
    BY <1>14, <1>18 DEF BlocksKept
  <2> QED
    BY <2>1, <1>14, GivenKept
<1>33. Subject(t) = None /\ Subject(t)' = None
  BY <1>1, <1>2, <1>14 DEF Subject
<1>34. ASSUME NEW m \in Nodes PROVE Covered(m)'
  <2>1. SUFFICES ASSUME NEW o \in Heads(m)', o # Sentinel, csize'[m][o].inuse PROVE Taken(m, o)'
    BY DEF Covered
  <2>2. o \in Heads(m) /\ csize[m][o].inuse /\ ~(m = n /\ lo <= o /\ o < hi)
    BY <2>1, <1>11, <1>13, <1>22, <1>24
  <2>3. Taken(m, o) /\ o \in Nat
    <3>1. Covered(m)
      BY DEF IInv
    <3> QED
      BY <2>1, <2>2, <3>1, <1>22 DEF Covered
  <2>4. ~Holds(t, m, o)
    BY <2>2, <2>3, <1>21
  <2> QED
    BY <2>3, <2>4, <1>23, <1>32 DEF Taken, OthersKept
<1>35. Apart'
  <2>1. \A m \in Nodes : \A c \in Heads(m)' : c \in Nat
    BY <1>11, <1>22, <1>24
  <2>2. \A m \in Nodes : \A c \in Nat :
          Holds(t, m, c)' => Holds(t, m, c) \/ \A u \in Threads \ {t} : ~Holds(u, m, c)
    BY <1>27
  <2> QED
    BY <2>1, <2>2, <1>23, ApartKept
<1>36. ASSUME NEW e \in Given PROVE Placed(e)'
  <2>1. Placed(e) /\ e.at \in Nat /\ e # None
    BY GivenFacts
  <2>2. e.heap \in Nodes => ~Holds(t, e.heap, e.at) /\ e.at \in Heads(e.heap)
    BY <2>1, <1>33 DEF Placed
  <2>3. e.heap \in Nodes => e.at \in Heads(e.heap)' /\ csize'[e.heap][e.at] = csize[e.heap][e.at]
    <3>1. ASSUME e.heap = n PROVE e.at \in Heads(n)' /\ csize'[n][e.at] = csize[n][e.at]
      <4>1. e.at < lo \/ e.at >= hi
        BY <3>1, <2>1, <2>2, <1>11, <1>21
      <4> QED
        BY <3>1, <4>1, <2>2, <1>24
    <3> QED
      BY <3>1, <2>2, <1>24
  <2>4. e.heap \in Nodes => ~Holds(t, e.heap, e.at)'
    BY <2>1, <1>27
  <2>5. Subject(t) # e /\ \A m \in Nodes : mapped[m] => mapped'[m]
    BY <2>1, <1>18, <1>33
  <2> QED
    BY <2>3, <2>4, <2>5, <1>14, <1>23, PlacedKept
<1>37. Types'
  BY <1>2, <1>12, <1>14, <1>17, <1>18, <1>28, <1>32 DEF Types
<1>38. Stage(t)'
  BY <1>1, <1>2, <1>14 DEF Stage, Searches
<1>39. Locks(t)'
  <2>1. Owns(t, BinLock(n, i))'
    BY <1>16, <1>17, LockNames
  <2>2. loc[t].init => Owns(t, InitLock(n))' /\ mapped[n]
    <3>1. InitLock(n) # FreeLock(n)
      BY LockNames
    <3>2. loc[t].init => Owns(t, InitLock(n)) /\ mapped[n]
      BY <1>1, <1>2, <1>3 DEF Locks
    <3> QED
      BY <3>1, <3>2, <1>17
  <2> QED
    BY <2>1, <2>2, <1>3, <1>6, <1>8, <1>14, <1>18 DEF Locks
<1>40. Grip(t)'
  BY <1>3, <1>4, <1>6, <1>7, <1>11, <1>13, <1>14, <1>18 DEF Grip, Holding
<1>41. \A m \in Nodes : mapped[m] => mapped'[m]
  BY <1>18
<1> QED
  BY <1>14, <1>17, <1>23, <1>30, <1>31, <1>32, <1>34, <1>35, <1>36, <1>37, <1>38, <1>39, <1>40, <1>41,
     Assemble, ZenonT(60)

\* Link: the chunk that was published is appended to its bin.
LEMMA LinkBins ==
  ASSUME IInv, NEW t \in Threads, NEW n \in Nodes, NEW c \in Nat, Links(t, n, c),
         NEW i \in Bins, i = BinIndex(loc[t].size), bins' = [bins EXCEPT ![n][i] = Append(@, c)],
         binmap' = binmap, csize' = csize,
         Others(t), pc'[t] # "link"
  PROVE  /\ Binned(n)' /\ bins' \in [Nodes -> [Bins -> Seq(Nat)]]
         /\ \A m \in Nodes \ {n} : bins'[m] = bins[m]
<1>1. /\ bins \in [Nodes -> [Bins -> Seq(Nat)]] /\ bins[n] \in [Bins -> Seq(Nat)] /\ Binned(n)
  BY DEF IInv, Types
<1>2. PICK s \in Seq(Nat) : s = bins[n][i]
  BY <1>1
<1>3. pc[t] = "link" /\ loc[t].node = n /\ loc[t].self = c
  BY DEF Links
<1>4. csize[n][c] = Word(loc[t].size, FALSE) /\ c \in Heads(n) /\ loc[t].size \in Nat
  BY <1>3, LocFacts DEF IInv, Grip
<1>5. c \in Free(n) /\ BinIndex(csize[n][c].size) = i
  BY <1>4, WordFacts DEF Free, Heads
<1>6. \A j \in Bins : c \notin Elements(bins[n][j])
  BY <1>1 DEF Binned
<1>7. PICK r : r = Append(s, c)
  OBVIOUS
<1>8. r \in Seq(Nat) /\ Once(r) /\ Elements(r) = Elements(s) \cup {c}
  <2>1. Once(s) /\ c \notin Elements(s)
    BY <1>1, <1>2, <1>6 DEF Binned
  <2> QED
    BY <2>1, <1>2, <1>7, AppendedOnce
<1>9. PICK b2 : b2 = [bins[n] EXCEPT ![i] = r]
  OBVIOUS
<1>10. bins' = [bins EXCEPT ![n] = b2]
  BY <1>2, <1>7, <1>9
<1>11. b2 \in [Bins -> Seq(Nat)] /\ b2[i] = r /\ \A j \in Bins \ {i} : b2[j] = bins[n][j]
  BY <1>1, <1>8, <1>9
<1>12. /\ bins' \in [Nodes -> [Bins -> Seq(Nat)]] /\ bins'[n] = b2
       /\ \A m \in Nodes \ {n} : bins'[m] = bins[m]
  BY <1>1, <1>10, <1>11
<1>13. Free(n)' = Free(n) /\ csize'[n] = csize[n]
  BY DEF Free
<1>14. \A o \in Free(n) : o \in Nat /\ BinIndex(csize[n][o].size) \in Bins
  BY FreeFacts
<1>15. Binned(n)'
  <2>1. \A j \in Bins : Once(b2[j])
    BY <1>1, <1>8, <1>11 DEF Binned
  <2>2. \A j \in Bins : \A o \in Elements(b2[j]) :
          (o = c /\ j = i) \/ o \in Elements(bins[n][j])
    BY <1>2, <1>8, <1>11
  <2>3. \A u \in Threads : \A o : Links(u, n, o)' <=> u # t /\ Links(u, n, o)
    BY DEF Others, Links
  <2>4. \A u \in Threads : ~Links(u, n, c)'
    <3>1. ASSUME NEW u \in Threads, Links(u, n, c), u # t PROVE FALSE
      <4>1. pc[u] = "link" /\ loc[u].node = n /\ loc[u].self = c
        BY <3>1 DEF Links
      <4>2. csize[n][c] = Word(loc[u].size, FALSE) /\ loc[u].size \in Nat
        BY <4>1, LocFacts DEF IInv, Grip
      <4>3. loc[u].size = csize[n][c].size
        BY <4>2, WordFacts
      <4>4. Owns(u, BinLock(n, i))
        BY <4>1, <4>3, <1>5 DEF IInv, Locks
      <4>5. Owns(t, BinLock(n, i))
        BY <1>3 DEF IInv, Locks
      <4> QED
        BY <4>4, <4>5, <3>1 DEF Owns
    <3> QED
      BY <3>1, <2>3
  <2>5. \A j \in Bins : \A o \in Elements(bins[n][j]) :
          o \in Free(n) /\ BinIndex(csize[n][o].size) = j /\ \A u \in Threads : ~Links(u, n, o)
    BY <1>1 DEF Binned
  <2>6. \A j \in Bins : \A o \in Elements(b2[j]) :
          o \in Free(n) /\ BinIndex(csize[n][o].size) = j /\ \A u \in Threads : ~Links(u, n, o)'
    <3>1. ASSUME NEW j \in Bins, NEW o \in Elements(b2[j]), o = c, j = i
          PROVE  o \in Free(n) /\ BinIndex(csize[n][o].size) = j /\ \A u \in Threads : ~Links(u, n, o)'
      BY <3>1, <2>4, <1>5
    <3>2. ASSUME NEW j \in Bins, NEW o \in Elements(bins[n][j])
          PROVE  o \in Free(n) /\ BinIndex(csize[n][o].size) = j /\ \A u \in Threads : ~Links(u, n, o)'
      BY <3>2, <2>3, <2>5
    <3> QED
      BY <3>1, <3>2, <2>2
  <2>7. ASSUME NEW o \in Free(n)
        PROVE  \/ o \in Elements(b2[BinIndex(csize[n][o].size)])
               \/ \E u \in Threads : Links(u, n, o)'
    <3>1. PICK j \in Bins : j = BinIndex(csize[n][o].size)
      BY <1>14
    <3>2. CASE o = c
      BY <3>1, <3>2, <1>5, <1>8, <1>11
    <3>3. CASE o # c
      <4>1. CASE o \in Elements(bins[n][j])
        <5>1. o \in Elements(b2[j])
          BY <4>1, <1>2, <1>8, <1>11
        <5> QED
          BY <5>1, <3>1
      <4>2. CASE \E u \in Threads : Links(u, n, o)
        <5>1. PICK u \in Threads : Links(u, n, o)
          BY <4>2
        <5>2. u # t
          BY <5>1, <3>3, <1>3 DEF Links
        <5> QED
          BY <5>1, <5>2, <2>3
      <4> QED
        BY <4>1, <4>2, <3>1, <1>1 DEF Binned
    <3> QED
      BY <3>2, <3>3
  <2>8. \A j \in Bins : j \in binmap[n] <=> \E o \in Free(n) : BinIndex(csize[n][o].size) = j
    BY <1>1 DEF Binned
  <2>9. \A o \in Free(n) : o + csize[n][o].size \notin Free(n)
    BY <1>1 DEF Binned
  <2>10. \A j \in Bins : Once(bins'[n][j])
    BY <2>1, <1>12
  <2>11. \A j \in Bins : \A o \in Elements(bins'[n][j]) :
           o \in Free(n)' /\ BinIndex(csize'[n][o].size) = j /\ \A u \in Threads : ~Links(u, n, o)'
    <3>1. \A j \in Bins : Elements(bins'[n][j]) = Elements(b2[j])
      BY <1>12
    <3> QED
      BY <2>6, <3>1, <1>13
  <2>12. \A o \in Free(n)' : \/ o \in Elements(bins'[n][BinIndex(csize'[n][o].size)])
                             \/ \E u \in Threads : Links(u, n, o)'
    BY <2>7, <1>12, <1>13
  <2>13. \A j \in Bins : j \in binmap'[n] <=> \E o \in Free(n)' : BinIndex(csize'[n][o].size) = j
    BY <2>8, <1>13
  <2>14. \A o \in Free(n)' : o + csize'[n][o].size \notin Free(n)'
    BY <2>9, <1>13
  <2> QED
    BY <2>10, <2>11, <2>12, <2>13, <2>14 DEF Binned
<1> QED
  BY <1>12, <1>15

\* The chunk is linked into its bin.
LEMMA LinkStep ==
  ASSUME IInv, NEW t \in Threads, Link(t)
  PROVE  IInv'
<1>1. pc[t] = "link" /\ Resume(t) /\ UNCHANGED <<arenas, binmap, tags, live, calls>>
  BY DEF Link
<1>2. Types /\ loc[t] \in Locals /\ Stage(t) /\ Locks(t) /\ Grip(t) /\ calls \in Nat
      /\ loc[t].then \in {"idle", "served", "shrunk"}
  <2>1. Types /\ loc[t] \in Locals /\ Stage(t) /\ Locks(t) /\ Grip(t) /\ loc[t].then # "grown"
    BY <1>1, HeldTypes
  <2> QED
    BY <2>1, LocFacts DEF Types
<1>3. PICK n \in Nodes : n = loc[t].node
  BY <1>1, <1>2 DEF Grip
<1>4. PICK c \in Nat : c = loc[t].self
  BY <1>2, LocFacts
<1>5. Links(t, n, c) /\ mapped[n]
  BY <1>1, <1>2, <1>3, <1>4 DEF Links, Grip
<1>6. PICK i : i = BinIndex(loc[t].size)
  OBVIOUS
<1>7. i \in Bins /\ Owns(t, BinLock(n, i))
  <2>1. csize[n][c] = Word(loc[t].size, FALSE) /\ c \in Heads(n) /\ loc[t].size \in Nat
    BY <1>1, <1>2, <1>3, <1>4, LocFacts DEF Grip
  <2>2. c \in Free(n) /\ csize[n][c].size = loc[t].size
    BY <2>1, WordFacts DEF Free, Heads
  <2>3. i \in Bins
    BY <2>2, <1>6, FreeFacts
  <2> QED
    BY <2>3, <1>1, <1>2, <1>3, <1>6 DEF Locks
<1>8. Unlock({BinLock(n, i)}) /\ bins' = [bins EXCEPT ![n][i] = Append(@, c)]
  BY <1>3, <1>4, <1>6 DEF Link
<1>9. PICK r : r = IF loc[t].then = "idle" THEN Idle ELSE loc[t]
  OBVIOUS
<1>10. r \in Locals /\ Goto(t, loc[t].then) /\ Become(t, r) /\ loc[t].then \in PCs
  BY <1>1, <1>2, <1>9, IdleType DEF Resume, PCs
<1>11. /\ pc' \in [Threads -> PCs] /\ pc'[t] = loc[t].then
       /\ loc' \in [Threads -> Locals] /\ loc'[t] = r /\ Others(t)
  BY <1>2, <1>10, Moved
<1>12. KeepLocks(t) /\ (\A m \in DOMAIN owner' : owner'[m] \in Threads)
       /\ \A m : m # BinLock(n, i) /\ Owns(t, m) => Owns(t, m)'
  <2>1. PICK L : L = {BinLock(n, i)}
    OBVIOUS
  <2>2. Unlock(L) /\ \A m \in L : Owns(t, m)
    BY <2>1, <1>7, <1>8
  <2> QED
    BY <2>1, <2>2, <1>2, Released
<1>13. mapped' = mapped /\ initialized' = initialized /\ live' = live /\ binmap' = binmap
       /\ csize' = csize /\ psize' = psize /\ calls' = calls
  BY <1>1 DEF arenas, tags
<1>14. OthersKept(t)
  BY <1>11, <1>13, OthersUntouched
<1>15. pc'[t] \notin Holding \cup {"link"} /\ pc[t] \notin Holding
  BY <1>1, <1>2, <1>11 DEF Holding
<1>16. Binned(n)' /\ bins' \in [Nodes -> [Bins -> Seq(Nat)]] /\ \A m \in Nodes \ {n} : bins'[m] = bins[m]
  <2>1. pc'[t] # "link"
    BY <1>15
  <2> QED
    BY <2>1, <1>5, <1>6, <1>7, <1>8, <1>11, <1>13, LinkBins
<1>17. ASSUME NEW m \in Nodes PROVE Binned(m)'
  <2>1. CASE m = n
    BY <2>1, <1>16
  <2>2. CASE m # n
    <3>1. /\ bins'[m] = bins[m] /\ binmap'[m] = binmap[m] /\ Free(m)' = Free(m)
          /\ \A o \in Free(m) : csize'[m][o] = csize[m][o]
      BY <2>2, <1>13, <1>16 DEF Free
    <3>2. \A u \in Threads : \A o \in Nat : Links(u, m, o)' <=> Links(u, m, o)
      <4>1. \A o \in Nat : ~Links(t, m, o) /\ ~Links(t, m, o)'
        BY <2>2, <1>3, <1>15 DEF Links
      <4> QED
        BY <4>1, <1>14 DEF OthersKept
    <3> QED
      BY <3>1, <3>2, BinnedSame
  <2> QED
    BY <2>1, <2>2
<1>18. \A m \in Nodes : Arena(m)'
  <2>1. \A m \in Nodes : mapped[m] => Tiled(csize[m], psize[m])
    BY DEF IInv, Arena
  <2>2. Tiled(csize'[n], psize'[n])
    BY <2>1, <1>5, <1>13
  <2>3. \A m \in Nodes \ {n} : csize'[m] = csize[m] /\ psize'[m] = psize[m]
                                /\ bins'[m] = bins[m] /\ binmap'[m] = binmap[m]
    BY <1>13, <1>16
  <2> QED
    BY <2>2, <2>3, <1>5, <1>13, ArenaKept
<1>19. \A m \in Nodes : \A o \in Nat : ~Holds(t, m, o) /\ ~Holds(t, m, o)'
  BY <1>15 DEF Holds
<1>20. Given' = Given /\ Distinct' /\ Private'
  <2>1. CASE loc[t].then = "idle"
    <3>1. BlocksKept(t)
      BY <2>1, <1>1, <1>2, <1>9, <1>11, <1>13, IdleType DEF BlocksKept, Pending, Stage
    <3> QED
      BY <3>1, <1>11, GivenKept
  <2>2. CASE loc[t].then # "idle"
    <3>1. BlocksKept(t)
      BY <2>2, <1>9, <1>11, <1>13 DEF BlocksKept
    <3> QED
      BY <3>1, <1>11, GivenKept
  <2> QED
    BY <2>1, <2>2
<1>21. Subject(t) = None /\ Subject(t)' = None
  <2>1. loc'[t].then # "grown"
    BY <1>2, <1>9, <1>11, IdleType
  <2> QED
    BY <2>1, <1>1, <1>2, <1>15 DEF Subject, Holding
<1>22. ASSUME NEW m \in Nodes PROVE Covered(m)'
  <2>1. \A o \in Heads(m) : o \in Nat
    BY ArenaFacts
  <2>2. \A o \in Heads(m) : Taken(m, o) => Taken(m, o)'
    BY <2>1, <1>14, <1>19, <1>20 DEF Taken, OthersKept
  <2> QED
    BY <2>2, <1>13 DEF IInv, Covered, Heads
<1>23. Apart'
  <2>1. \A m \in Nodes : \A o \in Heads(m)' : o \in Nat
    BY <1>13, ArenaFacts DEF Heads
  <2> QED
    BY <2>1, <1>14, <1>19, ApartKept
<1>24. ASSUME NEW e \in Given PROVE Placed(e)'
  <2>1. Placed(e) /\ e.at \in Nat /\ e # None
    BY GivenFacts
  <2>2. e.heap \in Nodes => e.at \in Heads(e.heap)' /\ csize'[e.heap][e.at] = csize[e.heap][e.at]
    BY <2>1, <1>13 DEF Placed, Heads
  <2>3. e.heap \in Nodes => ~Holds(t, e.heap, e.at)'
    BY <2>1, <1>19
  <2>4. Subject(t) # e /\ \A m \in Nodes : mapped[m] => mapped'[m]
    BY <2>1, <1>13, <1>21
  <2> QED
    BY <2>2, <2>3, <2>4, <1>11, <1>14, PlacedKept
<1>25. Types'
  BY <1>2, <1>11, <1>12, <1>13, <1>16, <1>20 DEF Types
<1>26. Stage(t)'
  <2>1. CASE loc[t].then = "idle"
    BY <2>1, <1>9, <1>11, IdleType DEF Stage, Searches
  <2>2. CASE loc[t].then # "idle"
    BY <2>2, <1>1, <1>2, <1>3, <1>9, <1>11 DEF Stage, Searches
  <2> QED
    BY <2>1, <2>2
<1>27. Locks(t)'
  <2>1. CASE loc[t].then = "idle"
    BY <2>1, <1>9, <1>11, IdleType DEF Locks
  <2>2. CASE loc[t].then # "idle"
    <3>1. loc[t].init => Owns(t, InitLock(n))' /\ mapped[n]
      <4>1. InitLock(n) # BinLock(n, i)
        BY LockNames
      <4>2. loc[t].init => Owns(t, InitLock(n)) /\ mapped[n]
        BY <1>1, <1>2, <1>3 DEF Locks
      <4> QED
        BY <4>1, <4>2, <1>12
    <3> QED
      BY <2>2, <3>1, <1>2, <1>3, <1>9, <1>11, <1>13 DEF Locks
  <2> QED
    BY <2>1, <2>2
<1>28. Grip(t)'
  BY <1>15 DEF Grip, Holding
<1>29. \A m \in Nodes : mapped[m] => mapped'[m]
  BY <1>13
<1> QED
  BY <1>11, <1>12, <1>14, <1>17, <1>18, <1>20, <1>22, <1>23, <1>24, <1>25, <1>26, <1>27, <1>28, <1>29,
     Assemble, ZenonT(60)

-----------------------------------------------------------------------------
(* The invariant                                                           *)

\* Without arenas and calls there is nothing to be wrong.
LEMMA InitIInv == Init => IInv
<1> SUFFICES ASSUME Init PROVE IInv
  OBVIOUS
<1>1. \A t \in Threads : pc[t] = "idle" /\ loc[t] = Idle
  BY DEF Init
<1>2. \A n \in Nodes : /\ mapped[n] = FALSE /\ initialized[n] = FALSE /\ binmap[n] = {}
                       /\ csize[n] = <<>> /\ psize[n] = <<>> /\ \A i \in Bins : bins[n][i] = <<>>
  BY DEF Init
<1>3. owner = <<>> /\ live = {} /\ calls = 0
  BY DEF Init
<1>4. DOMAIN <<>> = {} /\ <<>> \in Seq(Nat) /\ <<>> = [x \in {} |-> x]
  OBVIOUS
<1>5. <<>> \in Tags
  <2>1. {} \in SUBSET (0 .. Sentinel)
    OBVIOUS
  <2>2. [x \in {} |-> x] \in [{} -> Words]
    OBVIOUS
  <2> QED
    BY <2>1, <2>2, <1>4, TagsIntro
<1>6. Types
  <2>1. /\ mapped \in [Nodes -> BOOLEAN] /\ initialized \in [Nodes -> BOOLEAN]
        /\ binmap \in [Nodes -> SUBSET Bins] /\ bins \in [Nodes -> [Bins -> Seq(Nat)]]
        /\ csize \in [Nodes -> Tags] /\ psize \in [Nodes -> Tags]
    BY <1>4, <1>5 DEF Init
  <2>2. pc \in [Threads -> PCs] /\ loc \in [Threads -> Locals]
    BY IdleType DEF Init, PCs
  <2>3. \A l \in DOMAIN owner : owner[l] \in Threads
    BY <1>3, <1>4
  <2> QED
    BY <2>1, <2>2, <2>3, <1>3 DEF Types
<1>7. \A n \in Nodes : Heads(n) = {} /\ DOMAIN psize[n] = {} /\ Free(n) = {}
  BY <1>2, <1>4 DEF Heads, Free
<1>8. \A n \in Nodes : Arena(n) /\ Covered(n)
  BY <1>2, <1>7 DEF Arena, Covered
<1>9. \A n \in Nodes : Binned(n)
  <2>1. \A n \in Nodes : \A i \in Bins : Once(bins[n][i]) /\ Elements(bins[n][i]) = {}
    BY <1>2, <1>4 DEF Once, Elements
  <2> QED
    BY <2>1, <1>2, <1>7 DEF Binned
<1>10. ASSUME NEW t \in Threads PROVE Stage(t) /\ Locks(t) /\ Grip(t)
  BY <1>1, IdleType DEF Stage, Searches, Locks, Grip, Holding
<1>11. \A t \in Threads : \A n, c : ~Holds(t, n, c)
  BY <1>1 DEF Holds, Holding
<1>12. \A t \in Threads : ~Pending(t)
  BY <1>1, IdleType DEF Pending
<1>13. Given = {}
  BY <1>3, <1>12 DEF Given
<1>14. Private
  BY <1>1, <1>12, IdleType DEF Private
<1> QED
  BY <1>6, <1>8, <1>9, <1>10, <1>11, <1>13, <1>14 DEF IInv, Apart, Distinct

\* Every step preserves the invariant: one lemma for each.
LEMMA NextIInv == IInv /\ [Next]_vars => IInv'
<1>1. ASSUME IInv, UNCHANGED vars PROVE IInv'
  <2>1. /\ mapped' = mapped /\ initialized' = initialized /\ binmap' = binmap /\ bins' = bins
        /\ csize' = csize /\ psize' = psize /\ owner' = owner /\ live' = live /\ pc' = pc
        /\ loc' = loc /\ calls' = calls
    BY <1>1 DEF vars, arenas, lists, tags
  <2>2. Types' /\ Distinct' /\ Private'
    BY <1>1, <2>1 DEF IInv, Types, Distinct, Private, Given, Pending
  <2>3. \A n \in Nodes : Arena(n)' /\ Covered(n)' /\ Binned(n)'
    <3> SUFFICES ASSUME NEW n \in Nodes PROVE Arena(n)' /\ Covered(n)' /\ Binned(n)'
      OBVIOUS
    <3>1. Arena(n) /\ Covered(n) /\ Binned(n)
      BY <1>1 DEF IInv
    <3>2. Heads(n)' = Heads(n) /\ Free(n)' = Free(n) /\ Given' = Given
      BY <2>1 DEF Heads, Free, Given, Pending
    <3>3. Arena(n)'
      BY <3>1, <3>2, <2>1, Zenon DEF Arena
    <3>4. \A c : Taken(n, c)' <=> Taken(n, c)
      BY <3>2, <2>1, Zenon DEF Taken, Holds, Upto
    <3>5. Covered(n)'
      BY <3>1, <3>2, <3>4, <2>1, Zenon DEF Covered
    <3>6. \A t, c : Links(t, n, c)' <=> Links(t, n, c)
      BY <2>1, Zenon DEF Links
    <3>7. Binned(n)'
      <4>1. bins' = bins /\ binmap' = binmap /\ csize' = csize
        BY <2>1
      <4>2. Binned(n)
        BY <3>1
      <4>3. \A t \in Threads : \A c : Links(t, n, c)' <=> Links(t, n, c)
        BY <3>6
      <4> QED
        BY <3>2, <4>1, <4>2, <4>3 DEF Binned
    <3> QED
      BY <3>3, <3>5, <3>7
  <2>4. \A t \in Threads : Stage(t)' /\ Locks(t)' /\ Grip(t)'
    <3> SUFFICES ASSUME NEW t \in Threads PROVE Stage(t)' /\ Locks(t)' /\ Grip(t)'
      OBVIOUS
    <3>1. Stage(t) /\ Locks(t) /\ Grip(t)
      BY <1>1 DEF IInv
    <3>2. Stage(t)'
      BY <3>1, <2>1 DEF Stage, Searches
    <3>4. Locks(t)'
      BY <3>1, <2>1 DEF Locks, Owns
    <3>5. Grip(t)'
      BY <3>1, <2>1 DEF Grip, Heads, Upto, Between
    <3> QED
      BY <3>2, <3>4, <3>5
  <2>5. Apart' /\ \A b \in Given' : Placed(b)'
    BY <1>1, <2>1 DEF IInv, Apart, Heads, Holds, Upto, Given, Pending, Placed, Subject
  <2> QED
    BY <2>2, <2>3, <2>4, <2>5 DEF IInv
<1>2. ASSUME IInv, NEW t \in Threads, MallocCall(t) \/ FreeCall(t) \/ ReallocCall(t) PROVE IInv'
  BY <1>2, MallocStep, FreeStep, ReallocStep
<1>3. ASSUME IInv, NEW t \in Threads, Step(t) PROVE IInv'
  <2>1. OtherHeap(t) \/ Scan(t) \/ LockInit(t) \/ MapArena(t) \/ ExpandFails(t) => IInv'
    BY <1>3, OtherHeapStep, ScanStep, LockInitStep, MapStep, ExpandFailsStep
  <2>2. Take(t) \/ Trim(t) \/ Test(t) \/ LockBin(t) \/ LockFree(t) \/ Publish(t) \/ Link(t) => IInv'
    BY <1>3, TakeStep, TrimStep, TestStep, LockBinStep, LockFreeStep, PublishStep, LinkStep
  <2>3. Rev(t) \/ RevLock(t) \/ Fwd(t) \/ FwdLock(t) \/ Remap(t) \/ Grown(t) \/ Served(t) => IInv'
    BY <1>3, RevStep, RevLockStep, FwdStep, FwdLockStep, RemapStep, GrownStep, ServedStep
  <2> QED
    BY <1>3, <2>1, <2>2, <2>3 DEF Step
<1> QED
  BY <1>1, <1>2, <1>3 DEF Next, Finished

\* Everything the invariant says is true of every execution of any number of
\* threads on any number of nodes.
THEOREM InvariantHolds == Spec => []IInv
<1> QED
  BY InitIInv, NextIInv, PTL DEF Spec

-----------------------------------------------------------------------------
(* What it says                                                            *)

\* The type invariant.
LEMMA IInvTypes == IInv => TypeOK
<1> SUFFICES ASSUME IInv PROVE TypeOK
  OBVIOUS
<1>1. Types
  BY DEF IInv
<1>2. ASSUME NEW n \in Nodes PROVE DOMAIN csize[n] = DOMAIN psize[n] /\ DOMAIN csize[n] \subseteq 0 .. ArenaUnits
  <2>1. CASE mapped[n]
    <3>1. csize[n] \in Tags /\ psize[n] \in Tags /\ Tiled(csize[n], psize[n])
      BY <2>1, ArenaFacts
    <3>2. DOMAIN csize[n] \subseteq 0 .. Sentinel /\ DOMAIN psize[n] = DOMAIN csize[n]
      BY <3>1, TiledFacts
    <3>3. 0 .. Sentinel \subseteq 0 .. ArenaUnits
      BY Sizes DEF Sentinel
    <3> QED
      BY <3>2, <3>3
  <2>2. CASE ~mapped[n]
    BY <2>2 DEF IInv, Arena, Heads
  <2> QED
    BY <2>1, <2>2
<1> QED
  BY <1>1, <1>2 DEF Types, TypeOK

\* Types; headers and footers are at the same places of an arena, and no thread
\* ever finds a wrong footer and stops the program.
THEOREM TypeCorrect == Spec => []TypeOK
<1> QED
  BY InvariantHolds, IInvTypes, PTL

\* Free chunks and bins.
LEMMA IInvBins == IInv => BinsSound
<1> SUFFICES ASSUME IInv PROVE BinsSound
  OBVIOUS
<1>1. Coalesced
  BY DEF Coalesced, IInv, Binned
<1>2. ASSUME NEW n \in Nodes, NEW i \in Bins, NEW listed, listed = {bins[n][i][p] : p \in DOMAIN bins[n][i]},
             NEW free, free = {c \in Free(n) : BinIndex(csize[n][c].size) = i}
      PROVE  /\ Cardinality(listed) = Len(bins[n][i])
             /\ listed \subseteq free
             /\ \A c \in free \ listed : Linking(n, i, c)
             /\ i \in binmap[n] <=> free # {}
  <2>1. PICK s \in Seq(Nat) : s = bins[n][i]
    BY DEF IInv, Types
  <2>2. listed = Elements(s)
    BY <1>2, <2>1 DEF Elements
  <2>3. Binned(n)
    BY DEF IInv
  <2>4. Cardinality(listed) = Len(bins[n][i])
    <3>1. Once(s)
      BY <2>1, <2>3 DEF Binned
    <3> QED
      BY <3>1, <2>1, <2>2, ListedCount
  <2>5. listed \subseteq free
    BY <1>2, <2>1, <2>2, <2>3 DEF Binned
  <2>6. ASSUME NEW c \in free \ listed PROVE Linking(n, i, c)
    <3>1. c \in Free(n) /\ BinIndex(csize[n][c].size) = i /\ c \notin Elements(bins[n][i])
      BY <1>2, <2>1, <2>2
    <3>2. PICK t \in Threads : Links(t, n, c)
      BY <3>1, <2>3 DEF Binned
    <3>3. pc[t] = "link" /\ loc[t].node = n /\ loc[t].self = c
      BY <3>2 DEF Links
    <3>4. csize[n][c] = Word(loc[t].size, FALSE) /\ loc[t].size \in Nat
      BY <3>3, LocFacts DEF IInv, Grip
    <3>5. BinIndex(loc[t].size) = i
      BY <3>1, <3>4, WordFacts
    <3> QED
      BY <3>3, <3>5 DEF Linking
  <2>7. i \in binmap[n] <=> free # {}
    BY <1>2, <2>3 DEF Binned
  <2> QED
    BY <2>4, <2>5, <2>6, <2>7
<1>3. FreeListed
  BY <1>2 DEF FreeListed
<1> QED
  BY <1>1, <1>3 DEF BinsSound

\* The bins hold the free chunks, each once and in the bin of its size, the map
\* of bins says which are not empty, and no two free chunks are neighbours.
THEOREM BinsAlwaysSound == Spec => []BinsSound
<1> QED
  BY InvariantHolds, IInvBins, PTL

\* Used chunks between calls have blocks.
LEMMA IInvLost == IInv => NothingLost
<1> SUFFICES ASSUME IInv, \A t \in Threads : pc[t] = "idle",
                    NEW n \in Nodes, NEW c \in DOMAIN csize[n] \ (Free(n) \cup {ArenaUnits - 1})
             PROVE  Block(n, c, csize[n][c].size) \in live
  BY DEF NothingLost
<1>1. \A t \in Threads : loc[t] = Idle /\ \A m, o : ~Holds(t, m, o)
  BY DEF IInv, Stage, Holds, Holding
<1>2. \A t \in Threads : ~Pending(t) /\ Subject(t) = None
  BY <1>1, IdleType DEF Pending, Subject
<1>3. Given = live
  BY <1>2 DEF Given
<1>4. c \in Heads(n) /\ c # Sentinel /\ csize[n][c].inuse
  BY DEF Heads, Free, Sentinel
<1>5. Taken(n, c)
  BY <1>4 DEF IInv, Covered
<1>6. PICK b \in Given : b.heap = n /\ b.at = c
  BY <1>1, <1>5 DEF Taken
<1>7. b \in Blocks /\ b # None /\ b.at \in Nat
  BY GivenFacts
<1>8. csize[n][c].size = b.size
  BY <1>2, <1>6, <1>7, QuietBlock
<1>9. Block(n, c, csize[n][c].size) = b
  BY <1>6, <1>7, <1>8 DEF Block, Blocks
<1> QED
  BY <1>3, <1>9

\* When no call is running, every used chunk is the chunk of a block that the
\* program has, as large as the block.
THEOREM NothingIsLost == Spec => []NothingLost
<1> QED
  BY InvariantHolds, IInvLost, PTL

-----------------------------------------------------------------------------
(* What the callers are promised                                           *)

\* Two blocks that were given out do not overlap.
Separated == \A a, b \in Given : a # b => ~Heaps!Overlap(a, b)

\* Blocks are at chunks, and chunks lie side by side.
LEMMA IInvSeparated == IInv => Separated
<1> SUFFICES ASSUME IInv, NEW a \in Given, NEW b \in Given, a # b PROVE ~Heaps!Overlap(a, b)
  BY DEF Separated
<1>1. /\ Placed(a) /\ a.at \in Nat /\ a.size \in Nat \ {0}
      /\ Placed(b) /\ b.at \in Nat /\ b.size \in Nat \ {0}
  BY GivenFacts
<1>2. CASE a.heap # b.heap
  BY <1>2 DEF Heaps!Overlap
<1>3. CASE a.heap = b.heap
  <2>1. a.at # b.at
    BY <1>3 DEF IInv, Distinct
  <2>2. CASE a.heap \notin Nodes
    <3>1. a.size = 1 /\ b.size = 1
      BY <1>1, <1>3, <2>2 DEF Placed
    <3> QED
      BY <1>1, <2>1, <3>1 DEF Heaps!Overlap
  <2>3. CASE a.heap \in Nodes
    <3>1. PICK n \in Nodes : n = a.heap
      BY <2>3
    <3>2. /\ a.at \in Heads(n) /\ a.size <= csize[n][a.at].size
          /\ b.at \in Heads(n) /\ b.size <= csize[n][b.at].size
      BY <1>1, <1>3, <3>1 DEF Placed
    <3>3. /\ csize[n][a.at].size \in Nat /\ (a.at < b.at => a.at + csize[n][a.at].size <= b.at)
          /\ csize[n][b.at].size \in Nat /\ (b.at < a.at => b.at + csize[n][b.at].size <= a.at)
      BY <3>2, ChunkFacts
    <3> QED
      BY <1>1, <2>1, <3>2, <3>3 DEF Heaps!Overlap
  <2> QED
    BY <2>2, <2>3
<1> QED
  BY <1>2, <1>3

\* A new block, or one that takes the place of an old one, is apart from the
\* blocks that stay.
LEMMA ServedHeaps ==
  ASSUME IInv, NEW t \in Threads, Served(t)
  PROVE  [Heaps!Next]_live
<1>1. CASE loc[t].res = None
  <2>1. live' = live
    BY <1>1 DEF Served
  <2> QED
    BY <2>1
<1>2. CASE loc[t].res # None
  <2>1. loc[t].then = pc[t] /\ pc[t] \in {"served", "shrunk"}
    BY DEF Served, IInv, Stage
  <2>2. Pending(t)
    BY <1>2, <2>1 DEF Pending
  <2>3. PICK c \in Given : c = loc[t].res
    BY <2>2 DEF Given
  <2>4. c \notin live /\ c.size > 0
    BY <2>2, <2>3, GivenFacts DEF IInv, Private
  <2>5. \A o \in live : ~Heaps!Overlap(c, o)
    BY <2>3, <2>4, IInvSeparated DEF Separated, Given
  <2>6. CASE loc[t].old = None
    <3>1. live' = live \cup {c}
      BY <1>2, <2>3, <2>6 DEF Served
    <3>2. Heaps!Allocate
      BY <2>4, <2>5, <3>1 DEF Heaps!Allocate, Heaps!Fits
    <3> QED
      BY <3>2 DEF Heaps!Next
  <2>7. CASE loc[t].old # None
    <3>1. PICK b \in live : b = loc[t].old
      BY <2>7, CallBlocks
    <3>2. live' = (live \ {b}) \cup {c}
      BY <1>2, <2>3, <2>7, <3>1 DEF Served
    <3>3. Heaps!Resize
      BY <2>4, <2>5, <3>2 DEF Heaps!Resize, Heaps!Fits
    <3> QED
      BY <3>3 DEF Heaps!Next
  <2> QED
    BY <2>6, <2>7
<1> QED
  BY <1>1, <1>2

\* A block that has grown ends before the next one.
LEMMA GrownHeaps ==
  ASSUME IInv, IInv', Separated', NEW t \in Threads, Grown(t)
  PROVE  [Heaps!Next]_live
<1>1. pc[t] = "grown"
  BY DEF Grown
<1>2. PICK a \in live : a = loc[t].old
  BY <1>1, GrownFacts
<1>3. PICK b : b = [loc[t].old EXCEPT !.size = IF loc[t].want <= loc[t].size THEN loc[t].want ELSE loc[t].size]
  OBVIOUS
<1>4. live' = (live \ {a}) \cup {b}
  BY <1>2, <1>3 DEF Grown
<1>5. a \in Blocks /\ b.heap = a.heap /\ b.at = a.at
  BY <1>1, <1>2, <1>3, GrownFacts DEF Blocks
<1>6. b \in live' /\ b.size > 0
  <2>1. b \in live' /\ live' \in SUBSET Blocks
    BY <1>4 DEF IInv, Types
  <2> QED
    BY <2>1 DEF Blocks
<1>7. \A o \in live \ {a} : o # b /\ o \in live'
  BY <1>2, <1>4, <1>5 DEF IInv, Distinct, Given
<1>8. \A o \in live \ {a} : ~Heaps!Overlap(b, o)
  <2>1. live' \subseteq Given'
    BY DEF Given
  <2> QED
    BY <1>6, <1>7, <2>1 DEF Separated
<1>9. Heaps!Resize
  BY <1>4, <1>6, <1>8 DEF Heaps!Resize, Heaps!Fits
<1> QED
  BY <1>9 DEF Heaps!Next

\* Every step is one that the callers are promised, or none.
LEMMA NextHeaps == IInv /\ IInv' /\ Separated' /\ [Next]_vars => [Heaps!Next]_live
<1>1. ASSUME UNCHANGED vars PROVE live' = live
  BY <1>1 DEF vars
<1>2. ASSUME NEW t \in Threads, MallocCall(t) \/ ReallocCall(t) PROVE live' = live
  <2>1. MallocCall(t) => live' = live
    BY DEF MallocCall
  <2>2. ReallocCall(t) => live' = live
    BY Zenon DEF ReallocCall
  <2> QED
    BY <1>2, <2>1, <2>2
<1>3. ASSUME NEW t \in Threads, FreeCall(t) PROVE Heaps!Next
  <2>1. \E b \in live : live' = live \ {b}
    BY <1>3 DEF FreeCall, Passable
  <2> QED
    BY <2>1 DEF Heaps!Next, Heaps!Release
<1>4. ASSUME IInv, IInv', Separated', NEW t \in Threads, Step(t) PROVE [Heaps!Next]_live
  <2>1. Served(t) \/ Grown(t) => [Heaps!Next]_live
    BY <1>4, ServedHeaps, GrownHeaps
  <2>2. OtherHeap(t) \/ Scan(t) \/ LockInit(t) \/ MapArena(t) \/ ExpandFails(t) => live' = live
    BY DEF OtherHeap, Scan, LockInit, MapArena, ExpandFails
  <2>3. Take(t) \/ Trim(t) => live' = live
    BY Zenon DEF Take, Trim
  <2>4. Test(t) \/ LockBin(t) \/ LockFree(t) \/ Publish(t) \/ Link(t) => live' = live
    BY DEF Test, LockBin, LockFree, Publish, Link
  <2>5. Rev(t) \/ RevLock(t) \/ Fwd(t) \/ FwdLock(t) \/ Remap(t) => live' = live
    BY DEF Rev, RevLock, Fwd, FwdLock, Remap
  <2> QED
    BY <1>4, <2>1, <2>2, <2>3, <2>4, <2>5 DEF Step
<1> QED
  BY <1>1, <1>2, <1>3, <1>4 DEF Next, Finished

\* Whoever allocates, frees, grows and moves blocks at the same time, a block is
\* given out, or takes the place of another, only where no block in use is.
THEOREM Refinement == Spec => ImplementsHeaps
<1>1. Init => Heaps!Init
  BY DEF Init, Heaps!Init
<1> QED
  BY <1>1, NextHeaps, IInvSeparated, InvariantHolds, PTL DEF Spec, ImplementsHeaps, Heaps!Spec
=============================================================================
