---------------------------- MODULE NodeHeaps ----------------------------
(***************************************************************************)
(* What popcorn_malloc.c promises its callers: blocks that are in use do   *)
(* not overlap, whichever node's arena or other heap they come from, and   *)
(* only their owner's calls give them up, shrink or move them.             *)
(***************************************************************************)
EXTENDS Integers, FiniteSets

VARIABLE live     \* the blocks in use: records of heap, at and size

Overlap(a, b) ==
  /\ a.heap = b.heap
  /\ a.at < b.at + b.size /\ b.at < a.at + a.size

Init == live = {}

\* A block that does not overlap those that stay.
Fits(b, others) == b.size > 0 /\ \A o \in others : ~Overlap(b, o)

Allocate == \E b \in live' : b \notin live /\ Fits(b, live) /\ live' = live \cup {b}

Release == \E b \in live : live' = live \ {b}

\* In place or by moving to another block, also on another heap.
Resize ==
  \E b \in live, c \in live' :
    Fits(c, live \ {b}) /\ live' = (live \ {b}) \cup {c}

Next == Allocate \/ Release \/ Resize

Spec == Init /\ [][Next]_live
=============================================================================
