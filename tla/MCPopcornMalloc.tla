-------------------------- MODULE MCPopcornMalloc --------------------------
(***************************************************************************)
(* Two threads, one node, four calls.  The arena is one chunk of the       *)
(* largest bin; requests take it in parts that stay in that bin, that      *)
(* leave it, or more than a mapping of its own begins at.                  *)
(***************************************************************************)
EXTENDS PopcornMalloc

CONSTANTS t0, t1, n0, n1

\* Bytes: one unit, more than half of the arena, and a mapping.
FewSizes == {16, 32 * 4000, 32 * 7170}
=============================================================================
