---------------------------- MODULE MCMigration ----------------------------
(***************************************************************************)
(* Two threads and five nodes: two of one instruction set, one of another, *)
(* one there is no metadata for, and one that is not online.               *)
(***************************************************************************)
EXTENDS Migration

Archs == <<"x86_64", "aarch64", "x86_64", "powerpc64", "aarch64">>
NodeArch == [n \in 0 .. 4 |-> Archs[n + 1]]
SameArch == {p \in (0 .. 4) \X (0 .. 4) : NodeArch[p[1]] = NodeArch[p[2]]}
AnyPair == (0 .. 4) \X (0 .. 4)
Zero == [a \in {"aarch64", "x86_64", "powerpc64"} |-> {0}]
AnyValue == [Zero EXCEPT !["x86_64"] = {-1, 0}]
SomeNids == {-1, 0, 1, 2, 3, 4}
Tids == [t0 |-> 0, t1 |-> 2]
Schedule == [r \in {1} |-> <<1, 0>>]
=============================================================================
