--------------------------- MODULE PrefetchQueue ---------------------------
(***************************************************************************)
(* What lib/dsm-prefetch promises for one node.  Pages are requested for   *)
(* writing, for reading or for release.  An execution takes everything     *)
(* requested so far, each page for the strongest of the accesses requested *)
(* for it, and advises the kernel of all of it before it ends and the next *)
(* one begins.  Meanwhile new requests are collected for that one.         *)
(***************************************************************************)
CONSTANT Pages

Kinds == {"write", "read", "release"}

\* A page wanted for writing is not read ahead as well, a page wanted at all
\* is not given up.
Stronger(k) ==
  CASE k = "write"   -> {}
    [] k = "read"    -> {"write"}
    [] k = "release" -> {"write", "read"}

VARIABLES
  pending,   \* pages requested since they were last taken, by kind
  batch,     \* pages taken by the current execution and not advised yet
  advised    \* pages the current execution has advised

queue == <<pending, batch, advised>>

Nothing == [k \in Kinds |-> {}]

Init == pending = Nothing /\ batch = Nothing /\ advised = Nothing

Request ==
  \E k \in Kinds, P \in SUBSET Pages :
    /\ pending' = [pending EXCEPT ![k] = @ \cup P]
    /\ UNCHANGED <<batch, advised>>

Begin ==
  /\ batch = Nothing /\ advised = Nothing
  /\ batch' = [k \in Kinds |-> pending[k] \ UNION {pending[s] : s \in Stronger(k)}]
  /\ pending' = Nothing
  /\ UNCHANGED advised

Advise ==
  \E k \in Kinds, P \in SUBSET Pages :
    /\ P \subseteq batch[k]
    /\ batch' = [batch EXCEPT ![k] = @ \ P]
    /\ advised' = [advised EXCEPT ![k] = @ \cup P]
    /\ UNCHANGED pending

End ==
  /\ batch = Nothing
  /\ advised' = Nothing
  /\ UNCHANGED <<pending, batch>>

\* A thread of another node cannot prefetch for this one and drops requests.
Drop ==
  \E k \in Kinds :
    /\ pending' = [pending EXCEPT ![k] = {}]
    /\ UNCHANGED <<batch, advised>>

Next == Request \/ Begin \/ Advise \/ End \/ Drop

Spec == Init /\ [][Next]_queue
=============================================================================
