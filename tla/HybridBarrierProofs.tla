------------------------ MODULE HybridBarrierProofs ------------------------
(***************************************************************************)
(* Proofs about HybridBarrier for every finite placement of threads on     *)
(* nodes and every number of rounds: the inductive invariant IInv, the     *)
(* safety properties it implies and the refinement of AbstractBarrier.     *)
(***************************************************************************)
EXTENDS HybridBarrier, FiniteSetTheorems, TLAPS

USE PlacementAssumption

-----------------------------------------------------------------------------
(* Counting                                                                *)

\* Any set of threads of one node is finite and no larger than the total of
\* the node's barrier.
LEMMA NodeCards ==
  ASSUME NEW n \in Nodes, NEW S \in SUBSET ThreadsOf(n)
  PROVE  /\ IsFiniteSet(S)
         /\ Cardinality(S) \in Nat
         /\ Cardinality(S) <= Total(n)
         /\ Total(n) \in Nat
         /\ Total(n) = Cardinality(ThreadsOf(n))
<1>1. IsFiniteSet(ThreadsOf(n))
  BY FS_Subset, ThreadsOf(n) \in SUBSET Threads DEF ThreadsOf
<1>2. Total(n) = Cardinality(ThreadsOf(n))
  BY DEF Total
<1>3. QED
  BY <1>1, <1>2, FS_Subset, FS_CardinalityType

\* Any set of participating nodes is finite and no larger than the total of
\* the global barrier.
LEMMA GlobalCards ==
  ASSUME NEW S \in SUBSET Nodes
  PROVE  /\ IsFiniteSet(S)
         /\ Cardinality(S) \in Nat
         /\ Cardinality(S) <= Total(Global)
         /\ Total(Global) \in Nat
         /\ Total(Global) = Cardinality(Nodes)
BY FS_Subset, FS_CardinalityType DEF Total

\* A node has at least one thread, its barriers a positive total.
LEMMA Totals == \A b \in Barriers : Total(b) \in Nat
BY NodeCards, GlobalCards DEF Barriers

LEMMA InitIInv == Init => IInv
<1> SUFFICES ASSUME Init PROVE IInv
  OBVIOUS
<1> USE DEF Init
<1>1. TypeOK
  BY Totals, NodeCards DEF TypeOK, PCs, Barriers
<1>2. LeaderInv /\ GenerationInv /\ GlobalInv
  BY DEF LeaderInv, GenerationInv, GlobalInv
<1>3. \A n \in Nodes : Outside(n) = ThreadsOf(n) /\ Away(n) = ThreadsOf(n)
  BY DEF Outside, Away, IsOutside, HasArrived, ThreadsOf
<1>4. AwayNodes = Nodes
  BY DEF AwayNodes, NodeArrived, ThreadsOf
<1>5. \A b \in Barriers : ~Releasing(b)
  BY DEF Releasing
<1>6. \A n \in Nodes : ~Rearmed(n) /\ ~Passed(n)
  BY DEF Rearmed, Passed, ThreadsOf
<1>7. SomeoneLeads
  BY <1>3 DEF SomeoneLeads
<1>8. CountInv
  BY <1>3, <1>4, <1>5, <1>6, NodeCards, GlobalCards DEF CountInv, Barriers
<1>9. RoundInv
  BY <1>6 DEF RoundInv, IsOutside, Barriers
<1>10. QED
  BY <1>1, <1>2, <1>7, <1>8, <1>9 DEF IInv

-----------------------------------------------------------------------------
(* One lemma per action                                                    *)

LEMMA SelectLeaderStep ==
  ASSUME IInv, NEW t \in Threads, SelectLeaderSynchronous(t)
  PROVE  IInv'
<1> DEFINE n == NodeOf[t]
<1> USE DEF IInv, TypeOK
<1>0. n \in Nodes /\ t \in ThreadsOf(n) /\ n # Global /\ n \in Barriers /\ Global \in Barriers
  BY DEF ThreadsOf, Barriers
<1>1. pc[t] = "out" /\ at[t] = n /\ ~leader[t]
  BY DEF SelectLeaderSynchronous, LeaderInv
<1>2. /\ \A u \in Threads \ {t} : pc'[u] = pc[u] /\ leader'[u] = leader[u]
      /\ UNCHANGED <<awaited, generation, at, state, left>>
      /\ pc'[t] \in {"spin", "load"}
  BY DEF SelectLeaderSynchronous, Goto
<1>3. \A u \in Threads : NodeOf[u] = n => ~leader[u]
  BY <1>1 DEF LeaderInv, IsOutside
<1>4. t \in Outside(n) /\ Outside(n)' = Outside(n) \ {t}
  BY <1>0, <1>1, <1>2 DEF Outside, IsOutside, ThreadsOf
<1>5. \A m \in Nodes \ {n} : Outside(m)' = Outside(m)
  BY <1>0, <1>1, <1>2 DEF Outside, IsOutside, ThreadsOf
<1>6. \A m \in Nodes : Away(m)' = Away(m)
  BY <1>0, <1>1, <1>2 DEF Away, HasArrived, ThreadsOf
<1>7. \A b \in Barriers : Releasing(b)' <=> Releasing(b)
  BY <1>1, <1>2 DEF Releasing
<1>8. \A m \in Nodes : NodeArrived(m)' <=> NodeArrived(m)
  BY <1>0, <1>1, <1>2 DEF NodeArrived, ThreadsOf
<1>9. AwayNodes' = AwayNodes
  BY <1>8 DEF AwayNodes
<1>10. ~Rearmed(n) /\ ~Passed(n)
  BY <1>3 DEF Rearmed, Passed, ThreadsOf
<1>11. pc'[t] = "load" => ~leader'[t]
  BY <1>0 DEF SelectLeaderSynchronous, Goto
<1>12. \A m \in Nodes : (Rearmed(m)' <=> Rearmed(m)) /\ (Passed(m)' <=> Passed(m))
  BY <1>0, <1>1, <1>2, <1>3, <1>10, <1>11 DEF Rearmed, Passed, ThreadsOf
<1>13. /\ remaining[n] = Cardinality(Outside(n))
       /\ remaining[n] - 1 = Cardinality(Outside(n)')
       /\ remaining[n] - 1 \in Nat
       /\ remaining[n] - 1 <= Total(n)
       /\ remaining[n] - 1 = 0 <=> Outside(n)' = {}
  <2>1. Outside(n) \in SUBSET ThreadsOf(n) /\ Outside(n)' \in SUBSET ThreadsOf(n)
    BY <1>4 DEF Outside
  <2>2. IsFiniteSet(Outside(n)) /\ IsFiniteSet(Outside(n)')
    BY <2>1, <1>0, NodeCards
  <2>3. remaining[n] = Cardinality(Outside(n))
    BY <1>0, <1>10 DEF CountInv
  <2>4. Cardinality(Outside(n)') = Cardinality(Outside(n)) - 1
    BY <1>4, <2>2, FS_RemoveElement
  <2>5. Cardinality(Outside(n)) \in Nat /\ Cardinality(Outside(n)') \in Nat
        /\ Cardinality(Outside(n)') <= Total(n)
    BY <2>1, <1>0, NodeCards
  <2>6. Cardinality(Outside(n)') = 0 <=> Outside(n)' = {}
    BY <2>2, FS_EmptySet
  <2>7. QED
    BY <2>3, <2>4, <2>5, <2>6
<1>14. /\ remaining' = [remaining EXCEPT ![n] = remaining[n] - 1]
       /\ leader'[t] <=> remaining[n] - 1 = 0
       /\ pc'[t] = IF remaining[n] - 1 = 0 THEN "spin" ELSE "load"
       /\ leader' \in [Threads -> BOOLEAN]
       /\ pc' \in [Threads -> PCs]
  BY DEF SelectLeaderSynchronous, Goto, PCs
<1>15. TypeOK'
  BY <1>0, <1>2, <1>13, <1>14, NodeCards DEF Total
<1>16. LeaderInv'
  <2> SUFFICES ASSUME NEW u \in Threads
               PROVE  /\ at[u] = Global => leader'[u] /\ pc'[u] \notin {"out", "spin", "cleanup"}
                      /\ pc'[u] \in {"spin", "cleanup"} => leader'[u]
                      /\ pc'[u] \in {"reset", "store"} => leader'[u]
                      /\ leader'[u] => pc'[u] # "out" /\ ~(at[u] = NodeOf[u] /\ pc'[u] = "wait")
                      /\ leader'[u] =>
                          \A v \in Threads : NodeOf[v] = NodeOf[u] /\ v # u =>
                            ~leader'[v] /\ ~IsOutside(v)' /\ (pc'[u] # "spin" => HasArrived(v)')
    BY <1>2 DEF LeaderInv
  <2>1. CASE u = t
    <3>1. leader'[t] => Outside(n)' = {} /\ pc'[t] = "spin"
      BY <1>13, <1>14
    <3>2. \A v \in Threads : NodeOf[v] = n /\ Outside(n)' = {} => ~IsOutside(v)'
      BY DEF Outside, ThreadsOf
    <3>3. QED
      BY <2>1, <3>1, <3>2, <1>0, <1>1, <1>2, <1>3, <1>11, <1>14
  <2>2. CASE u # t
    <3>1. leader'[u] => NodeOf[u] # n
      BY <2>2, <1>2, <1>3
    <3>2. \A v \in Threads \ {t} : (IsOutside(v)' <=> IsOutside(v)) /\ (HasArrived(v)' <=> HasArrived(v))
      BY <1>2 DEF IsOutside, HasArrived
    <3>3. QED
      BY <2>2, <3>1, <3>2, <1>2 DEF LeaderInv
  <2>3. QED
    BY <2>1, <2>2
<1>17. SomeoneLeads'
  BY <1>0, <1>2, <1>5, <1>13, <1>14 DEF SomeoneLeads, ThreadsOf
<1>18. GenerationInv'
  BY <1>2 DEF GenerationInv
<1>19. CountInv'
  <2>1. ASSUME NEW m \in Nodes
        PROVE  /\ remaining'[m] = IF Rearmed(m)' THEN Total(m) ELSE Cardinality(Outside(m)')
               /\ awaited'[m] = IF Releasing(m)' THEN Total(m) ELSE Cardinality(Away(m)')
    <3>1. CASE m = n
      BY <3>1, <1>0, <1>2, <1>6, <1>7, <1>10, <1>12, <1>13, <1>14 DEF CountInv
    <3>2. CASE m # n
      BY <3>2, <1>2, <1>5, <1>6, <1>7, <1>12, <1>14 DEF CountInv, Barriers
    <3>3. QED
      BY <3>1, <3>2
  <2>2. awaited'[Global] = IF Releasing(Global)' THEN Total(Global) ELSE Cardinality(AwayNodes')
    BY <1>0, <1>2, <1>7, <1>9 DEF CountInv
  <2>3. QED
    BY <2>1, <2>2 DEF CountInv, Total
<1>20. GlobalInv'
  BY <1>1, <1>2, <1>8 DEF GlobalInv
<1>21. RoundInv'
  BY <1>0, <1>1, <1>2, <1>12 DEF RoundInv, IsOutside
<1>22. QED
  BY <1>15, <1>16, <1>17, <1>18, <1>19, <1>20, <1>21

LEMMA LeaderSpinStep ==
  ASSUME IInv, NEW t \in Threads, LeaderSpin(t)
  PROVE  IInv'
<1> DEFINE n == NodeOf[t]
<1> USE DEF IInv, TypeOK
<1>0. n \in Nodes /\ t \in ThreadsOf(n) /\ n # Global /\ n \in Barriers /\ Global \in Barriers
  BY DEF ThreadsOf, Barriers
<1>1. pc[t] = "spin" /\ at[t] = n /\ leader[t] /\ awaited[n] = 1
  BY DEF LeaderSpin, LeaderInv
<1>2. /\ \A u \in Threads \ {t} : pc'[u] = pc[u] /\ at'[u] = at[u]
      /\ UNCHANGED <<remaining, awaited, generation, leader, state, left>>
      /\ pc'[t] = "load" /\ at'[t] = Global
      /\ pc' \in [Threads -> PCs] /\ at' \in [Threads -> Barriers]
  BY <1>0 DEF LeaderSpin, Goto, PCs
<1>3. \A u \in Threads : NodeOf[u] = n /\ u # t => ~leader[u] /\ ~IsOutside(u)
  BY <1>1 DEF LeaderInv
<1>4. \A m \in Nodes : Outside(m)' = Outside(m) /\ Away(m)' = Away(m)
  BY <1>0, <1>1, <1>2 DEF Outside, IsOutside, Away, HasArrived, ThreadsOf
<1>5. \A u \in Threads : (IsOutside(u)' <=> IsOutside(u)) /\ (HasArrived(u)' <=> HasArrived(u))
  BY <1>0, <1>1, <1>2 DEF IsOutside, HasArrived
<1>6. \A b \in Barriers : Releasing(b)' <=> Releasing(b)
  BY <1>1, <1>2 DEF Releasing
<1>7. \A m \in Nodes : NodeArrived(m)' <=> NodeArrived(m)
  BY <1>0, <1>1, <1>2 DEF NodeArrived, ThreadsOf
<1>8. AwayNodes' = AwayNodes
  BY <1>7 DEF AwayNodes
<1>9. \A m \in Nodes : (Rearmed(m)' <=> Rearmed(m)) /\ (Passed(m)' <=> Passed(m))
  BY <1>0, <1>1, <1>2 DEF Rearmed, Passed, ThreadsOf
<1>10. Away(n) = {t}
  <2>1. ~Releasing(n)
    BY <1>0, <1>1, <1>3 DEF Releasing, LeaderInv
  <2>2. Cardinality(Away(n)) = 1
    BY <2>1, <1>0, <1>1 DEF CountInv
  <2>3. IsFiniteSet(Away(n))
    BY <1>0, NodeCards, Away(n) \in SUBSET ThreadsOf(n) DEF Away
  <2>4. t \in Away(n)
    BY <1>0, <1>1 DEF Away, HasArrived
  <2>5. QED
    BY <2>2, <2>3, <2>4, FS_Singleton
<1>11. \A u \in Threads : NodeOf[u] = n /\ u # t => HasArrived(u)
  BY <1>10 DEF Away, ThreadsOf
<1>12. TypeOK'
  BY <1>0, <1>2, NodeCards DEF Total
<1>13. LeaderInv'
  <2> SUFFICES ASSUME NEW u \in Threads
               PROVE  /\ at'[u] = Global => leader[u] /\ pc'[u] \notin {"out", "spin", "cleanup"}
                      /\ pc'[u] \in {"spin", "cleanup"} => leader[u]
                      /\ pc'[u] \in {"reset", "store"} => leader[u]
                      /\ leader[u] => pc'[u] # "out" /\ ~(at'[u] = NodeOf[u] /\ pc'[u] = "wait")
                      /\ leader[u] =>
                          \A v \in Threads : NodeOf[v] = NodeOf[u] /\ v # u =>
                            ~leader[v] /\ ~IsOutside(v)' /\ (pc'[u] # "spin" => HasArrived(v)')
    BY <1>2 DEF LeaderInv
  <2>1. CASE u = t
    BY <2>1, <1>1, <1>2, <1>3, <1>5, <1>11
  <2>2. CASE u # t
    BY <2>2, <1>2, <1>5 DEF LeaderInv
  <2>3. QED
    BY <2>1, <2>2
<1>14. SomeoneLeads'
  BY <1>2, <1>4 DEF SomeoneLeads, ThreadsOf
<1>15. GenerationInv'
  BY <1>2 DEF GenerationInv
<1>16. CountInv'
  BY <1>0, <1>2, <1>4, <1>6, <1>8, <1>9 DEF CountInv, Total, Barriers
<1>17. GlobalInv'
  BY <1>1, <1>2, <1>7 DEF GlobalInv
<1>18. RoundInv'
  BY <1>1, <1>2, <1>5, <1>9 DEF RoundInv
<1>19. QED
  BY <1>12, <1>13, <1>14, <1>15, <1>16, <1>17, <1>18

LEMMA LeaderCleanupStep ==
  ASSUME IInv, NEW t \in Threads, LeaderCleanup(t)
  PROVE  IInv'
<1> DEFINE n == NodeOf[t]
<1> USE DEF IInv, TypeOK
<1>0. n \in Nodes /\ t \in ThreadsOf(n) /\ n # Global /\ n \in Barriers /\ Global \in Barriers
  BY DEF ThreadsOf, Barriers
<1>1. pc[t] = "cleanup" /\ at[t] = n /\ leader[t]
  BY DEF LeaderCleanup, LeaderInv
<1>2. /\ \A u \in Threads \ {t} : pc'[u] = pc[u]
      /\ UNCHANGED <<awaited, generation, at, leader, state, left>>
      /\ pc'[t] = "load"
      /\ pc' \in [Threads -> PCs]
      /\ remaining' = [remaining EXCEPT ![n] = Total(n)]
  BY <1>0 DEF LeaderCleanup, Goto, PCs
<1>3. \A u \in Threads : NodeOf[u] = n /\ u # t => ~leader[u] /\ HasArrived(u)
  BY <1>1 DEF LeaderInv
<1>4. \A m \in Nodes : Outside(m)' = Outside(m) /\ Away(m)' = Away(m)
  BY <1>0, <1>1, <1>2 DEF Outside, IsOutside, Away, HasArrived, ThreadsOf
<1>5. \A u \in Threads : (IsOutside(u)' <=> IsOutside(u)) /\ (HasArrived(u)' <=> HasArrived(u))
  BY <1>0, <1>1, <1>2 DEF IsOutside, HasArrived
<1>6. \A b \in Barriers : Releasing(b)' <=> Releasing(b)
  BY <1>1, <1>2 DEF Releasing
<1>7. \A m \in Nodes : NodeArrived(m)' <=> NodeArrived(m)
  BY <1>0, <1>1, <1>2 DEF NodeArrived, ThreadsOf
<1>8. AwayNodes' = AwayNodes
  BY <1>7 DEF AwayNodes
<1>9. /\ \A m \in Nodes \ {n} : Rearmed(m)' <=> Rearmed(m)
      /\ Rearmed(n)'
      /\ \A m \in Nodes : Passed(m)' <=> Passed(m)
  BY <1>0, <1>1, <1>2 DEF Rearmed, Passed, ThreadsOf
<1>10. TypeOK'
  BY <1>0, <1>2, NodeCards DEF Total
<1>11. LeaderInv'
  BY <1>0, <1>1, <1>2, <1>5 DEF LeaderInv
<1>12. SomeoneLeads'
  BY <1>2, <1>4 DEF SomeoneLeads, ThreadsOf
<1>13. GenerationInv'
  BY <1>1, <1>2 DEF GenerationInv
<1>14. CountInv'
  <2>1. ASSUME NEW m \in Nodes
        PROVE  /\ remaining'[m] = IF Rearmed(m)' THEN Total(m) ELSE Cardinality(Outside(m)')
               /\ awaited'[m] = IF Releasing(m)' THEN Total(m) ELSE Cardinality(Away(m)')
    BY <1>0, <1>2, <1>4, <1>6, <1>9 DEF CountInv, Barriers
  <2>2. awaited'[Global] = IF Releasing(Global)' THEN Total(Global) ELSE Cardinality(AwayNodes')
    BY <1>0, <1>2, <1>6, <1>8 DEF CountInv
  <2>3. QED
    BY <2>1, <2>2 DEF CountInv, Total
<1>15. GlobalInv'
  BY <1>1, <1>2, <1>7 DEF GlobalInv
<1>16. RoundInv'
  BY <1>1, <1>2, <1>5, <1>9 DEF RoundInv
<1>17. QED
  BY <1>10, <1>11, <1>12, <1>13, <1>14, <1>15, <1>16

LEMMA WaitStartLoadStep ==
  ASSUME IInv, NEW t \in Threads, WaitStartLoad(t)
  PROVE  IInv'
<1> DEFINE n == NodeOf[t]
<1> USE DEF IInv, TypeOK
<1>0. n \in Nodes /\ t \in ThreadsOf(n) /\ n # Global /\ n \in Barriers /\ Global \in Barriers
  BY DEF ThreadsOf, Barriers
<1>1. pc[t] = "load"
  BY DEF WaitStartLoad
<1>2. /\ \A u \in Threads \ {t} : pc'[u] = pc[u] /\ state'[u] = state[u]
      /\ UNCHANGED <<remaining, awaited, generation, at, leader, left>>
      /\ pc'[t] = "dec" /\ state'[t] = generation[at[t]]
      /\ pc' \in [Threads -> PCs] /\ state' \in [Threads -> Nat]
  BY <1>0 DEF WaitStartLoad, Goto, PCs
<1>3. \A m \in Nodes : Outside(m)' = Outside(m) /\ Away(m)' = Away(m)
  BY <1>0, <1>1, <1>2 DEF Outside, IsOutside, Away, HasArrived, ThreadsOf
<1>4. \A u \in Threads : (IsOutside(u)' <=> IsOutside(u)) /\ (HasArrived(u)' <=> HasArrived(u))
  BY <1>0, <1>1, <1>2 DEF IsOutside, HasArrived
<1>5. \A b \in Barriers : Releasing(b)' <=> Releasing(b)
  BY <1>1, <1>2 DEF Releasing
<1>6. \A m \in Nodes : NodeArrived(m)' <=> NodeArrived(m)
  BY <1>0, <1>1, <1>2 DEF NodeArrived, ThreadsOf
<1>7. AwayNodes' = AwayNodes
  BY <1>6 DEF AwayNodes
<1>8. \A m \in Nodes : (Rearmed(m)' <=> Rearmed(m)) /\ (Passed(m)' <=> Passed(m))
  BY <1>0, <1>1, <1>2 DEF Rearmed, Passed, ThreadsOf
<1>9. TypeOK'
  BY <1>0, <1>2, NodeCards DEF Total
<1>10. LeaderInv'
  BY <1>0, <1>1, <1>2, <1>4 DEF LeaderInv
<1>11. SomeoneLeads'
  BY <1>2, <1>3 DEF SomeoneLeads, ThreadsOf
<1>12. GenerationInv'
  BY <1>1, <1>2 DEF GenerationInv
<1>13. CountInv'
  BY <1>0, <1>2, <1>3, <1>5, <1>7, <1>8 DEF CountInv, Total, Barriers
<1>14. GlobalInv'
  BY <1>1, <1>2, <1>6 DEF GlobalInv
<1>15. RoundInv'
  BY <1>1, <1>2, <1>4, <1>8 DEF RoundInv
<1>16. QED
  BY <1>9, <1>10, <1>11, <1>12, <1>13, <1>14, <1>15

\* The decrement of a node barrier: only the leader can be the last one.
LEMMA NodeDecrementStep ==
  ASSUME IInv, NEW t \in Threads, WaitStartDecrement(t), at[t] = NodeOf[t]
  PROVE  IInv'
<1> DEFINE n == NodeOf[t]
<1> USE DEF IInv, TypeOK
<1>0. n \in Nodes /\ t \in ThreadsOf(n) /\ n # Global /\ n \in Barriers /\ Global \in Barriers
  BY DEF ThreadsOf, Barriers
<1>1. pc[t] = "dec" /\ at[t] = n /\ state[t] = generation[n]
  BY DEF WaitStartDecrement, GenerationInv
<1>2. /\ \A u \in Threads \ {t} : pc'[u] = pc[u]
      /\ UNCHANGED <<remaining, generation, at, leader, state, left>>
      /\ pc'[t] = IF awaited[n] - 1 = 0 THEN "reset" ELSE "wait"
      /\ pc' \in [Threads -> PCs]
      /\ awaited' = [awaited EXCEPT ![n] = awaited[n] - 1]
  BY <1>0, <1>1 DEF WaitStartDecrement, Goto, PCs
<1>3. t \in Away(n) /\ ~HasArrived(t) /\ ~IsOutside(t)
  BY <1>0, <1>1 DEF Away, HasArrived, IsOutside
<1>4. /\ \A u \in Threads : IsOutside(u)' <=> IsOutside(u)
      /\ \A u \in Threads \ {t} : HasArrived(u)' <=> HasArrived(u)
      /\ HasArrived(t)'
  BY <1>0, <1>1, <1>2 DEF IsOutside, HasArrived
<1>5. /\ \A m \in Nodes : Outside(m)' = Outside(m)
      /\ \A m \in Nodes \ {n} : Away(m)' = Away(m)
      /\ Away(n)' = Away(n) \ {t}
  BY <1>0, <1>4 DEF Outside, Away, ThreadsOf
<1>6. \A b \in Barriers : Releasing(b)' <=> Releasing(b)
  BY <1>1, <1>2 DEF Releasing
<1>7. \A m \in Nodes : NodeArrived(m)' <=> NodeArrived(m)
  BY <1>0, <1>1, <1>2 DEF NodeArrived, ThreadsOf
<1>8. AwayNodes' = AwayNodes
  BY <1>7 DEF AwayNodes
<1>9. ~Releasing(n)
  BY <1>0, <1>1, <1>3 DEF Releasing, LeaderInv
<1>10. /\ awaited[n] - 1 = Cardinality(Away(n)')
       /\ awaited[n] - 1 \in Nat
       /\ awaited[n] - 1 <= Total(n)
       /\ awaited[n] - 1 = 0 <=> Away(n) = {t}
  <2>1. Away(n) \in SUBSET ThreadsOf(n) /\ Away(n)' \in SUBSET ThreadsOf(n)
    BY <1>5 DEF Away
  <2>2. IsFiniteSet(Away(n)) /\ IsFiniteSet(Away(n)')
    BY <2>1, <1>0, NodeCards
  <2>3. awaited[n] = Cardinality(Away(n))
    BY <1>0, <1>9 DEF CountInv
  <2>4. Cardinality(Away(n)') = Cardinality(Away(n)) - 1
    BY <1>3, <1>5, <2>2, FS_RemoveElement
  <2>5. Cardinality(Away(n)) \in Nat /\ Cardinality(Away(n)') \in Nat
        /\ Cardinality(Away(n)') <= Total(n)
    BY <2>1, <1>0, NodeCards
  <2>6. Cardinality(Away(n)') = 0 <=> Away(n)' = {}
    BY <2>2, FS_EmptySet
  <2>7. Away(n)' = {} <=> Away(n) = {t}
    BY <1>3, <1>5
  <2>8. QED
    BY <2>3, <2>4, <2>5, <2>6, <2>7
<1>11. leader[t] <=> Away(n) = {t}
  <2>1. ASSUME leader[t] PROVE Away(n) = {t}
    BY <2>1, <1>0, <1>1, <1>3 DEF LeaderInv, Away, ThreadsOf
  <2>2. ASSUME Away(n) = {t} PROVE leader[t]
    <3>1. \A u \in ThreadsOf(n) : u # t => HasArrived(u)
      BY <2>2 DEF Away
    <3>2. Outside(n) = {}
      BY <3>1, <1>0, <1>3 DEF Outside, IsOutside, HasArrived, ThreadsOf
    <3>3. PICK u \in ThreadsOf(n) : leader[u]
      BY <3>2, <1>0 DEF SomeoneLeads
    <3>4. u \in Threads /\ NodeOf[u] = n
      BY DEF ThreadsOf
    <3>5. CASE u = t
      BY <3>3, <3>5
    <3>6. CASE u # t
      <4>1. pc[u] = "reset" \/ (pc[u] = "wait" /\ at[u] = NodeOf[u])
        BY <3>1, <3>6 DEF HasArrived
      <4>2. pc[u] # "spin" => HasArrived(t)
        BY <3>3, <3>4, <3>6 DEF LeaderInv
      <4>3. QED
        BY <4>1, <4>2, <3>3, <3>4, <1>3 DEF LeaderInv
    <3>7. QED
      BY <3>5, <3>6
  <2>3. QED
    BY <2>1, <2>2
<1>12. \A m \in Nodes : (Rearmed(m)' <=> Rearmed(m)) /\ (Passed(m)' <=> Passed(m))
  BY <1>0, <1>1, <1>2, <1>10, <1>11 DEF Rearmed, Passed, ThreadsOf
<1>13. TypeOK'
  BY <1>0, <1>2, <1>10, NodeCards DEF Total
<1>14. LeaderInv'
  BY <1>0, <1>1, <1>2, <1>4, <1>10, <1>11 DEF LeaderInv
<1>15. SomeoneLeads'
  BY <1>2, <1>5 DEF SomeoneLeads, ThreadsOf
<1>16. GenerationInv'
  BY <1>1, <1>2 DEF GenerationInv
<1>17. CountInv'
  <2>1. ASSUME NEW m \in Nodes
        PROVE  /\ remaining'[m] = IF Rearmed(m)' THEN Total(m) ELSE Cardinality(Outside(m)')
               /\ awaited'[m] = IF Releasing(m)' THEN Total(m) ELSE Cardinality(Away(m)')
    <3>1. CASE m = n
      BY <3>1, <1>0, <1>2, <1>5, <1>6, <1>9, <1>10, <1>12 DEF CountInv
    <3>2. CASE m # n
      BY <3>2, <1>2, <1>5, <1>6, <1>12 DEF CountInv, Barriers
    <3>3. QED
      BY <3>1, <3>2
  <2>2. awaited'[Global] = IF Releasing(Global)' THEN Total(Global) ELSE Cardinality(AwayNodes')
    BY <1>0, <1>2, <1>6, <1>8 DEF CountInv
  <2>3. QED
    BY <2>1, <2>2 DEF CountInv, Total
<1>18. GlobalInv'
  BY <1>0, <1>1, <1>2, <1>7 DEF GlobalInv
<1>19. RoundInv'
  BY <1>1, <1>2, <1>4, <1>12 DEF RoundInv
<1>20. QED
  BY <1>13, <1>14, <1>15, <1>16, <1>17, <1>18, <1>19

\* The decrement of the global barrier by a leader.
LEMMA GlobalDecrementStep ==
  ASSUME IInv, NEW t \in Threads, WaitStartDecrement(t), at[t] = Global
  PROVE  IInv'
<1> DEFINE n == NodeOf[t]
<1> USE DEF IInv, TypeOK
<1>0. n \in Nodes /\ t \in ThreadsOf(n) /\ n # Global /\ n \in Barriers /\ Global \in Barriers
  BY DEF ThreadsOf, Barriers
<1>1. pc[t] = "dec" /\ at[t] = Global /\ leader[t] /\ state[t] = generation[Global]
  BY DEF WaitStartDecrement, GenerationInv, LeaderInv
<1>2. /\ \A u \in Threads \ {t} : pc'[u] = pc[u]
      /\ UNCHANGED <<remaining, generation, at, leader, state, left>>
      /\ pc'[t] = IF awaited[Global] - 1 = 0 THEN "reset" ELSE "wait"
      /\ pc' \in [Threads -> PCs]
      /\ awaited' = [awaited EXCEPT ![Global] = awaited[Global] - 1]
  BY <1>0, <1>1 DEF WaitStartDecrement, Goto, PCs
<1>3. \A u \in Threads : NodeOf[u] = n /\ u # t => ~leader[u] /\ HasArrived(u)
  BY <1>1 DEF LeaderInv
<1>4. \A u \in Threads : (IsOutside(u)' <=> IsOutside(u)) /\ (HasArrived(u)' <=> HasArrived(u))
  BY <1>0, <1>1, <1>2 DEF IsOutside, HasArrived
<1>5. \A m \in Nodes : Outside(m)' = Outside(m) /\ Away(m)' = Away(m)
  BY <1>4 DEF Outside, Away, ThreadsOf
<1>6. \A b \in Barriers : Releasing(b)' <=> Releasing(b)
  BY <1>1, <1>2 DEF Releasing
<1>7. /\ \A m \in Nodes \ {n} : NodeArrived(m)' <=> NodeArrived(m)
      /\ NodeArrived(n)'
      /\ ~NodeArrived(n)
  <2>1. ~NodeArrived(n)
    BY <1>0, <1>1, <1>3 DEF NodeArrived, ThreadsOf, LeaderInv
  <2>2. NodeArrived(n)'
    BY <1>0, <1>1, <1>2 DEF NodeArrived, ThreadsOf
  <2>3. \A m \in Nodes \ {n} : NodeArrived(m)' <=> NodeArrived(m)
    BY <1>0, <1>1, <1>2 DEF NodeArrived, ThreadsOf
  <2>4. QED
    BY <2>1, <2>2, <2>3
<1>8. n \in AwayNodes /\ AwayNodes' = AwayNodes \ {n}
  BY <1>0, <1>7 DEF AwayNodes
<1>9. \A u \in Threads : ~(at[u] = Global /\ pc[u] \in {"reset", "store"})
  <2> SUFFICES ASSUME NEW u \in Threads, at[u] = Global, pc[u] \in {"reset", "store"}
               PROVE  FALSE
    OBVIOUS
  <2>1. NodeOf[u] = n
    BY <1>0, <1>7 DEF GlobalInv
  <2>2. leader[u] /\ u # t
    BY <1>1 DEF LeaderInv
  <2>3. QED
    BY <2>1, <2>2, <1>3
<1>10. ~Releasing(Global)
  BY <1>9 DEF Releasing
<1>11. /\ awaited[Global] - 1 = Cardinality(AwayNodes')
       /\ awaited[Global] - 1 \in Nat
       /\ awaited[Global] - 1 <= Total(Global)
       /\ awaited[Global] - 1 = 0 <=> AwayNodes' = {}
  <2>1. AwayNodes \in SUBSET Nodes /\ AwayNodes' \in SUBSET Nodes
    BY <1>8 DEF AwayNodes
  <2>2. IsFiniteSet(AwayNodes) /\ IsFiniteSet(AwayNodes')
    BY <2>1, GlobalCards
  <2>3. awaited[Global] = Cardinality(AwayNodes)
    BY <1>10 DEF CountInv
  <2>4. Cardinality(AwayNodes') = Cardinality(AwayNodes) - 1
    BY <1>8, <2>2, FS_RemoveElement
  <2>5. Cardinality(AwayNodes) \in Nat /\ Cardinality(AwayNodes') \in Nat
        /\ Cardinality(AwayNodes') <= Total(Global)
    BY <2>1, GlobalCards
  <2>6. Cardinality(AwayNodes') = 0 <=> AwayNodes' = {}
    BY <2>2, FS_EmptySet
  <2>7. QED
    BY <2>3, <2>4, <2>5, <2>6
<1>12. \A m \in Nodes : (Rearmed(m)' <=> Rearmed(m)) /\ (Passed(m)' <=> Passed(m))
  BY <1>0, <1>1, <1>2 DEF Rearmed, Passed, ThreadsOf
<1>13. TypeOK'
  BY <1>0, <1>2, <1>11, NodeCards DEF Total
<1>14. LeaderInv'
  BY <1>0, <1>1, <1>2, <1>4 DEF LeaderInv
<1>15. SomeoneLeads'
  BY <1>2, <1>5 DEF SomeoneLeads, ThreadsOf
<1>16. GenerationInv'
  BY <1>1, <1>2 DEF GenerationInv
<1>17. CountInv'
  <2>1. ASSUME NEW m \in Nodes
        PROVE  /\ remaining'[m] = IF Rearmed(m)' THEN Total(m) ELSE Cardinality(Outside(m)')
               /\ awaited'[m] = IF Releasing(m)' THEN Total(m) ELSE Cardinality(Away(m)')
    BY <1>2, <1>5, <1>6, <1>12 DEF CountInv, Barriers
  <2>2. awaited'[Global] = IF Releasing(Global)' THEN Total(Global) ELSE Cardinality(AwayNodes')
    BY <1>0, <1>2, <1>6, <1>10, <1>11
  <2>3. QED
    BY <2>1, <2>2 DEF CountInv, Total
<1>18. GlobalInv'
  <2>1. ASSUME pc'[t] = "reset" PROVE \A m \in Nodes : NodeArrived(m)'
    BY <2>1, <1>2, <1>11 DEF AwayNodes
  <2>2. QED
    BY <2>1, <1>2, <1>9 DEF GlobalInv
<1>19. RoundInv'
  BY <1>1, <1>2, <1>4, <1>12 DEF RoundInv
<1>20. QED
  BY <1>13, <1>14, <1>15, <1>16, <1>17, <1>18, <1>19

\* Re-arming awaited happens behind every participant's back: all the others
\* are parked.
LEMMA LastResetStep ==
  ASSUME IInv, NEW t \in Threads, LastReset(t)
  PROVE  IInv'
<1> DEFINE n == NodeOf[t]
           b == at[t]
<1> USE DEF IInv, TypeOK
<1>0. /\ n \in Nodes /\ t \in ThreadsOf(n) /\ n # Global /\ n \in Barriers
      /\ Global \in Barriers /\ b \in Barriers /\ b \in {n, Global}
  BY DEF ThreadsOf, Barriers
<1>1. pc[t] = "reset" /\ leader[t] /\ state[t] = generation[b]
  BY DEF LastReset, GenerationInv, LeaderInv
<1>2. /\ \A u \in Threads \ {t} : pc'[u] = pc[u]
      /\ UNCHANGED <<remaining, generation, at, leader, state, left>>
      /\ pc'[t] = "store"
      /\ pc' \in [Threads -> PCs]
      /\ awaited' = [awaited EXCEPT ![b] = Total(b)]
  BY <1>0, <1>1 DEF LastReset, Goto, PCs
<1>3. \A u \in Threads : NodeOf[u] = n /\ u # t => ~leader[u] /\ ~IsOutside(u) /\ HasArrived(u)
  BY <1>1 DEF LeaderInv
<1>4. /\ \A u \in Threads : IsOutside(u)' <=> IsOutside(u)
      /\ \A u \in Threads \ {t} : HasArrived(u)' <=> HasArrived(u)
  BY <1>0, <1>1, <1>2 DEF IsOutside, HasArrived
<1>5. /\ \A m \in Nodes : Outside(m)' = Outside(m)
      /\ \A m \in Nodes : m # b => Away(m)' = Away(m)
  <2>1. b = Global => (HasArrived(t)' <=> HasArrived(t))
    BY <1>0, <1>2 DEF HasArrived
  <2>2. QED
    BY <2>1, <1>0, <1>4 DEF Outside, Away, ThreadsOf
<1>6. /\ Releasing(b)'
      /\ \A c \in Barriers \ {b} : Releasing(c)' <=> Releasing(c)
  BY <1>1, <1>2 DEF Releasing
<1>7. \A m \in Nodes : m # n \/ b = n => (NodeArrived(m)' <=> NodeArrived(m))
  BY <1>0, <1>1, <1>2 DEF NodeArrived, ThreadsOf
<1>8. b = n => AwayNodes' = AwayNodes
  BY <1>7 DEF AwayNodes
<1>9. \A m \in Nodes : (Rearmed(m)' <=> Rearmed(m)) /\ (Passed(m)' <=> Passed(m))
  BY <1>0, <1>1, <1>2 DEF Rearmed, Passed, ThreadsOf
<1>10. TypeOK'
  BY <1>0, <1>2, NodeCards, Totals DEF Total
<1>11. LeaderInv'
  BY <1>0, <1>1, <1>2, <1>3, <1>4 DEF LeaderInv
<1>12. SomeoneLeads'
  BY <1>2, <1>5 DEF SomeoneLeads, ThreadsOf
<1>13. GenerationInv'
  BY <1>1, <1>2 DEF GenerationInv
<1>14. CountInv'
  <2>1. ASSUME NEW m \in Nodes
        PROVE  /\ remaining'[m] = IF Rearmed(m)' THEN Total(m) ELSE Cardinality(Outside(m)')
               /\ awaited'[m] = IF Releasing(m)' THEN Total(m) ELSE Cardinality(Away(m)')
    <3>1. CASE m = b
      BY <3>1, <1>0, <1>2, <1>5, <1>6, <1>9 DEF CountInv
    <3>2. CASE m # b
      BY <3>2, <1>2, <1>5, <1>6, <1>9 DEF CountInv, Barriers
    <3>3. QED
      BY <3>1, <3>2
  <2>2. awaited'[Global] = IF Releasing(Global)' THEN Total(Global) ELSE Cardinality(AwayNodes')
    BY <1>0, <1>2, <1>6, <1>8 DEF CountInv
  <2>3. QED
    BY <2>1, <2>2 DEF CountInv, Total
<1>15. GlobalInv'
  <2> SUFFICES ASSUME NEW u \in Threads, at[u] = Global, pc'[u] \in {"reset", "store"}
               PROVE  /\ \A m \in Nodes : m # NodeOf[u] => NodeArrived(m)'
                      /\ \A v \in Threads :
                           at[v] = Global /\ pc'[v] \in {"reset", "store"} => v = u
    BY <1>2 DEF GlobalInv
  <2>1. pc[u] \in {"reset", "store"}
    BY <1>1, <1>2
  <2>2. b = Global => u = t
    BY <2>1, <1>1 DEF GlobalInv
  <2>3. \A v \in Threads : at[v] = Global /\ pc'[v] \in {"reset", "store"} => v = u
    BY <2>1, <1>1, <1>2 DEF GlobalInv
  <2>4. \A m \in Nodes : m # NodeOf[u] => NodeArrived(m)'
    BY <2>1, <2>2, <1>0, <1>7 DEF GlobalInv
  <2>5. QED
    BY <2>3, <2>4
<1>16. RoundInv'
  BY <1>1, <1>2, <1>4, <1>9 DEF RoundInv
<1>17. QED
  BY <1>10, <1>11, <1>12, <1>13, <1>14, <1>15, <1>16

\* Publishing the new generation of a node's barrier releases every other
\* thread of the node at once.
LEMMA NodeStoreStep ==
  ASSUME IInv, NEW t \in Threads, LastStoreGeneration(t), at[t] = NodeOf[t]
  PROVE  IInv'
<1> DEFINE n == NodeOf[t]
<1> USE DEF IInv, TypeOK
<1>0. n \in Nodes /\ t \in ThreadsOf(n) /\ n # Global /\ n \in Barriers /\ Global \in Barriers
  BY DEF ThreadsOf, Barriers
<1>1. pc[t] = "store" /\ at[t] = n /\ leader[t] /\ state[t] = generation[n]
  BY DEF LastStoreGeneration, GenerationInv, LeaderInv
<1>2. /\ \A u \in Threads \ {t} : pc'[u] = pc[u] /\ leader'[u] = leader[u] /\ left'[u] = left[u]
      /\ UNCHANGED <<remaining, awaited, at, state>>
      /\ pc'[t] = "out" /\ ~leader'[t] /\ left'[t] = left[t] + 1
      /\ pc' \in [Threads -> PCs] /\ leader' \in [Threads -> BOOLEAN]
      /\ left' \in [Threads -> Nat]
      /\ generation' = [generation EXCEPT ![n] = generation[n] + 1]
  <2>1. /\ UNCHANGED <<remaining, awaited, at, state>>
        /\ pc' = [pc EXCEPT ![t] = "out"]
        /\ leader' = [leader EXCEPT ![t] = FALSE]
        /\ left' = [left EXCEPT ![t] = @ + 1]
        /\ generation' = [generation EXCEPT ![n] = state[t] + 1]
    BY <1>0, <1>1 DEF LastStoreGeneration, Return, Goto
  <2>2. "out" \in PCs
    BY DEF PCs
  <2>3. QED
    BY <2>1, <2>2, <1>0, <1>1
<1>3. \A u \in Threads : NodeOf[u] = n /\ u # t =>
        /\ ~leader[u] /\ ~IsOutside(u) /\ HasArrived(u)
        /\ pc[u] = "wait" /\ at[u] = n /\ state[u] = generation[n]
  BY <1>1 DEF LeaderInv, HasArrived
<1>4. /\ \A u \in Threads : NodeOf[u] = n => IsOutside(u)' /\ ~HasArrived(u)'
      /\ \A u \in Threads : NodeOf[u] # n => /\ IsOutside(u)' <=> IsOutside(u)
                                             /\ HasArrived(u)' <=> HasArrived(u)
  <2>1. \A u \in Threads : NodeOf[u] = n => IsOutside(u)' /\ ~HasArrived(u)'
    BY <1>0, <1>1, <1>2, <1>3 DEF IsOutside, HasArrived
  <2>2. \A u \in Threads : NodeOf[u] # n => NodeOf[u] \in Nodes /\ generation'[NodeOf[u]] = generation[NodeOf[u]]
    BY <1>2 DEF Barriers
  <2>3. QED
    BY <2>1, <2>2, <1>2 DEF IsOutside, HasArrived
<1>5. /\ Outside(n)' = ThreadsOf(n) /\ Away(n)' = ThreadsOf(n)
      /\ \A m \in Nodes \ {n} : Outside(m)' = Outside(m) /\ Away(m)' = Away(m)
  BY <1>4 DEF Outside, Away, ThreadsOf
<1>6. /\ Releasing(n) /\ ~Releasing(n)'
      /\ \A c \in Barriers \ {n} : Releasing(c)' <=> Releasing(c)
  <2>1. Releasing(n)
    BY <1>1 DEF Releasing
  <2>2. ~Releasing(n)'
    BY <1>0, <1>1, <1>2, <1>3 DEF Releasing
  <2>3. QED
    BY <2>1, <2>2, <1>1, <1>2 DEF Releasing
<1>7. \A m \in Nodes : NodeArrived(m)' <=> NodeArrived(m)
  BY <1>0, <1>1, <1>2 DEF NodeArrived, ThreadsOf
<1>8. AwayNodes' = AwayNodes
  BY <1>7 DEF AwayNodes
<1>9. /\ Rearmed(n) /\ ~Rearmed(n)' /\ Passed(n) /\ ~Passed(n)'
      /\ \A m \in Nodes \ {n} : (Rearmed(m)' <=> Rearmed(m)) /\ (Passed(m)' <=> Passed(m))
  <2>1. Rearmed(n) /\ Passed(n)
    BY <1>0, <1>1 DEF Rearmed, Passed
  <2>2. ~Rearmed(n)' /\ ~Passed(n)'
    BY <1>2, <1>3 DEF Rearmed, Passed, ThreadsOf
  <2>3. \A m \in Nodes \ {n} : (Rearmed(m)' <=> Rearmed(m)) /\ (Passed(m)' <=> Passed(m))
    BY <1>0, <1>2 DEF Rearmed, Passed, ThreadsOf
  <2>4. QED
    BY <2>1, <2>2, <2>3
<1>10. TypeOK'
  BY <1>0, <1>2, NodeCards DEF Total
<1>11. LeaderInv'
  <2> SUFFICES ASSUME NEW u \in Threads
               PROVE  /\ at[u] = Global => leader'[u] /\ pc'[u] \notin {"out", "spin", "cleanup"}
                      /\ pc'[u] \in {"spin", "cleanup"} => leader'[u]
                      /\ pc'[u] \in {"reset", "store"} => leader'[u]
                      /\ leader'[u] => pc'[u] # "out" /\ ~(at[u] = NodeOf[u] /\ pc'[u] = "wait")
                      /\ leader'[u] =>
                          \A v \in Threads : NodeOf[v] = NodeOf[u] /\ v # u =>
                            ~leader'[v] /\ ~IsOutside(v)' /\ (pc'[u] # "spin" => HasArrived(v)')
    BY <1>2 DEF LeaderInv
  <2>1. CASE NodeOf[u] = n
    BY <2>1, <1>0, <1>1, <1>2, <1>3
  <2>2. CASE NodeOf[u] # n
    BY <2>2, <1>2, <1>4 DEF LeaderInv
  <2>3. QED
    BY <2>1, <2>2
<1>12. SomeoneLeads'
  BY <1>0, <1>2, <1>5 DEF SomeoneLeads, ThreadsOf
<1>13. GenerationInv'
  <2> SUFFICES ASSUME NEW u \in Threads
               PROVE  /\ pc'[u] \in {"dec", "reset", "store"} => state[u] = generation'[at[u]]
                      /\ pc'[u] = "wait" => generation'[at[u]] \in {state[u], state[u] + 1}
    BY <1>2 DEF GenerationInv
  <2>1. CASE u = t
    BY <2>1, <1>2
  <2>2. CASE u # t /\ at[u] = n
    <3>1. NodeOf[u] = n
      BY <2>2, <1>0
    <3>2. QED
      BY <2>2, <3>1, <1>0, <1>2, <1>3
  <2>3. CASE u # t /\ at[u] # n
    BY <2>3, <1>2 DEF GenerationInv
  <2>4. QED
    BY <2>1, <2>2, <2>3
<1>14. CountInv'
  <2>1. ASSUME NEW m \in Nodes
        PROVE  /\ remaining'[m] = IF Rearmed(m)' THEN Total(m) ELSE Cardinality(Outside(m)')
               /\ awaited'[m] = IF Releasing(m)' THEN Total(m) ELSE Cardinality(Away(m)')
    <3>1. CASE m = n
      BY <3>1, <1>0, <1>2, <1>5, <1>6, <1>9, NodeCards DEF CountInv
    <3>2. CASE m # n
      BY <3>2, <1>2, <1>5, <1>6, <1>9 DEF CountInv, Barriers
    <3>3. QED
      BY <3>1, <3>2
  <2>2. awaited'[Global] = IF Releasing(Global)' THEN Total(Global) ELSE Cardinality(AwayNodes')
    BY <1>0, <1>2, <1>6, <1>8 DEF CountInv
  <2>3. QED
    BY <2>1, <2>2 DEF CountInv, Total
<1>15. GlobalInv'
  BY <1>0, <1>1, <1>2, <1>7 DEF GlobalInv
<1>16. RoundInv'
  <2>1. \A u \in Threads :
          generation'[NodeOf[u]] =
            IF IsOutside(u)' /\ pc'[u] # "out" THEN left'[u] + 1 ELSE left'[u]
    <3> SUFFICES ASSUME NEW u \in Threads
                 PROVE  generation'[NodeOf[u]] =
                          IF IsOutside(u)' /\ pc'[u] # "out" THEN left'[u] + 1 ELSE left'[u]
      OBVIOUS
    <3>1. CASE u = t
      BY <3>1, <1>0, <1>1, <1>2 DEF RoundInv, IsOutside
    <3>2. CASE u # t /\ NodeOf[u] = n
      BY <3>2, <1>0, <1>2, <1>3, <1>4 DEF RoundInv
    <3>3. CASE NodeOf[u] # n
      BY <3>3, <1>0, <1>2, <1>4 DEF RoundInv, Barriers
    <3>4. QED
      BY <3>1, <3>2, <3>3
  <2>2. ASSUME NEW m \in Nodes
        PROVE  generation'[Global] = IF Passed(m)' THEN generation'[m] + 1 ELSE generation'[m]
    BY <1>0, <1>2, <1>9 DEF RoundInv, Barriers
  <2>3. QED
    BY <2>1, <2>2 DEF RoundInv
<1>17. QED
  BY <1>10, <1>11, <1>12, <1>13, <1>14, <1>15, <1>16

\* Publishing the new generation of the global barrier: every other leader is
\* parked there and passes.
LEMMA GlobalStoreStep ==
  ASSUME IInv, NEW t \in Threads, LastStoreGeneration(t), at[t] = Global
  PROVE  IInv'
<1> DEFINE n == NodeOf[t]
<1> USE DEF IInv, TypeOK
<1>0. n \in Nodes /\ t \in ThreadsOf(n) /\ n # Global /\ n \in Barriers /\ Global \in Barriers
  BY DEF ThreadsOf, Barriers
<1>1. pc[t] = "store" /\ at[t] = Global /\ leader[t] /\ state[t] = generation[Global]
  BY DEF LastStoreGeneration, GenerationInv, LeaderInv
<1>2. /\ \A u \in Threads \ {t} : pc'[u] = pc[u] /\ at'[u] = at[u]
      /\ UNCHANGED <<remaining, awaited, leader, state, left>>
      /\ pc'[t] = "cleanup" /\ at'[t] = n
      /\ pc' \in [Threads -> PCs] /\ at' \in [Threads -> Barriers]
      /\ generation' = [generation EXCEPT ![Global] = generation[Global] + 1]
  <2>1. /\ UNCHANGED <<remaining, awaited, leader, state, left>>
        /\ pc' = [pc EXCEPT ![t] = "cleanup"]
        /\ at' = [at EXCEPT ![t] = n]
        /\ generation' = [generation EXCEPT ![Global] = state[t] + 1]
    BY <1>0, <1>1 DEF LastStoreGeneration, Return, Goto
  <2>2. "cleanup" \in PCs
    BY DEF PCs
  <2>3. QED
    BY <2>1, <2>2, <1>0, <1>1
<1>3. \A u \in Threads : NodeOf[u] = n /\ u # t => ~leader[u] /\ ~IsOutside(u) /\ HasArrived(u)
  BY <1>1 DEF LeaderInv
<1>4. \A m \in Nodes : generation'[m] = generation[m]
  BY <1>0, <1>2 DEF Barriers
<1>5. \A u \in Threads : (IsOutside(u)' <=> IsOutside(u)) /\ (HasArrived(u)' <=> HasArrived(u))
  BY <1>0, <1>1, <1>2, <1>4 DEF IsOutside, HasArrived
<1>6. \A m \in Nodes : Outside(m)' = Outside(m) /\ Away(m)' = Away(m)
  BY <1>5 DEF Outside, Away, ThreadsOf
\* Whoever else is in the global barrier is parked there.
<1>7. \A u \in Threads : at[u] = Global /\ u # t /\ pc[u] \notin {"load", "dec"} =>
        pc[u] = "wait" /\ state[u] \in {generation[Global], generation[Global] - 1}
  BY <1>1 DEF LeaderInv, GlobalInv, GenerationInv, PCs
<1>8. ASSUME NEW m \in Nodes, m # n
      PROVE  \E u \in ThreadsOf(m) : /\ at[u] = Global /\ pc[u] = "wait" /\ leader[u]
                                     /\ state[u] = generation[Global]
  <2>1. NodeArrived(m)
    BY <1>1, <1>8 DEF GlobalInv
  <2>2. PICK u \in ThreadsOf(m) : /\ at[u] = Global
                                  /\ pc[u] = "reset" \/ (pc[u] = "wait" /\ state[u] = generation[Global])
    BY <2>1 DEF NodeArrived
  <2>3. u \in Threads /\ NodeOf[u] = m /\ u # t
    BY <1>8 DEF ThreadsOf
  <2>4. QED
    BY <2>2, <2>3, <1>7 DEF LeaderInv
<1>9. \A m \in Nodes : ~Passed(m) /\ Passed(m)'
  <2>1. ~Passed(n) /\ Passed(n)'
    BY <1>0, <1>1, <1>2, <1>3 DEF Passed, ThreadsOf
  <2>2. ASSUME NEW m \in Nodes, m # n
        PROVE  ~Passed(m) /\ Passed(m)'
    <3>1. PICK u \in ThreadsOf(m) : /\ at[u] = Global /\ pc[u] = "wait" /\ leader[u]
                                    /\ state[u] = generation[Global]
      BY <2>2, <1>8
    <3>2. u \in Threads /\ NodeOf[u] = m /\ u # t
      BY <2>2 DEF ThreadsOf
    <3>3. \A v \in ThreadsOf(m) : v # u => ~leader[v]
      BY <3>1, <3>2 DEF LeaderInv, ThreadsOf
    <3>4. ~Passed(m)
      BY <3>1, <3>3, <1>0 DEF Passed
    <3>5. Passed(m)'
      BY <3>1, <3>2, <1>0, <1>2 DEF Passed
    <3>6. QED
      BY <3>4, <3>5
  <2>3. QED
    BY <2>1, <2>2
<1>10. AwayNodes' = Nodes
  <2> SUFFICES ASSUME NEW m \in Nodes PROVE ~NodeArrived(m)'
    BY DEF AwayNodes
  <2> SUFFICES ASSUME NEW u \in ThreadsOf(m), at'[u] = Global
               PROVE  ~(pc'[u] = "reset" \/ (pc'[u] = "wait" /\ state[u] = generation'[Global]))
    BY <1>2 DEF NodeArrived, ThreadsOf
  <2>1. u \in Threads /\ u # t
    BY <1>0, <1>2 DEF ThreadsOf
  <2>2. QED
    BY <2>1, <1>0, <1>2, <1>7
<1>11. /\ Releasing(Global) /\ ~Releasing(Global)'
       /\ \A c \in Nodes : Releasing(c)' <=> Releasing(c)
  <2>1. Releasing(Global)
    BY <1>1 DEF Releasing
  <2>2. ~Releasing(Global)'
    BY <1>0, <1>2, <1>7 DEF Releasing
  <2>3. \A c \in Nodes : Releasing(c)' <=> Releasing(c)
    BY <1>1, <1>2 DEF Releasing
  <2>4. QED
    BY <2>1, <2>2, <2>3
<1>12. \A m \in Nodes : Rearmed(m)' <=> Rearmed(m)
  BY <1>0, <1>1, <1>2 DEF Rearmed, ThreadsOf
<1>13. TypeOK'
  BY <1>0, <1>2, NodeCards DEF Total
<1>14. LeaderInv'
  BY <1>0, <1>1, <1>2, <1>3, <1>5 DEF LeaderInv
<1>15. SomeoneLeads'
  BY <1>2, <1>6 DEF SomeoneLeads, ThreadsOf
<1>16. GenerationInv'
  <2> SUFFICES ASSUME NEW u \in Threads
               PROVE  /\ pc'[u] \in {"dec", "reset", "store"} => state[u] = generation'[at'[u]]
                      /\ pc'[u] = "wait" => generation'[at'[u]] \in {state[u], state[u] + 1}
    BY <1>2 DEF GenerationInv
  <2>1. CASE u = t
    BY <2>1, <1>2
  <2>2. CASE u # t /\ at[u] = Global
    <3>1. NodeOf[u] # n /\ NodeOf[u] \in Nodes
      BY <2>2, <1>3 DEF LeaderInv
    <3>2. PICK v \in ThreadsOf(NodeOf[u]) : /\ at[v] = Global /\ pc[v] = "wait" /\ leader[v]
                                            /\ state[v] = generation[Global]
      BY <3>1, <1>8
    <3>3. v = u
      BY <2>2, <3>2 DEF LeaderInv, ThreadsOf
    <3>4. QED
      BY <2>2, <3>2, <3>3, <1>0, <1>2
  <2>3. CASE u # t /\ at[u] # Global
    BY <2>3, <1>2 DEF GenerationInv
  <2>4. QED
    BY <2>1, <2>2, <2>3
<1>17. CountInv'
  <2>1. ASSUME NEW m \in Nodes
        PROVE  /\ remaining'[m] = IF Rearmed(m)' THEN Total(m) ELSE Cardinality(Outside(m)')
               /\ awaited'[m] = IF Releasing(m)' THEN Total(m) ELSE Cardinality(Away(m)')
    BY <1>2, <1>6, <1>11, <1>12 DEF CountInv, Barriers
  <2>2. awaited'[Global] = IF Releasing(Global)' THEN Total(Global) ELSE Cardinality(AwayNodes')
    BY <1>0, <1>2, <1>10, <1>11, GlobalCards DEF CountInv
  <2>3. QED
    BY <2>1, <2>2 DEF CountInv, Total
<1>18. GlobalInv'
  BY <1>0, <1>2, <1>7 DEF GlobalInv
<1>19. RoundInv'
  <2>1. \A u \in Threads :
          generation'[NodeOf[u]] =
            IF IsOutside(u)' /\ pc'[u] # "out" THEN left'[u] + 1 ELSE left'[u]
    BY <1>1, <1>2, <1>4, <1>5 DEF RoundInv
  <2>2. \A m \in Nodes :
          generation'[Global] = IF Passed(m)' THEN generation'[m] + 1 ELSE generation'[m]
    BY <1>0, <1>2, <1>4, <1>9 DEF RoundInv
  <2>3. QED
    BY <2>1, <2>2 DEF RoundInv
<1>20. QED
  BY <1>13, <1>14, <1>15, <1>16, <1>17, <1>18, <1>19

\* A released thread leaves its node's barrier.
LEMMA NodeWaitEndStep ==
  ASSUME IInv, NEW t \in Threads, WaitEnd(t), at[t] = NodeOf[t]
  PROVE  IInv'
<1> DEFINE n == NodeOf[t]
<1> USE DEF IInv, TypeOK
<1>0. n \in Nodes /\ t \in ThreadsOf(n) /\ n # Global /\ n \in Barriers /\ Global \in Barriers
  BY DEF ThreadsOf, Barriers
<1>1. pc[t] = "wait" /\ at[t] = n /\ ~leader[t] /\ generation[n] = state[t] + 1
  BY DEF WaitEnd, LeaderInv
<1>2. /\ \A u \in Threads \ {t} : pc'[u] = pc[u] /\ left'[u] = left[u]
      /\ UNCHANGED <<remaining, awaited, generation, at, leader, state>>
      /\ pc'[t] = "out" /\ left'[t] = left[t] + 1
      /\ pc' \in [Threads -> PCs] /\ left' \in [Threads -> Nat]
  <2>1. /\ UNCHANGED <<remaining, awaited, generation, at, state>>
        /\ pc' = [pc EXCEPT ![t] = "out"]
        /\ leader' = [leader EXCEPT ![t] = FALSE]
        /\ left' = [left EXCEPT ![t] = @ + 1]
    BY <1>0, <1>1 DEF WaitEnd, Return, Goto
  <2>2. leader' = leader
    BY <2>1, <1>1
  <2>3. "out" \in PCs
    BY DEF PCs
  <2>4. QED
    BY <2>1, <2>2, <2>3, <1>0, <1>1
<1>3. IsOutside(t) /\ IsOutside(t)' /\ ~HasArrived(t) /\ ~HasArrived(t)'
  BY <1>0, <1>1, <1>2 DEF IsOutside, HasArrived
<1>4. \A u \in Threads : (IsOutside(u)' <=> IsOutside(u)) /\ (HasArrived(u)' <=> HasArrived(u))
  BY <1>2, <1>3 DEF IsOutside, HasArrived
<1>5. \A m \in Nodes : Outside(m)' = Outside(m) /\ Away(m)' = Away(m)
  BY <1>4 DEF Outside, Away, ThreadsOf
<1>6. \A c \in Barriers : Releasing(c)' <=> Releasing(c)
  BY <1>1, <1>2 DEF Releasing
<1>7. \A m \in Nodes : NodeArrived(m)' <=> NodeArrived(m)
  BY <1>0, <1>1, <1>2 DEF NodeArrived, ThreadsOf
<1>8. AwayNodes' = AwayNodes
  BY <1>7 DEF AwayNodes
<1>9. \A m \in Nodes : (Rearmed(m)' <=> Rearmed(m)) /\ (Passed(m)' <=> Passed(m))
  BY <1>0, <1>1, <1>2 DEF Rearmed, Passed, ThreadsOf
<1>10. TypeOK'
  BY <1>0, <1>2, NodeCards DEF Total
<1>11. LeaderInv'
  BY <1>0, <1>1, <1>2, <1>4 DEF LeaderInv
<1>12. SomeoneLeads'
  BY <1>2, <1>5 DEF SomeoneLeads, ThreadsOf
<1>13. GenerationInv'
  BY <1>1, <1>2 DEF GenerationInv
<1>14. CountInv'
  BY <1>0, <1>2, <1>5, <1>6, <1>8, <1>9 DEF CountInv, Total, Barriers
<1>15. GlobalInv'
  BY <1>1, <1>2, <1>7 DEF GlobalInv
<1>16. RoundInv'
  BY <1>1, <1>2, <1>3, <1>4, <1>9 DEF RoundInv
<1>17. QED
  BY <1>10, <1>11, <1>12, <1>13, <1>14, <1>15, <1>16

\* A released leader leaves the global barrier.
LEMMA GlobalWaitEndStep ==
  ASSUME IInv, NEW t \in Threads, WaitEnd(t), at[t] = Global
  PROVE  IInv'
<1> DEFINE n == NodeOf[t]
<1> USE DEF IInv, TypeOK
<1>0. n \in Nodes /\ t \in ThreadsOf(n) /\ n # Global /\ n \in Barriers /\ Global \in Barriers
  BY DEF ThreadsOf, Barriers
<1>1. pc[t] = "wait" /\ at[t] = Global /\ leader[t] /\ generation[Global] = state[t] + 1
  BY DEF WaitEnd, LeaderInv
<1>2. /\ \A u \in Threads \ {t} : pc'[u] = pc[u] /\ at'[u] = at[u]
      /\ UNCHANGED <<remaining, awaited, generation, leader, state, left>>
      /\ pc'[t] = "cleanup" /\ at'[t] = n
      /\ pc' \in [Threads -> PCs] /\ at' \in [Threads -> Barriers]
  <2>1. /\ UNCHANGED <<remaining, awaited, generation, leader, state, left>>
        /\ pc' = [pc EXCEPT ![t] = "cleanup"]
        /\ at' = [at EXCEPT ![t] = n]
    BY <1>0, <1>1 DEF WaitEnd, Return, Goto
  <2>2. "cleanup" \in PCs
    BY DEF PCs
  <2>3. QED
    BY <2>1, <2>2, <1>0, <1>1
<1>3. \A u \in Threads : NodeOf[u] = n /\ u # t => ~leader[u] /\ ~IsOutside(u) /\ HasArrived(u)
  BY <1>1 DEF LeaderInv
<1>4. \A u \in Threads : (IsOutside(u)' <=> IsOutside(u)) /\ (HasArrived(u)' <=> HasArrived(u))
  BY <1>0, <1>1, <1>2 DEF IsOutside, HasArrived
<1>5. \A m \in Nodes : Outside(m)' = Outside(m) /\ Away(m)' = Away(m)
  BY <1>4 DEF Outside, Away, ThreadsOf
<1>6. \A c \in Barriers : Releasing(c)' <=> Releasing(c)
  BY <1>1, <1>2 DEF Releasing
<1>7. \A m \in Nodes : NodeArrived(m)' <=> NodeArrived(m)
  BY <1>0, <1>1, <1>2 DEF NodeArrived, ThreadsOf
<1>8. AwayNodes' = AwayNodes
  BY <1>7 DEF AwayNodes
<1>9. \A m \in Nodes : (Rearmed(m)' <=> Rearmed(m)) /\ (Passed(m)' <=> Passed(m))
  <2>1. Passed(n) /\ Passed(n)'
    BY <1>0, <1>1, <1>2 DEF Passed
  <2>2. \A m \in Nodes \ {n} : Passed(m)' <=> Passed(m)
    BY <1>0, <1>2 DEF Passed, ThreadsOf
  <2>3. \A m \in Nodes : Rearmed(m)' <=> Rearmed(m)
    BY <1>0, <1>1, <1>2 DEF Rearmed, ThreadsOf
  <2>4. QED
    BY <2>1, <2>2, <2>3
<1>10. TypeOK'
  BY <1>0, <1>2, NodeCards DEF Total
<1>11. LeaderInv'
  BY <1>0, <1>1, <1>2, <1>3, <1>4 DEF LeaderInv
<1>12. SomeoneLeads'
  BY <1>2, <1>5 DEF SomeoneLeads, ThreadsOf
<1>13. GenerationInv'
  BY <1>1, <1>2 DEF GenerationInv
<1>14. CountInv'
  BY <1>0, <1>2, <1>5, <1>6, <1>8, <1>9 DEF CountInv, Total, Barriers
<1>15. GlobalInv'
  BY <1>0, <1>1, <1>2, <1>7 DEF GlobalInv
<1>16. RoundInv'
  BY <1>1, <1>2, <1>4, <1>9 DEF RoundInv
<1>17. QED
  BY <1>10, <1>11, <1>12, <1>13, <1>14, <1>15, <1>16

LEMMA StutterIInv == IInv /\ UNCHANGED vars => IInv'
<1> SUFFICES ASSUME IInv, UNCHANGED vars PROVE IInv'
  OBVIOUS
<1> USE DEF vars
<1>1. TypeOK' /\ LeaderInv' /\ GenerationInv'
  BY DEF IInv, TypeOK, LeaderInv, GenerationInv, IsOutside, HasArrived, Total
<1>2. GlobalInv'
  BY DEF IInv, GlobalInv, NodeArrived, ThreadsOf
<1>3. SomeoneLeads'
  BY DEF IInv, SomeoneLeads, Outside, IsOutside, ThreadsOf
<1>4. RoundInv'
  BY DEF IInv, RoundInv, IsOutside, Passed, ThreadsOf
<1>5. CountInv'
  <2>1. \A m \in Nodes : /\ Outside(m)' = Outside(m)
                         /\ Away(m)' = Away(m)
                         /\ Rearmed(m)' <=> Rearmed(m)
    BY DEF Outside, Away, Rearmed, IsOutside, HasArrived, ThreadsOf
  <2>2. AwayNodes' = AwayNodes /\ \A b \in Barriers : Releasing(b)' <=> Releasing(b)
    BY DEF AwayNodes, NodeArrived, Releasing, ThreadsOf
  <2>3. QED
    BY <2>1, <2>2 DEF IInv, CountInv, Total, Barriers
<1>6. QED
  BY <1>1, <1>2, <1>3, <1>4, <1>5 DEF IInv

LEMMA NextIInv == IInv /\ [Next]_vars => IInv'
<1> SUFFICES ASSUME IInv, [Next]_vars PROVE IInv'
  OBVIOUS
<1>1. ASSUME NEW t \in Threads, ThreadStep(t) PROVE IInv'
  <2>1. at[t] = NodeOf[t] \/ at[t] = Global
    BY DEF IInv, TypeOK
  <2>2. CASE SelectLeaderSynchronous(t)
    BY <2>2, SelectLeaderStep
  <2>3. CASE LeaderSpin(t)
    BY <2>3, LeaderSpinStep
  <2>4. CASE LeaderCleanup(t)
    BY <2>4, LeaderCleanupStep
  <2>5. CASE WaitStartLoad(t)
    BY <2>5, WaitStartLoadStep
  <2>6. CASE WaitStartDecrement(t)
    BY <2>1, <2>6, NodeDecrementStep, GlobalDecrementStep
  <2>7. CASE LastReset(t)
    BY <2>7, LastResetStep
  <2>8. CASE LastStoreGeneration(t)
    BY <2>1, <2>8, NodeStoreStep, GlobalStoreStep
  <2>9. CASE WaitEnd(t)
    BY <2>1, <2>9, NodeWaitEndStep, GlobalWaitEndStep
  <2>10. QED
    BY <1>1, <2>2, <2>3, <2>4, <2>5, <2>6, <2>7, <2>8, <2>9 DEF ThreadStep
<1>2. CASE RegionDone \/ UNCHANGED vars
  BY <1>2, StutterIInv DEF RegionDone
<1>3. QED
  BY <1>1, <1>2 DEF Next

-----------------------------------------------------------------------------
(* Theorems                                                                *)

\* IInv is an invariant: the counters of every barrier account exactly for the
\* threads still to come, whatever atomic operations are in flight.
THEOREM InvariantHolds == Spec => []IInv
<1>1. Init => IInv
  BY InitIInv
<1>2. IInv /\ [Next]_vars => IInv'
  BY NextIInv
<1>3. QED
  BY <1>1, <1>2, PTL DEF Spec

\* The counters and generations of the barriers stay within their ranges.
THEOREM TypeCorrect == Spec => []TypeOK
<1>1. IInv => TypeOK
  BY DEF IInv
<1>2. QED
  BY <1>1, InvariantHolds, PTL

\* What IInv says of the rounds orders left and Entered through the node's and
\* the global generation.
LEMMA IInvSeparation == IInv => BarrierSeparation
<1> SUFFICES ASSUME IInv, NEW t \in Threads, NEW u \in Threads
             PROVE  left[t] <= Entered(u)
  BY DEF BarrierSeparation
<1> USE DEF IInv, TypeOK
<1>1. NodeOf[t] \in Nodes /\ NodeOf[u] \in Nodes
  OBVIOUS
<1>2. left[t] <= generation[Global]
  BY <1>1 DEF RoundInv, Barriers
<1>3. generation[Global] <= Entered(u)
  <2>1. CASE ~Passed(NodeOf[u])
    BY <2>1, <1>1 DEF RoundInv, Entered, Barriers
  <2>2. CASE Passed(NodeOf[u])
    <3>1. PICK w \in ThreadsOf(NodeOf[u]) : leader[w]
      BY <2>2 DEF Passed
    <3>2. w \in Threads /\ NodeOf[w] = NodeOf[u]
      BY DEF ThreadsOf
    <3>3. pc[u] # "out" /\ ~IsOutside(u)
      <4>1. CASE w = u
        BY <4>1, <3>1 DEF LeaderInv, IsOutside
      <4>2. CASE w # u
        BY <4>2, <3>1, <3>2 DEF LeaderInv, IsOutside
      <4>3. QED
        BY <4>1, <4>2
    <3>4. QED
      BY <2>2, <3>3, <1>1 DEF RoundInv, Entered, Barriers
  <2>3. QED
    BY <2>1, <2>2
<1>4. generation[Global] \in Nat /\ Entered(u) \in Nat /\ left[t] \in Nat
  BY DEF Barriers, Entered
<1>5. QED
  BY <1>2, <1>3, <1>4

\* No thread leaves a barrier that some thread has not entered.
THEOREM Separation == Spec => []BarrierSeparation
BY InvariantHolds, IInvSeparation, PTL

\* A leader is at the global barrier only while the rest of its node is parked
\* in the node's barrier (the purpose hierarchy.c:271 states for the spin).
THEOREM Parking == Spec => []ParkedBeforeGlobal
<1>1. IInv => ParkedBeforeGlobal
  <2> SUFFICES ASSUME IInv, NEW t \in Threads, NEW u \in Threads,
                      at[t] = Global, NodeOf[u] = NodeOf[t], u # t
               PROVE  Parked(u, NodeOf[u])
    BY DEF ParkedBeforeGlobal
  <2>1. leader[t] /\ pc[t] # "spin"
    BY DEF IInv, LeaderInv
  <2>2. HasArrived(u) /\ ~leader[u]
    BY <2>1 DEF IInv, LeaderInv
  <2>3. QED
    BY <2>2 DEF IInv, LeaderInv, HasArrived, Parked
<1>2. QED
  BY <1>1, InvariantHolds, PTL

\* No waiter is ever two generations behind its barrier, hence the exact test
\* for state + BAR_INCR cannot strand it.
THEOREM NoStrandedWaiter == Spec => []AtMostOneBehind
<1>1. IInv => AtMostOneBehind
  BY DEF IInv, GenerationInv, AtMostOneBehind
<1>2. QED
  BY <1>1, InvariantHolds, PTL

-----------------------------------------------------------------------------
(* Refinement of the flat barrier                                          *)

\* Leaving a node's barrier is a departure of the flat barrier.
LEMMA DepartStep ==
  ASSUME IInv, BarrierSeparation', NEW t \in Threads,
         LastStoreGeneration(t) \/ WaitEnd(t), at[t] = NodeOf[t]
  PROVE  Abstract!Depart(t)
<1> USE DEF IInv, TypeOK
<1>0. NodeOf[t] # Global
  OBVIOUS
<1>1. /\ pc[t] \in {"store", "wait"}
      /\ pc' = [pc EXCEPT ![t] = "out"]
      /\ left' = [left EXCEPT ![t] = left[t] + 1]
  BY <1>0 DEF LastStoreGeneration, WaitEnd, Return, Goto
<1>2. \A u \in Threads : Entered(u)' = Entered(u)
  BY <1>1 DEF Entered
<1>3. \A u \in Threads : left'[t] <= Entered(u)'
  BY DEF BarrierSeparation
<1>4. Entered(t) = left[t] + 1 /\ left'[t] = left[t] + 1
  BY <1>1 DEF Entered
<1>5. \A u \in Threads : Entered(t) <= Entered(u)
  BY <1>2, <1>3, <1>4
<1>6. [u \in Threads |-> Entered(u)]' = [u \in Threads |-> Entered(u)]
  BY <1>2
<1>7. QED
  BY <1>1, <1>4, <1>5, <1>6 DEF Abstract!Depart

\* Every execution of the hierarchical barrier is one of a flat barrier over
\* the team.
THEOREM Refinement == Spec => ImplementsBarrier
<1>1. Init => Abstract!Init
  BY DEF Init, Abstract!Init, Entered
<1>2. IInv /\ BarrierSeparation' /\ [Next]_vars => [Abstract!Next]_(Abstract!vars)
  <2> SUFFICES ASSUME IInv, BarrierSeparation', [Next]_vars
               PROVE  [Abstract!Next]_(Abstract!vars)
    OBVIOUS
  <2> USE DEF IInv, TypeOK
  <2>1. ASSUME NEW t \in Threads, SelectLeaderSynchronous(t)
        PROVE  Abstract!Arrive(t)
    <3>1. pc[t] = "out" /\ UNCHANGED left
      BY <2>1 DEF SelectLeaderSynchronous
    <3>2. pc'[t] # "out" /\ \A u \in Threads \ {t} : pc'[u] = pc[u]
      BY <2>1 DEF SelectLeaderSynchronous, Goto
    <3>3. /\ Entered(t) = left[t] /\ Entered(t)' = Entered(t) + 1
          /\ \A u \in Threads \ {t} : Entered(u)' = Entered(u)
      BY <3>1, <3>2 DEF Entered
    <3>4. [u \in Threads |-> Entered(u)]' =
            [[u \in Threads |-> Entered(u)] EXCEPT ![t] = @ + 1]
      BY <3>3
    <3>5. QED
      BY <3>1, <3>3, <3>4 DEF Abstract!Arrive
  <2>2. ASSUME NEW t \in Threads,
               \/ LeaderSpin(t) \/ LeaderCleanup(t) \/ WaitStartLoad(t)
               \/ WaitStartDecrement(t) \/ LastReset(t)
               \/ (LastStoreGeneration(t) \/ WaitEnd(t)) /\ at[t] = Global
        PROVE  UNCHANGED Abstract!vars
    <3>1. UNCHANGED left
      BY <2>2 DEF LeaderSpin, LeaderCleanup, WaitStartLoad, WaitStartDecrement,
                  LastReset, LastStoreGeneration, WaitEnd, Return
    <3>2. pc[t] # "out" /\ pc'[t] # "out" /\ \A u \in Threads \ {t} : pc'[u] = pc[u]
      BY <2>2 DEF LeaderSpin, LeaderCleanup, WaitStartLoad, WaitStartDecrement,
                  LastReset, LastStoreGeneration, WaitEnd, Return, Goto
    <3>3. \A u \in Threads : Entered(u)' = Entered(u)
      BY <3>1, <3>2 DEF Entered
    <3>4. QED
      BY <3>1, <3>3 DEF Abstract!vars
  <2>3. ASSUME NEW t \in Threads, ThreadStep(t)
        PROVE  Abstract!Next \/ UNCHANGED Abstract!vars
    <3>1. at[t] = NodeOf[t] \/ at[t] = Global
      OBVIOUS
    <3>2. CASE (LastStoreGeneration(t) \/ WaitEnd(t)) /\ at[t] = NodeOf[t]
      BY <3>2, DepartStep DEF Abstract!Next
    <3>3. QED
      BY <2>1, <2>2, <2>3, <3>1, <3>2 DEF ThreadStep, Abstract!Next
  <2>4. UNCHANGED vars => UNCHANGED Abstract!vars
    BY DEF vars, Abstract!vars, Entered
  <2>5. QED
    BY <2>3, <2>4 DEF Next, RegionDone
<1>3. QED
  BY <1>1, <1>2, InvariantHolds, Separation, PTL DEF Spec, ImplementsBarrier, Abstract!Spec
=============================================================================
