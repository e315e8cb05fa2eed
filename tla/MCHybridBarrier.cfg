SPECIFICATION FairSpec
CONSTANTS
  n0 = n0
  n1 = n1
  t0 = t0
  t1 = t1
  t2 = t2
  t3 = t3
  t4 = t4
  Nodes = {n0, n1}
  Threads = {t0, t1, t2, t3, t4}
  NodeOf <- Placement
  Global = Global
  MaxRounds = 3
INVARIANTS BarrierSeparation ParkedBeforeGlobal AtMostOneBehind IInv
PROPERTIES ImplementsBarrier EveryoneLeaves
