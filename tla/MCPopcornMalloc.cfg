SPECIFICATION FairSpec
CONSTANTS
  t0 = t0
  t1 = t1
  n0 = n0
  n1 = n1
  Threads = {t0, t1}
  Nodes = {n0}
  NoNode = NoNode
  ArenaUnits = 7300
  Requests <- FewSizes
  MaxCalls = 4
  OtherBlocks = 1
  None = None
INVARIANTS BinsSound NothingLost
PROPERTIES ImplementsHeaps EveryoneReturns
