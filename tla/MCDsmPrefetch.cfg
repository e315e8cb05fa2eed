SPECIFICATION FairSpec
CONSTANTS
  t0 = t0
  t1 = t1
  Threads = {t0, t1}
  MaxPage = 3
  MaxRequests = 3
  MaxExecutes = 2
  None = None
INVARIANTS ListsApart PointersAlive
PROPERTIES ImplementsQueue EveryoneReturns
