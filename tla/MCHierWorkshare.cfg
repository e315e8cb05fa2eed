SPECIFICATION FairSpec
CONSTANTS
  t0 = t0
  t1 = t1
  t2 = t2
  Nodes = {0, 1}
  Threads = {t0, t1, t2}
  NodeOf <- PlacementOf
  TeamId <- Numbers
  Regions <- MixedAndProbed
  Part <- PartOf
  PreferredPart <- PreferredPartOf
  Preferred = 0
  MaxProbes = 1
  PrimeRegion = "a"
  Cache <- EmptyCache
  ProbeTimes = {1, 2}
  LongBits = 8
  FloatBits = 8
  None = None
INVARIANTS EachIterationOnce LoopComplete  InitialisedInUse
PROPERTY EveryoneFinishes
