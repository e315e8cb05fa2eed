SPECIFICATION FairSpec
CONSTANTS
  NodeCount = 2
  Places <- TwoAndTwo
  TeamSizes <- SameTeam
  InRegionBarriers = 1
  KillRegion = 9
  Preferred = 0
INVARIANTS RegionsInOrder NoStrandedWaiter OnlyExtrasExit HomeBeforeExit
PROPERTIES QuiescentReinit Termination
