SPECIFICATION Spec
CONSTANTS
  NodeCount = 2
  Places <- TwoAndTwo
  TeamSizes <- TwoRegions
  InRegionBarriers = 1
  KillRegion = 1
  Preferred = 0
INVARIANTS OnlyPreferredExecutes
CHECK_DEADLOCK FALSE
