SPECIFICATION Spec
CONSTANTS
  NodeCount = 2
  Places <- TwoAndTwo
  TeamSizes <- SerialAfter
  InRegionBarriers = 1
  KillRegion = 9
  Preferred = 0
INVARIANT NoStrandedWaiter
