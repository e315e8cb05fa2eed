SPECIFICATION FairSpec
CONSTANTS
  Threads = {"t0", "t1"}
  Nodes = {0, 1, 2, 3, 4}
  ArchOf <- NodeArch
  Online = {0, 1, 2, 3}
  Origin = 0
  Handles = {"x86_64", "aarch64"}
  MayRefuse <- SameArch
  ReentryNid <- Zero
  Ptid <- Tids
  Mappings <- Schedule
  Proposals = {1, 2}
  Nids <- SomeNids
  MaxCalls = 2
  MaxSignals = 1
CHECK_DEADLOCK FALSE
 
PROPERTIES  CallsReturn
