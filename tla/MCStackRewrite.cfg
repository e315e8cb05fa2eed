SPECIFICATION FairSpec
CONSTANTS
  Functions = {"shim", "scan", "fill", "copy", "leaf", "start"}
  Live <- Sites
  Layout <- Layouts
  CalleeSaved <- Preserved
  Programs <- AllPrograms
  HalfSize = 40
 
PROPERTIES OnlyDestination RewriteEnds
