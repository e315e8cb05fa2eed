SPECIFICATION FairSpec
CONSTANTS
  Functions = {"shim", "scan", "fill", "copy", "leaf", "start"}
  Live <- Sites
  Layout <- Layouts
  CalleeSaved <- Preserved
  Programs <- OneProgram
  HalfSize = 40
PROPERTIES RewriteAlwaysEnds
