SPECIFICATION ExecuteSpec
CONSTANTS
  Depth = 4
  LoopMod = 4
  RefMod = 3
  RdPhase = 2
  ScratchDepth = 2
  ReadLatency = 2
  HostGap = 3
  Programs <- MCAllPrograms
  Payloads <- MCReads
INVARIANT ReadsBack
