SPECIFICATION MCSpec
CONSTANTS
  Depth = 4
  LoopMod = 4
  RefMod = 3
  RdPhase = 0
  ScratchDepth = 2
  ReadLatency = 2
  HostGap = 3
  Programs <- MCAllPrograms
  Payloads <- MCSpacedReads
INVARIANTS TypeOK OwnsBus NoCommandLost StartsClean SpacedReadsBack
PROPERTIES SwitchedAtRefresh Completes ImplementsMachine ScriptReturns
