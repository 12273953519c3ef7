SPECIFICATION FairSpec
CONSTANTS
  Groups = {0, 1}
  Banks = {0, 1, 2, 3, 4}
  Timings <- MCTimings
  Programs <- MCPrograms
  Streams <- MCStreams
  MaxOffset = 3
  MaxCount = 3
  MaxSlice = 4
  SliceMod = 3
  LoopMod = 3
  StreamBound = 6
  TickBound = 60
INVARIANTS CyclesAgree AcceptsOnlyLegal AllowsLegal
PROPERTIES GivesVerdict
CHECK_DEADLOCK FALSE
