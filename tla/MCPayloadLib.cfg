SPECIFICATION LibSpec
CONSTANTS
  Depth = 64
  LoopMod = 4
  JumpMod = 64
  SliceMod = 8
  NoopMod = 32
  Requests <- MCRequests
  IdleRequests <- MCIdleRequests
INVARIANTS HammersEachRow GeneratedWellFormed KeepsTimings HammersWithinInterval ReportsMatch IdlesExactly
CHECK_DEADLOCK FALSE
