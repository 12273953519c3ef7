SPECIFICATION Spec
CONSTANTS
  nmodules = 2
  bitslips = 2
  delays = 3
  Eyes <- MCEyes
INVARIANT LeveledModulesRead
CHECK_DEADLOCK FALSE
