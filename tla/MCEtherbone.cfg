SPECIFICATION Spec
CONSTANTS
  c1 = c1
  c2 = c2
  Clients = {c1, c2}
  Base <- MCBase
  NumWords = 3
  RefData <- MCRefData
  CountMod = 3
  Burst = 2
  SocketBuffer = 2
  Strays <- MCStrays
  StrayBound = 1
INVARIANT MemcheckExact
PROPERTY ScriptsEnd
CHECK_DEADLOCK FALSE
