SPECIFICATION MCSpec
CONSTANTS
  AddrSpace = 8
  RowSize = 2
  PatternDepth = 2
  AddressFifoDepth = 2
  ErrorFifoDepth = 1
  HostGap = 3
  ReaderConfigs <- MCConfigs
  Contents <- MCContents
  Disturbances <- MCDisturbances
INVARIANTS WritesPattern QueuesInStep ErrorCountExact ReturnsAllErrors AssertionsHold
PROPERTY Returns
