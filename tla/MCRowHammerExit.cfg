SPECIFICATION FairSpec
CONSTANTS
  CountMod = 12
  HostGap = 2
  colbits = 2
  rowbits = 3
  bankbits = 1
  address_align = 1
  bus_shift = 1
  data_bits = 4
  DQ_PADS = 2
  Options <- MCExits
  Flips <- MCFlips
INVARIANT ExitsOnBitFlip
CHECK_DEADLOCK FALSE
