SPECIFICATION FairGeneratorSpec
CONSTANTS
  colbits = 2
  rowbits = 4
  bankbits = 1
  address_align = 1
  bus_shift = 1
  max_total_read_count = 33
  read_count_steps = 3
  initial_dilution = 4
  dilution_multiplier = 2
  max_dilution = 17
  attack_rows_start = 2
  max_attack_row_idx = 6
  decoy_rows_start = 8
  nr_rows = 5
  read_count_step = 10
  iters_per_row = 2
  max_iteration = 4
  initial_read_count = 7
  distance = 1
  first_dummy_row = 5
  BaselineValues = {TRUE, FALSE}
  Beats = 2
  nr_chips = 2
  TestErrors <- MCTestErrors
  list_rows = 2
  max_row = 10
  row_seq <- MCRowSeq
  idle_iterations = 2
  Configurations <- MCConfigurations
  ErrorRows = {0, 7, 12, 15}
  ErrorBanks = {0}
  MaxErrors = 2
INVARIANTS HammersBounded HammersAroundVictim TestsEveryPoint HistogramsExact FillsWhatItHammers LogExact
PROPERTY ExperimentEnds
CHECK_DEADLOCK FALSE
