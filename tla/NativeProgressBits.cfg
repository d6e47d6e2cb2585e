CONSTANTS
  Max16 = 4
  Max32 = 6
  StagnationLimit = 3
  MaxRecords = 7
  Records <- MCRecords
SPECIFICATION ProgressSpec
CHECK_DEADLOCK FALSE
INVARIANT BitExact
