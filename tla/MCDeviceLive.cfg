CONSTANTS
  Boards = {"nrf"}
  Debounce = 2
  NoiseSpan = 1
  MaxLate = 1
  MaxFaults = 0
SPECIFICATION FairSpec
PROPERTIES
  LowCellSleeps
  SwitchHonoured
  UnpluggedRuns
CHECK_DEADLOCK FALSE
