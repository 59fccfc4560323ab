CONSTANTS
  Boards = {"nrf"}
  Debounce = 2
  NoiseSpan = 1
  MaxLate = 1
  MaxFaults = 0
SPECIFICATION Spec
INVARIANT SenseOffOnlyLow
CHECK_DEADLOCK FALSE
