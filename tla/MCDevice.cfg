CONSTANTS
  Boards = {"nrf", "esp32"}
  Debounce = 2
  NoiseSpan = 1
  MaxLate = 2
  MaxFaults = 1
SPECIFICATION Spec
INVARIANTS
  TypeOK
  NothingDropped
  NoGhostStop
  ReasonTrue
  StoppedMeansOff
  UartNeedsRail
  FreshStart
  OneRestartPerSilence
PROPERTY
  PromisedModes
CHECK_DEADLOCK FALSE
