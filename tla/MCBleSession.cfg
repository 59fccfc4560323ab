CONSTANTS
  Transports = {"nrf", "esp32"}
  MaxConns = 3
  RefusalLog = 3
  MaxGap = 2
SPECIFICATION Spec
INVARIANTS
  SamePeerFits
  SilentOnceEnded
  ReportedLeave
  NeverStranded
CHECK_DEADLOCK FALSE
