CONSTANTS
  Transports = {"nrf"}
  MaxConns = 2
  RefusalLog = 2
  MaxGap = 1
SPECIFICATION Spec
INVARIANTS
  LogEarned
CHECK_DEADLOCK FALSE
