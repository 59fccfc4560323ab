CONSTANTS
  N = 2
  Period <- MCPeriod
  MaxRun = 2
  MaxOver = 3
  Horizon = 8
  Wrap = 6
SPECIFICATION ClockedSpec
INVARIANTS
  TypeOK
  LateBounded
  AccountedFor
  SleepsForAJob
PROPERTY ClockTrue
CHECK_DEADLOCK FALSE
