CONSTANTS
  Stop = {A, B}
  MinMove = 3
  StaleAfter = 2
  Silence = 3
  Period = 3
  Week = 15
  MaxGap = 10
  Width = 3
  VarNeeded = 2
  Qualify = 2
  Block = 2
  LockBlocks = 2
  DownAfter = 2
SPECIFICATION Spec
INVARIANT LockFromOneStop
PROPERTIES
  RetrimWaits
  MissedExact
