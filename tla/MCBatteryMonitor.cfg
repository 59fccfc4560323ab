CONSTANTS
  Samples = 2
  Interval = 3
  CutoffDebounce = 4
  FullDebounce = 3
  MaxGap = 2
  W = 14
SPECIFICATION Spec
INVARIANTS
  CutoffEarned
  CutoffInTime
  FullEarned
PROPERTY NeverOnOneRun
