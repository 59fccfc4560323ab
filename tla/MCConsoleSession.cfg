CONSTANTS
  Typed = {"G", "L", "2", "Enter"}
  MaxCount = 2
  Capacity = 1
  Period = 2
  Window = 2
  W = 6
  MaxGap = 3
  MaxInput = 3
  MaxLine = 2
SPECIFICATION Spec
INVARIANTS
  EntryAsTyped
  NothingBetween
  InTimeOrWrapped
PROPERTY LinePaced
CHECK_DEADLOCK FALSE
