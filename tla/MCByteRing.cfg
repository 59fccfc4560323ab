CONSTANTS
  Byte = {0, 1}
  N = 2
  W = 8
  MaxLen = 3
  Zero = 0
  Frame <- MCFrame
SPECIFICATION StreamSpec
INVARIANTS
  CountsAddUp
  CommandsExact
PROPERTY IsAQueue
