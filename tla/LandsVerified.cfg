CONSTANTS
  Size = 1
  Tries = 2
  MaxTasks = 3
  MaxLost = 2
  MaxSwaps = 0

SPECIFICATION Spec
INVARIANT LandsVerified
CHECK_DEADLOCK FALSE
