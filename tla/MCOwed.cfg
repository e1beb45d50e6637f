CONSTANTS
  p1 = p1
  p2 = p2
  Pods = {p1, p2}
  MaxCrashes = 2
  None = None
  a = a
  b = b
  none = none

SPECIFICATION MCSpec
INVARIANTS
  Accounted
PROPERTIES
  HandleKept
  StopStaysOwed
  SetSettles
CHECK_DEADLOCK FALSE
