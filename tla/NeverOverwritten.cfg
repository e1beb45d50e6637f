SPECIFICATION MCSpec
CONSTANTS
  Scenes = {"imports"}
  NRuns = 2
  MaxPosts = 2
  MaxMiss = 1
  QueueLimit = 1
  MaxFaults = 1
  MaxStrays = 1
  CancelLost = FALSE
  None = None
  Full = Full
  t1 = t1
  t2 = t2
  t3 = t3
  t4 = t4
  n1 = n1
  v1 = v1
  v2 = v2
  none = none
PROPERTIES
  NeverOverwritten
CHECK_DEADLOCK FALSE
