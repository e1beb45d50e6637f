CONSTANTS
  NRuns = 2
  MaxPosts = 1
  MaxMiss = 1
  QueueLimit = 1
  MaxFaults = 2
  MaxStrays = 1
  CancelLost = TRUE
  None = None
  Full = Full
  Lanes = {local, remote, finishing}
  local = local
  remote = remote
  finishing = finishing
  MaxJobs = 5

SPECIFICATION MCSpec
INVARIANTS
  ReportsAddUp
PROPERTIES
  DrainReported
  RemoteSettles
CHECK_DEADLOCK FALSE
