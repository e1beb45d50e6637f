CONSTANTS
  Lanes = {local, remote}
  local = local
  remote = remote
  MaxJobs = 2

SPECIFICATION FairSpec
PROPERTY DrainIsReported
CHECK_DEADLOCK FALSE
