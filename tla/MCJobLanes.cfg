SPECIFICATION MCSpec
CONSTANTS
  j1 = j1
  j2 = j2
  j3 = j3
  Jobs = {j1, j2, j3}
  LocalJobs = {j1}
  Attempts = 2
  MaxCrashes = 1
  NoJob = NoJob
CHECK_DEADLOCK FALSE
INVARIANTS
  IInv
  NoStrandedRow
  NoDuplicateBatch
  SettledResultComplete
PROPERTIES
  TerminalRowsRest
  ImplementsLifecycle
  EveryJobSettles
