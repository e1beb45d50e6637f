SPECIFICATION MCSpec
CONSTANTS
  j1 = j1
  j2 = j2
  j3 = j3
  Jobs = {j1}
  LocalJobs = {}
  Attempts = 2
  MaxCrashes = 0
  NoJob = NoJob
CHECK_DEADLOCK FALSE
PROPERTIES
  CanceledInQueueNeverRuns
