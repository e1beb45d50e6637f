SPECIFICATION MCSpec
CONSTANTS
  Scenes = {"sets", "died", "lone", "canvas", "references", "schema", "remote",
            "imports", "uploads", "chunks", "transfer", "pipelines", "sweep",
            "exports", "sheet"}
  NRuns = 2
  MaxPosts = 2
  MaxMiss = 1
  QueueLimit = 1
  MaxFaults = 1
  MaxStrays = 1
  CancelLost = FALSE
  None = None
  Full = Full
  t1 = t1
  t2 = t2
  t3 = t3
  t4 = t4
  n1 = n1
  v1 = v1
  v2 = v2
  none = none
SYMMETRY MCSymmetry
INVARIANTS
  EnqueuedOnce
  NothingLost
  ItemsAccounted
  NoEditLost
  WholeSchema
  UploadsArrive
  LedgerTrue
  HeldIsVerified
  RunsAsRequested
  FilesKept
  LayoutSound
PROPERTIES
  StagesInOrder
  KnownGoodKept
CHECK_DEADLOCK FALSE
