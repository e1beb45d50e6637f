SPECIFICATION MCSpec
CONSTANTS
  Scenes = {"calls", "rewritten", "more", "order", "page", "return", "images",
            "keys", "plans", "drift", "planning", "openai", "agent", "recipe",
            "library", "edited", "copied", "named", "tuned"}
  Pool = {t1, t2}
  WarmUp = warm
  warm = warm
  Models = {"turbo", "quality"}
  Nunchaku = {"turbo"}
  Published = {"turbo"}
  TurboModel = "turbo"
  Loras = {"ink", "wash"}
  Fits <- MCFits
  Offload = TRUE
  MaxCalls = 2
  MaxEdits = 0
  None = None
  Gone = Gone
  Reruns = 1
  t1 = t1
  t2 = t2
  k1 = k1
  u1 = u1
  u2 = u2
  w1 = w1
  w2 = w2
  m1 = m1
  m2 = m2
  none = none
SYMMETRY MCSymmetry
INVARIANTS
  StyleIsRequested
  DeviceRight
  ShownAsItIs
  AssetsTellTheTruth
  DoneAsAsked
  RevisionsStand
  RunsAsSaved
  PlansStand
  AsAskedOrTold
  ToolsTellTheTruth
  FiledAsItself
PROPERTIES
  OrderKept
  LadderOnlyRises
CHECK_DEADLOCK FALSE
