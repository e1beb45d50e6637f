SPECIFICATION MCSpec
CONSTANTS
  Scenes = {"recipe"}
  Pool = {t1, t2}
  WarmUp = warm
  warm = warm
  Models = {"turbo", "quality"}
  Nunchaku = {"turbo"}
  Published = {"turbo"}
  TurboModel = "turbo"
  Loras = {"ink", "wash"}
  Fits <- MCFits
  Offload = TRUE
  MaxCalls = 2
  MaxEdits = 1
  None = None
  Gone = Gone
  Reruns = 2
  t1 = t1
  t2 = t2
  k1 = k1
  u1 = u1
  u2 = u2
  w1 = w1
  w2 = w2
  m1 = m1
  m2 = m2
  none = none
INVARIANTS
  ConsumedIsRecorded
CHECK_DEADLOCK FALSE
