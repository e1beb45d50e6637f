CONSTANTS
  p1 = p1
  p2 = p2
  w = w
  Pool = {p1, p2}
  WarmUp = w
  turbo = turbo
  quality = quality
  Models = {turbo, quality}
  Nunchaku = {turbo}
  Published = {turbo}
  TurboModel = turbo
  Loras = {}
  Fits <- MCFits
  Offload = TRUE
  MaxCalls = 2
  MaxEdits = 0
  None = None
  Gone = Gone
SPECIFICATION FairSpec
PROPERTIES
  NextHasAChance
CHECK_DEADLOCK FALSE
