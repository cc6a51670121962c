SPECIFICATION Spec
CONSTANTS
  Secrets = {s1, s2}
  Keys <- MCKeys
  MaxHits = 2
  WindowMs = 2
  LastTime = 2
  MaxRequests = 3
  NoValue = NoValue
SYMMETRY Symmetry
CHECK_DEADLOCK FALSE
INVARIANTS PublicReadsOnly
PROPERTIES RefusalsLeaveTheWindow ImplementsSlidingWindow
