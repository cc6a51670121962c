SPECIFICATION StoreSpec
CONSTANTS
  s1 = s1
  s2 = s2
  c1 = c1
  c2 = c2
  k1 = k1
  k2 = k2
  k3 = k3
  r1 = r1
  NoValue = NoValue
  SessionIds = {s1, s2}
  Channels = {c1, c2}
  Times <- Instants
  UpsertKeys = {k1, k2, k3}
  RowKeys = {}
  ToolStatuses = {"succeeded"}
SYMMETRY Symmetry
CHECK_DEADLOCK FALSE
INVARIANTS DurationMatchesTimestamps
