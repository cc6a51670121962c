SPECIFICATION Spec
CONSTANTS
  s1 = s1
  s2 = s2
  c1 = c1
  c2 = c2
  p1 = p1
  p2 = p2
  k1 = k1
  k2 = k2
  k3 = k3
  t1 = t1
  t2 = t2
  e1 = e1
  d1 = d1
  NoValue = NoValue
  SessionIds <- Sessions
  Channels = {c1, c2}
  Times = {1, 2, 3}
  UpsertKeys = {k1, k2, k3}
  RowKeys <- Rows
  ToolStatuses = {"succeeded"}
  Clients = {p1, p2}
  Programs <- AgentFirst
  Faults = {}
CHECK_DEADLOCK FALSE
INVARIANTS OneHistory
