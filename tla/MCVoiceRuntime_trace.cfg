SPECIFICATION Spec
CONSTANTS
  s1 = s1
  c1 = c1
  q1 = q1
  q2 = q2
  q3 = q3
  t1 = t1
  t2 = t2
  d1 = d1
  d2 = d2
  NoValue = NoValue
  SessionIds <- ClientAndMinted
  Channels = {c1}
  Times <- Instants
  UpsertKeys <- AllUpsertKeys
  RowKeys <- AllRowKeys
  Texts = {t1, t2}
  CallIds = {d1, d2}
  ToolStatuses = {"succeeded", "timed_out"}
  Requests <- TwoRequests
  VoiceEvents <- NamedCall
  ToolRequests <- NoMessages
  ReportRequests <- NoMessages
  ReasoningOwner = "runtime"
  Faults = {}
SYMMETRY Symmetry
CHECK_DEADLOCK FALSE
INVARIANTS OneTracePerSession
