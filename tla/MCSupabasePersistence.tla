----------------------- MODULE MCSupabasePersistence -----------------------
(* Instances of SupabasePersistence for TLC: the closures the handlers run  *)
(* for one call, as port calls.                                             *)
EXTENDS SupabasePersistence, TLC

CONSTANTS s1, s2, c1, c2, p1, p2, k1, k2, k3, t1, t2, e1, d1

Sessions == {s1, s2}
Answers  == {<<t, id>> : t \in {t1, t2}, id \in {s1, s2}}
Rows     == {t1, t2, e1, d1} \cup Answers

UpsertOf(type, id, channel, time, key) ==
  [op |-> "upsertSession",
   in |-> [sessionId |-> id, externalChannelId |-> channel, eventType |-> type,
           occurredAt |-> time, idempotencyKey |-> key]]

TurnOf(id, role, key) ==
  [op |-> "recordTurn", in |-> [sessionId |-> id, role |-> role, idempotencyKey |-> key]]

ToolOf(id, key) ==
  [op |-> "recordToolCall",
   in |-> [sessionId |-> id, status |-> "succeeded", idempotencyKey |-> key]]

EventOf(id, key) ==
  [op |-> "recordExecutionEvent", in |-> [sessionId |-> id, idempotencyKey |-> key]]

EnsureOf(id, force) ==
  [op |-> "ensureSessionEvaluation", in |-> [sessionId |-> id, force |-> force]]

\* The closures of handleVoiceTurn, persistSpan and attachEvaluationToReport.
Started(id, channel, key) == <<UpsertOf("call_started", id, channel, 1, key)>>

Exchange(id, channel, t, key) ==
  <<UpsertOf("transcript", id, channel, 2, key), TurnOf(id, "user", t),
    TurnOf(id, "assistant", <<t, id>>)>>

CallEnd(id, channel, key) ==
  <<UpsertOf("call_ended", id, channel, 3, key), EnsureOf(id, FALSE)>>

ToolSpan(id) == <<EventOf(id, e1), ToolOf(id, d1)>>

Rescore(id) == <<EnsureOf(id, TRUE)>>

\* Parts of one call in flight together.
OneCall ==
  {Exchange(s1, c1, t1, k1) \o ToolSpan(s1), Exchange(s1, c1, t2, k2) \o Rescore(s1),
   CallEnd(s1, c1, k3) \o Rescore(s1)}

\* First events of a call under two minted session ids.
TwoFirstEvents == {Started(s1, c1, k1), Started(s2, c1, k2)}

\* A client that goes on to another channel under its session id.
TwoChannels ==
  {Started(s1, c1, k1) \o Started(s1, c2, k2) \o CallEnd(s2, c1, k3)}

\* A transcript in flight with the end of its call.
LateTranscript == {Exchange(s1, c1, t1, k1), CallEnd(s1, c1, k2)}

\* A call whose first event is a transcript: the agent's spans come first.
AgentFirst == {ToolSpan(s1) \o Exchange(s1, c1, t1, k1)}

Symmetry == Permutations(Clients)
=============================================================================
