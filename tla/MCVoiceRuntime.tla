--------------------------- MODULE MCVoiceRuntime ---------------------------
(* Instances of VoiceRuntime for TLC: one call on one channel, and the      *)
(* messages its parties send about it.                                      *)
EXTENDS VoiceRuntime, TLC

CONSTANTS s1, c1, q1, q2, q3, t1, t2, d1, d2

ThreeRequests == {q1, q2, q3}
TwoRequests   == {q1, q2}

\* Ids the sessions can have: the client's own and those minted by requests.
ClientAndMinted == {s1} \cup Requests

Event(type, session, channel, at, text) ==
  [eventType |-> type, sessionId |-> session, externalChannelId |-> channel,
   occurredAt |-> at, inputText |-> text]

NoMessages == {}

\* A client that names its session in every event.
NamedCall ==
  {Event("call_started", s1, c1, 1, NoValue), Event("transcript", s1, c1, 2, t1),
   Event("call_ended", s1, c1, 3, NoValue)}

NamedTalk ==
  {Event("transcript", s1, c1, 1, t1), Event("transcript", s1, NoValue, 2, t2),
   Event("call_ended", s1, c1, 3, NoValue)}

\* The shortest call: StoreNext is evaluated for every input on every step.
ShortCall ==
  {Event("transcript", s1, c1, 1, t1), Event("call_ended", s1, c1, 2, NoValue)}

\* A client that names only the channel, as the schema allows.
UnnamedCall ==
  {Event("transcript", NoValue, c1, 2, t1), Event("call_ended", NoValue, c1, 3, NoValue)}

ToolMessages ==
  {[externalChannelId |-> c1, calls |-> <<d1, d2>>],
   [externalChannelId |-> NoValue, calls |-> <<d1>>]}

Reads ==
  {[sessionId |-> s1, role |-> "operator", recompute |-> TRUE],
   [sessionId |-> s1, role |-> "operator", recompute |-> FALSE],
   [sessionId |-> s1, role |-> "public", recompute |-> FALSE]}

Instants == 1 .. 3

TwoInstants == 1 .. 2

Symmetry == Permutations(Requests)
=============================================================================
