---------------------------- MODULE VoiceRuntime ----------------------------
(***************************************************************************)
(* The HTTP runtime of the voice demo around the session history: the      *)
(* handlers of POST /adapters/voice/inbound (handleVoiceTurn), POST        *)
(* /adapters/voice/tools (executeChannelToolInvocation) and GET            *)
(* /sessions/:id (getSessionReport, ensureSessionEvaluation), as composed  *)
(* by src/src/adapters/http/create-server.ts.                              *)
(*                                                                         *)
(* Each request is a process.  Its control point pc[r] is the await it is  *)
(* suspended at; everything up to the next await is one action, and at     *)
(* every await any other request may run.  The agent turn a transcript     *)
(* starts is a second thread of the request: the voice timeout stops       *)
(* waiting for it and does not stop it.                                    *)
(*                                                                         *)
(* A request's identifier also stands for what randomUUID() gives it: the  *)
(* traceId, and the sessionId of a request that names none.                *)
(*                                                                         *)
(* Requests the route refuses (authentication, payload, freshness, rate)   *)
(* change nothing and are not modelled here.  The http span of a request   *)
(* and the spans of an agent turn's tool and end are written; its llm and  *)
(* retrieval spans, which write nothing but events, are left to AgentTurn. *)
(***************************************************************************)
EXTENDS MemoryPersistence, Sequences

CONSTANTS
  Requests,        \* identifiers of HTTP requests
  VoiceEvents,     \* bodies the channel may post, any number of times
  ToolRequests,    \* tool-calls messages the voice platform may post
  ReportRequests,  \* report reads a client may issue
  ReasoningOwner,  \* voice.reasoningOwner
  Faults           \* what the persistence port may do: see FaultsAssumption

CONSTANTS Texts, CallIds

VoiceBodies ==
  [eventType : EventTypes, sessionId : Optional(SessionIds),
   externalChannelId : Optional(Channels), occurredAt : Times, inputText : Optional(Texts)]

ToolBodies == [externalChannelId : Optional(Channels), calls : Seq(CallIds)]

ReportBodies ==
  [sessionId : SessionIds, role : {"operator", "public"}, recompute : BOOLEAN]

ASSUME RequestsAssumption == Requests \subseteq SessionIds /\ NoValue \notin SessionIds

ASSUME BodiesAssumption ==
  /\ VoiceEvents \subseteq VoiceBodies
  /\ ToolRequests \subseteq ToolBodies
  /\ ReportRequests \subseteq ReportBodies
  \* toolCallList is never empty
  /\ \A m \in ToolRequests : m.calls # <<>>
  \* assertOperatorRecompute refuses a recompute to the public token
  /\ \A q \in ReportRequests : q.recompute => q.role = "operator"

ASSUME ReasoningOwnerAssumption == ReasoningOwner \in {"runtime", "vapi"}

\* "port_fails": a call of the port may reject.  "port_stalls": a call may stay
\* pending for longer than voice.timeoutMs.  Both are what a port that does I/O
\* can do; the in-process store does neither.
ASSUME FaultsAssumption == Faults \subseteq {"port_fails", "port_stalls"}

\* The errors a request is answered with.
ErrorCodes == {"VOICE_TIMEOUT", "VOICE_RUNTIME", "NOT_FOUND", "INTERNAL_ERROR"}

ASSUME ErrorsAssumption == NoValue \notin ErrorCodes

VARIABLES
  pc,        \* the await each request is suspended at
  job,       \* what the handler works on: the mapped body, with its sessionId
  nextCall,  \* index of the tool call a tools request executes
  agent,     \* the agent turn of a transcript, which outlives a voice timeout
  scored,    \* evaluation computed from a report and not yet saved
  outcome,   \* the reply: "ok" or an error code
  logged,    \* requests for which persistence.write failure was logged
  alive      \* FALSE once an unhandled rejection ended the process

reqVars == <<pc, job, nextCall, agent, scored, outcome, logged, alive>>
vars    == <<storeVars, reqVars>>

-----------------------------------------------------------------------------
(* Keys.                                                                   *)

\* inboundIdempotencyKey; only a transcript carries text.
InboundKey(t) ==
  <<t.eventType,
    IF t.externalChannelId = NoValue THEN t.sessionId ELSE t.externalChannelId,
    t.occurredAt,
    IF t.eventType = "transcript" THEN t.inputText ELSE NoValue>>

ToolSessionKey(t) == <<"channel-tool|session", t.externalChannelId, t.occurredAt>>

AssistantKey(r)  == <<r, "assistant">>
SpanKey(r, name) == <<r, name>>
CallSpanKey(r, i)  == <<r, "tool.execute", i>>
ToolCallKey(r, id) == <<r, id>>

\* Mutant: the provider's call id is taken for the session id.
VoiceTurnByChannel(e, r) ==
  [kind |-> "voice", eventType |-> e.eventType, sessionId |-> e.externalChannelId,
   externalChannelId |-> e.externalChannelId,
   occurredAt |-> e.occurredAt, inputText |-> e.inputText]

\* mapInboundToVoiceTurn
VoiceTurn(e, r) ==
  [kind |-> "voice", eventType |-> e.eventType,
   sessionId |-> IF e.sessionId = NoValue THEN r ELSE e.sessionId,
   externalChannelId |-> e.externalChannelId,
   occurredAt |-> e.occurredAt, inputText |-> e.inputText]

\* The tools route passes no sessionId: one is minted when the channel is known.
ToolInvocation(m, r, now) ==
  [kind |-> "tools", sessionId |-> IF m.externalChannelId = NoValue THEN NoValue ELSE r,
   externalChannelId |-> m.externalChannelId, occurredAt |-> now, calls |-> m.calls]

ReportRead(q) ==
  [kind |-> "report", sessionId |-> q.sessionId, role |-> q.role, recompute |-> q.recompute]

VoiceTurns      == {VoiceTurn(e, r) : e \in VoiceEvents, r \in Requests}
ToolInvocations == {ToolInvocation(m, r, at) : m \in ToolRequests, r \in Requests, at \in Times}
ReportReads     == {ReportRead(q) : q \in ReportRequests}
Jobs            == VoiceTurns \cup ToolInvocations \cup ReportReads

\* Every key the handlers can form.
AllUpsertKeys ==
  {InboundKey(t) : t \in VoiceTurns} \cup {ToolSessionKey(t) : t \in ToolInvocations}

ToolRowKeys(m) ==
  {ToolCallKey(r, m.calls[i]) : r \in Requests, i \in DOMAIN m.calls}
    \cup {CallSpanKey(r, i) : r \in Requests, i \in DOMAIN m.calls}

AllRowKeys ==
  {InboundKey(t) : t \in VoiceTurns}
    \cup {AssistantKey(r) : r \in Requests}
    \cup {SpanKey(r, name) : r \in Requests, name \in {"http", "tool", "workflow"}}
    \cup UNION {ToolRowKeys(m) : m \in ToolRequests}

ASSUME KeysAssumption ==
  /\ AllUpsertKeys \subseteq UpsertKeys
  /\ AllRowKeys \subseteq RowKeys

-----------------------------------------------------------------------------
Init ==
  /\ StoreInit
  /\ pc = [r \in Requests |-> "idle"]
  /\ job = [r \in Requests |-> NoValue]
  /\ nextCall = [r \in Requests |-> 1]
  /\ agent = [r \in Requests |-> "off"]
  /\ scored = [r \in Requests |-> NoValue]
  /\ outcome = [r \in Requests |-> NoValue]
  /\ logged = {}
  /\ alive = TRUE

Is(r, kind) == job[r] # NoValue /\ job[r].kind = kind

IsTranscript(r) == Is(r, "voice") /\ job[r].eventType = "transcript"
IsCallEnd(r)    == Is(r, "voice") /\ job[r].eventType = "call_ended"

GoTo(r, label) == pc' = [pc EXCEPT ![r] = label]

Finish(r, label, result) ==
  /\ GoTo(r, label)
  /\ outcome' = [outcome EXCEPT ![r] = result]

-----------------------------------------------------------------------------
(* Arrival.                                                                *)

\* The route hands the mapped turn to handleVoiceTurn, which arms the timeout
\* and takes one of its three paths: lifecycle, correlation only
\* (reasoningOwner "vapi"), or an agent turn raced against the timeout.  The
\* boundary has seen to it that the session id is valid.
ReceiveVoice(r, e) ==
  LET runsAgent == e.eventType = "transcript" /\ ReasoningOwner = "runtime"
  IN  /\ alive
      /\ pc[r] = "idle"
      /\ job' = [job EXCEPT ![r] = VoiceTurn(e, r)]
      /\ GoTo(r, IF runsAgent THEN "agent" ELSE "upsert")
      /\ agent' = [agent EXCEPT ![r] = IF runsAgent THEN "running" ELSE "off"]
      /\ UNCHANGED <<storeVars, nextCall, scored, outcome, logged, alive>>

ReceiveTools(r, m, now) ==
  /\ alive
  /\ pc[r] = "idle"
  /\ job' = [job EXCEPT ![r] = ToolInvocation(m, r, now)]
  /\ GoTo(r, IF m.externalChannelId = NoValue THEN "tool_call" ELSE "tool_upsert")
  /\ UNCHANGED <<storeVars, nextCall, agent, scored, outcome, logged, alive>>

ReceiveReport(r, q) ==
  /\ alive
  /\ pc[r] = "idle"
  /\ job' = [job EXCEPT ![r] = ReportRead(q)]
  /\ GoTo(r, "fetch")
  /\ UNCHANGED <<storeVars, nextCall, agent, scored, outcome, logged, alive>>

-----------------------------------------------------------------------------
(* The agent turn, as handleVoiceTurn sees it.                             *)

\* What AgentTurn promises is what the request relies on.
Agent(r) == INSTANCE AgentThread WITH thread <- agent[r]

\* handleAgentTurn runs at most one tool; its span and its row are written
\* whether or not the request still waits.
AgentTool(r, status) ==
  /\ alive
  /\ Agent(r)!MayEndTool
  /\ agent' = [agent EXCEPT ![r] = IF status = "succeeded" THEN "tool_done" ELSE "tool_failed"]
  /\ RecordToolSpan([sessionId |-> job[r].sessionId, idempotencyKey |-> SpanKey(r, "tool")],
                    [sessionId |-> job[r].sessionId, status |-> status,
                     idempotencyKey |-> SpanKey(r, "tool")])
  /\ UNCHANGED <<pc, job, nextCall, scored, outcome, logged, alive>>

\* Mutant: the exchange is persisted where the agent's promise settles, so also
\* after the timer has answered the caller.
LateReplyIsPersisted(r, result) ==
  /\ alive
  /\ Agent(r)!MayReturn(result)
  /\ agent' = [agent EXCEPT ![r] = result]
  /\ RecordSpan([sessionId |-> job[r].sessionId, idempotencyKey |-> SpanKey(r, "workflow")])
  /\ \/ result = "ok" /\ GoTo(r, "upsert") /\ UNCHANGED outcome
     \/ pc[r] = "agent" /\ result = "timeout" /\ Finish(r, "reply", "VOICE_TIMEOUT")
     \/ pc[r] = "agent" /\ result = "error" /\ Finish(r, "reply", "VOICE_RUNTIME")
     \/ pc[r] # "agent" /\ result # "ok" /\ UNCHANGED <<pc, outcome>>
  /\ UNCHANGED <<job, nextCall, scored, logged, alive>>

\* The turn ends in a reply, a model or tool timeout, or another failure.  A
\* request that still waits goes on to persist the exchange, or answers with
\* mapAgentFailure's code; one that timed out ignores the result.
AgentFinishes(r, result) ==
  /\ alive
  /\ Agent(r)!MayReturn(result)
  /\ agent' = [agent EXCEPT ![r] = result]
  /\ RecordSpan([sessionId |-> job[r].sessionId, idempotencyKey |-> SpanKey(r, "workflow")])
  /\ \/ /\ pc[r] = "agent" /\ result = "ok"
        /\ GoTo(r, "upsert") /\ UNCHANGED outcome
     \/ /\ pc[r] = "agent" /\ result = "timeout"
        /\ Finish(r, "reply", "VOICE_TIMEOUT")
     \/ /\ pc[r] = "agent" /\ result = "error"
        /\ Finish(r, "reply", "VOICE_RUNTIME")
     \/ /\ pc[r] # "agent"
        /\ UNCHANGED <<pc, outcome>>
  /\ UNCHANGED <<job, nextCall, scored, logged, alive>>

\* Mutant: the agent is awaited without the timer.
NoVoiceTimeout(r) == FALSE /\ UNCHANGED vars

\* The timer wins the race: nothing is persisted and the agent goes on.
VoiceTimeout(r) ==
  /\ alive
  /\ pc[r] = "agent"
  /\ Finish(r, "reply", "VOICE_TIMEOUT")
  /\ UNCHANGED <<storeVars, job, nextCall, agent, scored, logged, alive>>

-----------------------------------------------------------------------------
(* Persisting a voice event.                                               *)

\* persistVoiceLifecycle.  Its result, the session it resolved to, is dropped.
VoiceUpsert(r) ==
  /\ alive
  /\ pc[r] = "upsert"
  /\ UpsertSession([sessionId |-> job[r].sessionId,
                    externalChannelId |-> job[r].externalChannelId,
                    eventType |-> job[r].eventType,
                    occurredAt |-> job[r].occurredAt,
                    idempotencyKey |-> InboundKey(job[r])])
  /\ GoTo(r, CASE IsTranscript(r) -> "user_turn"
                [] IsCallEnd(r)    -> "read_report"
                [] OTHER           -> "reply")
  /\ UNCHANGED <<job, nextCall, agent, scored, outcome, logged, alive>>

\* Mutant: the reply is not persisted.
VoiceUserTurnOnly(r) ==
  /\ alive
  /\ pc[r] = "user_turn"
  /\ RecordTurn([sessionId |-> job[r].sessionId, role |-> "user",
                 idempotencyKey |-> InboundKey(job[r])])
  /\ GoTo(r, "reply")
  /\ UNCHANGED <<job, nextCall, agent, scored, outcome, logged, alive>>

VoiceUserTurn(r) ==
  /\ alive
  /\ pc[r] = "user_turn"
  /\ RecordTurn([sessionId |-> job[r].sessionId, role |-> "user",
                 idempotencyKey |-> InboundKey(job[r])])
  /\ GoTo(r, IF ReasoningOwner = "runtime" THEN "assistant_turn" ELSE "reply")
  /\ UNCHANGED <<job, nextCall, agent, scored, outcome, logged, alive>>

VoiceAssistantTurn(r) ==
  /\ alive
  /\ pc[r] = "assistant_turn"
  /\ RecordTurn([sessionId |-> job[r].sessionId, role |-> "assistant",
                 idempotencyKey |-> AssistantKey(r)])
  /\ GoTo(r, "reply")
  /\ UNCHANGED <<job, nextCall, agent, scored, outcome, logged, alive>>

\* Mutant: every write has a closure of its own, so a failure skips that write.
AfterEachFailure(r) ==
  CASE pc[r] = "upsert" /\ IsTranscript(r) -> "user_turn"
    [] pc[r] = "upsert" /\ IsCallEnd(r) -> "read_report"
    [] pc[r] = "user_turn" /\ ReasoningOwner = "runtime" -> "assistant_turn"
    [] OTHER -> "reply"

\* persistSafely: the rest of the closure is skipped and the handler goes on.
\* The upsert of a call end has a closure of its own, so scoring still runs.
AfterFailure(r) == IF IsCallEnd(r) /\ pc[r] = "upsert" THEN "read_report" ELSE "reply"

VoiceWriteFails(r) ==
  /\ alive
  /\ "port_fails" \in Faults
  /\ Is(r, "voice")
  /\ pc[r] \in {"upsert", "user_turn", "assistant_turn", "read_report", "save_evaluation"}
  /\ GoTo(r, AfterFailure(r))
  /\ logged' = logged \cup {r}
  /\ UNCHANGED <<storeVars, job, nextCall, agent, scored, outcome, alive>>

\* The timeout was armed, but the lifecycle and correlation-only paths await
\* the store without racing it: when it fires first, nothing handles the
\* rejection and Node ends the process.
UnhandledTimeout(r) ==
  /\ alive
  /\ "port_stalls" \in Faults
  /\ Is(r, "voice")
  /\ agent[r] = "off"
  /\ pc[r] \in {"upsert", "user_turn", "read_report", "save_evaluation"}
  /\ alive' = FALSE
  /\ UNCHANGED <<storeVars, pc, job, nextCall, agent, scored, outcome, logged>>

\* finish: the http span, then the reply (a failure's code is already chosen).
VoiceReply(r) ==
  /\ alive
  /\ pc[r] = "reply"
  /\ RecordSpan([sessionId |-> job[r].sessionId, idempotencyKey |-> SpanKey(r, "http")])
  /\ Finish(r, "done", IF outcome[r] = NoValue THEN "ok" ELSE outcome[r])
  /\ UNCHANGED <<job, nextCall, agent, scored, logged, alive>>

-----------------------------------------------------------------------------
(* ensureSessionEvaluation, shared by a call end and an operator's read.   *)

AfterEvaluation(r) ==
  IF Is(r, "voice") THEN GoTo(r, "reply") /\ UNCHANGED outcome ELSE Finish(r, "done", "ok")

Recompute(r) == Is(r, "report") /\ job[r].recompute

\* Mutant: any session is scored.
MustScoreAny(r) ==
  LET id == job[r].sessionId
  IN  SessionExists(id) /\ (sessions[id].evaluation = NoValue \/ Recompute(r))

\* Nothing to do when there is no session, the call has not finished, or a
\* score exists and is not to be recomputed.
MustScore(r) ==
  LET id == job[r].sessionId
  IN  /\ SessionExists(id)
      /\ Terminal(id)
      /\ sessions[id].evaluation = NoValue \/ Recompute(r)

\* Score what the report shows now; the save comes after an await.
ReadForEvaluation(r) ==
  /\ alive
  /\ pc[r] = "read_report"
  /\ \/ /\ MustScore(r)
        /\ scored' = [scored EXCEPT ![r] = [evidence |-> ReportEvidence(job[r].sessionId)]]
        /\ GoTo(r, "save_evaluation")
        /\ UNCHANGED outcome
     \/ /\ ~MustScore(r)
        /\ AfterEvaluation(r)
        /\ UNCHANGED scored
  /\ UNCHANGED <<storeVars, job, nextCall, agent, logged, alive>>

SaveEvaluation(r) ==
  /\ alive
  /\ pc[r] = "save_evaluation"
  /\ SaveSessionEvaluation(job[r].sessionId, scored[r])
  /\ AfterEvaluation(r)
  /\ UNCHANGED <<job, nextCall, agent, scored, logged, alive>>

\* getSessionReport and attachEvaluationToReport: only an operator's read of a
\* finished call goes on to ensure a score.
FetchReport(r) ==
  LET id == job[r].sessionId
  IN  /\ alive
      /\ pc[r] = "fetch"
      /\ \/ /\ ~SessionExists(id)
            /\ Finish(r, "done", "NOT_FOUND")
         \/ /\ SessionExists(id)
            /\ Terminal(id) /\ job[r].role = "operator"
            /\ GoTo(r, "read_report") /\ UNCHANGED outcome
         \/ /\ SessionExists(id)
            /\ ~(Terminal(id) /\ job[r].role = "operator")
            /\ Finish(r, "done", "ok")
      /\ UNCHANGED <<storeVars, job, nextCall, agent, scored, logged, alive>>

\* No persistSafely on this path: the error handler answers.
ReportReadFails(r) ==
  /\ alive
  /\ "port_fails" \in Faults
  /\ Is(r, "report")
  /\ pc[r] \in {"fetch", "read_report", "save_evaluation"}
  /\ Finish(r, "done", "INTERNAL_ERROR")
  /\ UNCHANGED <<storeVars, job, nextCall, agent, scored, logged, alive>>

-----------------------------------------------------------------------------
(* Channel tools.                                                          *)

\* ensureSession: here the resolved id replaces the minted one.
ToolUpsert(r) ==
  LET in == [sessionId |-> job[r].sessionId,
             externalChannelId |-> job[r].externalChannelId,
             eventType |-> "transcript",
             occurredAt |-> job[r].occurredAt,
             idempotencyKey |-> ToolSessionKey(job[r])]
  IN  /\ alive
      /\ pc[r] = "tool_upsert"
      /\ UpsertSession(in)
      /\ job' = [job EXCEPT ![r].sessionId = ResolvedId(in)]
      /\ GoTo(r, "tool_open")
      /\ UNCHANGED <<nextCall, agent, scored, outcome, logged, alive>>

\* The catch block logs, and the calls run under the minted id.
ToolUpsertFails(r) ==
  /\ alive
  /\ "port_fails" \in Faults
  /\ pc[r] = "tool_upsert"
  /\ logged' = logged \cup {r}
  /\ GoTo(r, "tool_open")
  /\ UNCHANGED <<storeVars, job, nextCall, agent, scored, outcome, alive>>

ToolOpen(r) ==
  /\ alive
  /\ pc[r] = "tool_open"
  /\ RecordSpan([sessionId |-> job[r].sessionId, idempotencyKey |-> SpanKey(r, "http")])
  /\ GoTo(r, "tool_call")
  /\ UNCHANGED <<job, nextCall, agent, scored, outcome, logged, alive>>

\* The loop body after the tool settles or the hard timeout wins the race
\* (a late result is dropped); the calls of one request run one by one.
NextToolCall(r) ==
  /\ nextCall' = [nextCall EXCEPT ![r] = @ + 1]
  /\ IF nextCall[r] = Len(job[r].calls)
     THEN Finish(r, "done", "ok")
     ELSE UNCHANGED <<pc, outcome>>

ToolCallSpan(r) ==
  [sessionId |-> job[r].sessionId, idempotencyKey |-> CallSpanKey(r, nextCall[r])]

ToolCallSettles(r, status) ==
  /\ alive
  /\ pc[r] = "tool_call"
  /\ IF job[r].sessionId = NoValue
     THEN UNCHANGED storeVars
     ELSE RecordToolSpan(ToolCallSpan(r),
            [sessionId |-> job[r].sessionId, status |-> status,
             idempotencyKey |-> ToolCallKey(r, job[r].calls[nextCall[r]])])
  /\ NextToolCall(r)
  /\ UNCHANGED <<job, agent, scored, logged, alive>>

ToolRowFails(r) ==
  /\ alive
  /\ "port_fails" \in Faults
  /\ pc[r] = "tool_call"
  /\ job[r].sessionId # NoValue
  /\ RecordSpan(ToolCallSpan(r))
  /\ logged' = logged \cup {r}
  /\ NextToolCall(r)
  /\ UNCHANGED <<job, agent, scored, alive>>

-----------------------------------------------------------------------------
Receive(r) ==
  \/ \E e \in VoiceEvents : ReceiveVoice(r, e)
  \/ \E m \in ToolRequests, now \in Times : ReceiveTools(r, m, now)
  \/ \E q \in ReportRequests : ReceiveReport(r, q)

RunAgent(r) ==
  \/ \E status \in ToolStatuses : AgentTool(r, status)
  \/ \E result \in {"ok", "timeout", "error"} : AgentFinishes(r, result)

\* The store answers, a timer fires, the handler goes on.
Serve(r) ==
  \/ VoiceTimeout(r)
  \/ VoiceUpsert(r) \/ VoiceUserTurn(r) \/ VoiceAssistantTurn(r) \/ VoiceReply(r)
  \/ ReadForEvaluation(r) \/ SaveEvaluation(r) \/ FetchReport(r)
  \/ ToolUpsert(r) \/ ToolOpen(r)
  \/ \E status \in ToolStatuses : ToolCallSettles(r, status)

Fault(r) ==
  \/ VoiceWriteFails(r) \/ UnhandledTimeout(r)
  \/ ReportReadFails(r)
  \/ ToolUpsertFails(r) \/ ToolRowFails(r)

Next == \E r \in Requests : Receive(r) \/ RunAgent(r) \/ Serve(r) \/ Fault(r)

Spec == Init /\ [][Next]_vars

\* The runtime keeps serving what it has accepted; nothing is assumed of the
\* channel that sends requests or of the agent turn, which may hang.
FairSpec == Spec /\ \A r \in Requests : WF_vars(Serve(r))

-----------------------------------------------------------------------------
(* Properties.                                                             *)

\* The requests' part of the type invariant.
RequestTypeOK ==
  /\ pc \in [Requests -> {"idle", "agent", "upsert", "user_turn", "assistant_turn",
                         "read_report", "save_evaluation", "reply", "fetch",
                         "tool_upsert", "tool_open", "tool_call", "done"}]
  /\ DOMAIN job = Requests
  /\ \A r \in Requests : job[r] # NoValue =>
       /\ job[r].kind \in {"voice", "tools", "report"}
       /\ job[r].sessionId \in Optional(SessionIds)
  /\ nextCall \in [Requests -> Nat]
  /\ agent \in [Requests -> {"off", "running", "tool_done", "tool_failed",
                            "ok", "timeout", "error"}]
  /\ scored \in [Requests -> Optional(Evaluations)]
  /\ outcome \in [Requests -> Optional({"ok"} \cup ErrorCodes)]
  /\ logged \subseteq Requests
  /\ alive \in BOOLEAN

\* Every variable stays in the range the handlers give it.
TypeOK == StoreTypeOK /\ RequestTypeOK

Answered(r) == pc[r] = "done"
Failed(r)   == outcome[r] \notin {NoValue, "ok"}

UserTurnOf(r, t) == t.role = "user" /\ t.idempotencyKey = InboundKey(job[r])

\* "The Session has a user turn with the input text and an assistant turn with
\* the reply text" (openspec/specs/voice-interaction/spec.md:156), question
\* before answer, for every transcript answered ok whose loss was not logged;
\* also when it is a redelivery, or others write to the session meanwhile.
AnsweredTranscriptIsStored ==
  \A r \in Requests :
    IsTranscript(r) /\ Answered(r) /\ ~Failed(r) /\ r \notin logged =>
      \E u \in turns :
        /\ UserTurnOf(r, u)
        /\ ReasoningOwner = "runtime" =>
             \E a \in turns : /\ a.idempotencyKey = AssistantKey(r)
                             /\ a.sessionId = u.sessionId
                             /\ u.index < a.index

\* However the writes of an exchange fail, no session shows an answer without
\* the question before it: the two are written in that order and a failed
\* write abandons the rest.
NoAnswerWithoutItsQuestion ==
  \A a \in turns :
    a.role = "assistant" =>
      \E r \in Requests, u \in turns :
        /\ a.idempotencyKey = AssistantKey(r)
        /\ UserTurnOf(r, u)
        /\ u.sessionId = a.sessionId
        /\ u.index < a.index

\* "A supported inbound voice turn MUST upsert the Session [...] and persist the
\* user utterance when the event is a transcript"
\* (openspec/specs/voice-interaction/spec.md:151), whatever its agent comes to.
UtteranceIsPersisted ==
  \A r \in Requests :
    IsTranscript(r) /\ Answered(r) /\ r \notin logged => \E u \in turns : UserTurnOf(r, u)

\* A reply the caller never heard is not in the history: after a timeout or a
\* failure the agent may still come to one, while other requests, a redelivery
\* of the same event among them, go on writing to the session.  The utterance
\* is another matter: see UtteranceIsPersisted.
FailedTurnLeavesNoReply ==
  \A r \in Requests :
    Failed(r) => \A a \in turns : a.idempotencyKey # AssistantKey(r)

\* "On `call_ended` (terminal session), the runtime scores and stores JSON on
\* `sessions.evaluation`" (docs/evaluation-call.md:35): once a call end is
\* answered, and unless a failed write was logged, its session is scored, also
\* when another end or an operator's read scored it concurrently.
CallEndIsScored ==
  \A r \in Requests :
    IsCallEnd(r) /\ Answered(r) /\ r \notin logged =>
      /\ SessionExists(job[r].sessionId)
      /\ Terminal(job[r].sessionId)
      /\ sessions[job[r].sessionId].evaluation # NoValue

\* "each child record references that Session identifier"
\* (openspec/specs/session-persistence/spec.md:21): no turn is stored under a
\* session that does not exist.
TurnsJoinASession == \A t \in turns : SessionExists(t.sessionId)

\* Channel tools: every call answered is in the report of the session its call
\* is bound to, once under its id, although each request minted a session id of
\* its own and turns of the same call may create the session concurrently.
ToolCallsJoinTheirCall ==
  \A r \in Requests :
    Is(r, "tools") /\ job[r].externalChannelId # NoValue /\ r \notin logged =>
      \A i \in 1 .. (nextCall[r] - 1) :
        \E call \in toolCalls :
          /\ call.idempotencyKey = ToolCallKey(r, job[r].calls[i])
          /\ job[r].externalChannelId \in DOMAIN sessionIdByExternal
          /\ call.sessionId = sessionIdByExternal[job[r].externalChannelId]

\* "retrieving the session report yields those events in chronological order
\* sharing one `traceId`" (openspec/specs/session-persistence/spec.md:53); the
\* first component of a span's key is its trace.
OneTracePerSession ==
  \A a, b \in events :
    a.sessionId = b.sessionId => a.idempotencyKey[1] = b.idempotencyKey[1]

\* "WHEN handling a voice turn exceeds the configured handling timeout THEN the
\* runtime returns a timeout voice error and does not leave an unbounded wait"
\* (openspec/specs/voice-interaction/spec.md:85-86): a timeout never ends the
\* process instead.
NoUnhandledTimeout == alive

\* Every request the runtime accepts is answered, even when its agent hangs.
EveryRequestIsAnswered ==
  \A r \in Requests : (pc[r] # "idle") ~> (pc[r] = "done")

\* The handlers touch the history through the port alone, one call at a time.
RefinesStore == StoreSpec
=============================================================================
