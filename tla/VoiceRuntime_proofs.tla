------------------------ MODULE VoiceRuntime_proofs ------------------------
(***************************************************************************)
(* Theorems about the runtime of the voice demo, for any requests, bodies, *)
(* channels and faults of the port.                                        *)
(*                                                                         *)
(* Calm says of each request where it stands in its handler and what it    *)
(* works on (Local), and of a score not yet saved that the rows it was made*)
(* from are still stored (Founded).  From it every step is a call of the   *)
(* port or none, so the runtime implements the store and the store's own   *)
(* invariant carries over.  Transcripts and ToolRows then say which request*)
(* wrote each row; both need that rows are only ever added.                *)
(* TurnsHaveSessions and EndsAreScored say what of a call is stored by the *)
(* time its events are answered, as long as its channel leads to the       *)
(* session its events name (BoundAsNamed).                                 *)
(***************************************************************************)
EXTENDS VoiceRuntime, MemoryPersistence_proofs

-----------------------------------------------------------------------------
(* The bodies and the keys made of them.                                   *)

\* A tools request's job, before and after ensureSession replaced its id.
ToolJobs ==
  {[kind |-> "tools", sessionId |-> id, externalChannelId |-> m.externalChannelId,
    occurredAt |-> at, calls |-> m.calls] :
     id \in Optional(SessionIds), m \in ToolRequests, at \in Times}

\* What mapInboundToVoiceTurn makes of a body.
LEMMA VoiceTurnFacts ==
  ASSUME NEW t \in VoiceTurns
  PROVE  /\ t.kind = "voice"
         /\ t.sessionId \in SessionIds
         /\ t.externalChannelId \in Optional(Channels)
         /\ t.eventType \in EventTypes
         /\ t.occurredAt \in Times
         /\ InboundKey(t) \in UpsertKeys
         /\ InboundKey(t) \in RowKeys
<1>1. PICK e \in VoiceEvents, r \in Requests : t = VoiceTurn(e, r)
  BY DEF VoiceTurns
<1>2. e \in VoiceBodies
  BY BodiesAssumption
<1>3. /\ e.eventType \in EventTypes /\ e.sessionId \in Optional(SessionIds)
      /\ e.externalChannelId \in Optional(Channels) /\ e.occurredAt \in Times
  BY <1>2 DEF VoiceBodies
<1>4. InboundKey(t) \in AllUpsertKeys /\ InboundKey(t) \in AllRowKeys
  BY DEF AllUpsertKeys, AllRowKeys
<1> QED
  BY <1>1, <1>3, <1>4, RequestsAssumption, KeysAssumption DEF VoiceTurn, Optional

\* What the tools route makes of a body: a session id is minted where there is a
\* channel to give it to.
LEMMA ToolInvocationFacts ==
  ASSUME NEW m \in ToolRequests, NEW r \in Requests, NEW at \in Times
  PROVE  /\ ToolInvocation(m, r, at) \in ToolJobs
         /\ ToolInvocation(m, r, at).externalChannelId = m.externalChannelId
         /\ m.externalChannelId # NoValue => ToolInvocation(m, r, at).sessionId = r
  BY RequestsAssumption DEF ToolInvocation, ToolJobs, Optional

\* The keys of a tools request's rows; it holds at least one call.
LEMMA ToolJobFacts ==
  ASSUME NEW t \in ToolJobs
  PROVE  /\ t.kind = "tools"
         /\ t.sessionId \in Optional(SessionIds)
         /\ t.externalChannelId \in Optional(Channels)
         /\ t.occurredAt \in Times
         /\ t.calls \in Seq(CallIds) /\ Len(t.calls) \in Nat \ {0}
         /\ DOMAIN t.calls = 1 .. Len(t.calls)
         /\ Requests # {} => ToolSessionKey(t) \in UpsertKeys
         /\ \A r \in Requests, i \in DOMAIN t.calls :
              CallSpanKey(r, i) \in RowKeys /\ ToolCallKey(r, t.calls[i]) \in RowKeys
         /\ \A id \in SessionIds :
              /\ [t EXCEPT !.sessionId = id] \in ToolJobs
              /\ [t EXCEPT !.sessionId = id].sessionId = id
              /\ [t EXCEPT !.sessionId = id].externalChannelId = t.externalChannelId
              /\ [t EXCEPT !.sessionId = id].calls = t.calls
<1>1. PICK id \in Optional(SessionIds), m \in ToolRequests, at \in Times :
        t = [kind |-> "tools", sessionId |-> id, externalChannelId |-> m.externalChannelId,
             occurredAt |-> at, calls |-> m.calls]
  BY DEF ToolJobs
<1>2. m \in ToolBodies /\ m.calls # <<>>
  BY BodiesAssumption
<1>3. m.externalChannelId \in Optional(Channels) /\ m.calls \in Seq(CallIds)
  BY <1>2 DEF ToolBodies
<1>4. ASSUME NEW r \in Requests PROVE ToolSessionKey(t) \in UpsertKeys
  <2>1. ToolInvocation(m, r, at) \in ToolInvocations
    BY DEF ToolInvocations
  <2>2. ToolSessionKey(t) = ToolSessionKey(ToolInvocation(m, r, at))
    BY <1>1 DEF ToolSessionKey, ToolInvocation
  <2> QED
    BY <2>1, <2>2, KeysAssumption DEF AllUpsertKeys
<1>5. ASSUME NEW r \in Requests, NEW i \in DOMAIN m.calls
      PROVE  CallSpanKey(r, i) \in RowKeys /\ ToolCallKey(r, m.calls[i]) \in RowKeys
  <2>1. ToolCallKey(r, m.calls[i]) \in ToolRowKeys(m) /\ CallSpanKey(r, i) \in ToolRowKeys(m)
    BY DEF ToolRowKeys
  <2>2. ToolRowKeys(m) \subseteq AllRowKeys
    BY DEF AllRowKeys
  <2> QED
    BY <2>1, <2>2, KeysAssumption
<1>6. Len(m.calls) \in Nat \ {0} /\ DOMAIN m.calls = 1 .. Len(m.calls)
  BY <1>2, <1>3
<1>7. ASSUME NEW new \in SessionIds
      PROVE  [t EXCEPT !.sessionId = new] =
               [kind |-> "tools", sessionId |-> new, externalChannelId |-> m.externalChannelId,
                occurredAt |-> at, calls |-> m.calls]
  BY <1>1
<1>8. \A new \in SessionIds : [t EXCEPT !.sessionId = new] \in ToolJobs
  BY <1>7 DEF ToolJobs, Optional
<1> QED
  BY <1>1, <1>3, <1>4, <1>5, <1>6, <1>7, <1>8

\* A read of the report names its session.
LEMMA ReportReadFacts ==
  ASSUME NEW t \in ReportReads
  PROVE  t.kind = "report" /\ t.sessionId \in SessionIds
<1>1. PICK q \in ReportRequests : t = ReportRead(q)
  BY DEF ReportReads
<1>2. q \in ReportBodies
  BY BodiesAssumption
<1> QED
  BY <1>1, <1>2 DEF ReportBodies, ReportRead

\* The keys of the reply and of the spans that every request may write.
LEMMA RequestKeys ==
  ASSUME NEW r \in Requests
  PROVE  /\ AssistantKey(r) \in RowKeys
         /\ \A name \in {"http", "tool", "workflow"} : SpanKey(r, name) \in RowKeys
  BY KeysAssumption DEF AllRowKeys

-----------------------------------------------------------------------------
(* The invariant of one request.                                           *)

\* Where request r stands in its handler, and what it works on there.
Local(r) ==
  /\ pc[r] = "idle" => agent[r] = "off"
  /\ pc[r] \in {"idle", "tool_upsert", "tool_open"} => nextCall[r] = 1
  /\ pc[r] \notin {"reply", "done"} => outcome[r] = NoValue
  /\ agent[r] # "off" => job[r] \in VoiceTurns
  /\ pc[r] \in {"agent", "upsert", "user_turn", "assistant_turn", "reply"} => job[r] \in VoiceTurns
  /\ pc[r] = "agent" => job[r].eventType = "transcript"
  /\ pc[r] \in {"user_turn", "assistant_turn"} => IsTranscript(r)
  /\ pc[r] \in {"read_report", "save_evaluation"} =>
       job[r] \in VoiceTurns \cup ReportReads /\ ~IsTranscript(r)
  /\ pc[r] = "fetch" => job[r] \in ReportReads
  /\ pc[r] \in {"tool_upsert", "tool_open", "tool_call"} => job[r] \in ToolJobs
  /\ pc[r] \in {"tool_upsert", "tool_open"} => job[r].sessionId \in SessionIds
  /\ pc[r] = "tool_upsert" => job[r].externalChannelId # NoValue
  /\ pc[r] = "tool_call" => nextCall[r] \in DOMAIN job[r].calls
  /\ Is(r, "tools") => pc[r] \in {"tool_upsert", "tool_open", "tool_call", "done"}
  /\ Is(r, "tools") => job[r] \in ToolJobs
  /\ Is(r, "voice") => job[r] \in VoiceTurns

\* A score not yet saved.
Founded(r) ==
  pc[r] = "save_evaluation" =>
    /\ SessionExists(job[r].sessionId) /\ Terminal(job[r].sessionId)
    /\ scored[r].evidence \subseteq ReportEvidence(job[r].sessionId)
    /\ scored[r] = [evidence |-> scored[r].evidence]

\* The inductive invariant of the runtime.
Calm == StoreInv /\ RequestTypeOK /\ \A r \in Requests : Local(r) /\ Founded(r)

\* A step keeps what it does not touch.
Keeps == [StoreNext]_storeVars /\ RequestTypeOK' /\ \A r \in Requests : Local(r)'

\* The arrivals, which touch no row.
LEMMA ReceiveVoiceKeeps ==
  ASSUME Calm, NEW r \in Requests, NEW e \in VoiceEvents, ReceiveVoice(r, e)
  PROVE  Keeps
<1> DEFINE t == VoiceTurn(e, r)
<1>1. t \in VoiceTurns
  BY DEF VoiceTurns
<1>2. t.kind = "voice" /\ t.sessionId \in SessionIds /\ t.eventType = e.eventType
  BY <1>1, VoiceTurnFacts DEF VoiceTurn
<1> HIDE DEF t
<1>3. RequestTypeOK'
  BY <1>2 DEF ReceiveVoice, Calm, RequestTypeOK, GoTo, Optional, ErrorCodes, t
<1>4. ASSUME NEW q \in Requests PROVE Local(q)'
  BY <1>1, <1>2 DEF ReceiveVoice, Calm, RequestTypeOK, GoTo, Local, Is, IsTranscript, t
<1> QED
  BY <1>3, <1>4 DEF Keeps, ReceiveVoice

\* A tools request starts at its first call, before or after ensureSession.
LEMMA ReceiveToolsKeeps ==
  ASSUME Calm, NEW r \in Requests, NEW m \in ToolRequests, NEW at \in Times, ReceiveTools(r, m, at)
  PROVE  Keeps
<1> DEFINE t == ToolInvocation(m, r, at)
<1>1. /\ t \in ToolJobs /\ t.externalChannelId = m.externalChannelId
      /\ m.externalChannelId # NoValue => t.sessionId = r
  BY ToolInvocationFacts
<1>2. t.kind = "tools" /\ t.sessionId \in Optional(SessionIds) /\ 1 \in DOMAIN t.calls
  BY <1>1, ToolJobFacts
<1> HIDE DEF t
<1>3. RequestTypeOK'
  BY <1>2 DEF ReceiveTools, Calm, RequestTypeOK, GoTo, Optional, ErrorCodes, t
<1>4. ASSUME NEW q \in Requests PROVE Local(q)'
  BY <1>1, <1>2, RequestsAssumption
     DEF ReceiveTools, Calm, RequestTypeOK, GoTo, Local, Is, IsTranscript, t
<1> QED
  BY <1>3, <1>4 DEF Keeps, ReceiveTools

\* A read starts by fetching its session.
LEMMA ReceiveReportKeeps ==
  ASSUME Calm, NEW r \in Requests, NEW q \in ReportRequests, ReceiveReport(r, q)
  PROVE  Keeps
<1> DEFINE t == ReportRead(q)
<1>1. t \in ReportReads
  BY DEF ReportReads
<1>2. t.kind = "report" /\ t.sessionId \in SessionIds
  BY <1>1, ReportReadFacts
<1> HIDE DEF t
<1>3. RequestTypeOK'
  BY <1>2 DEF ReceiveReport, Calm, RequestTypeOK, GoTo, Optional, ErrorCodes, t
<1>4. ASSUME NEW p \in Requests PROVE Local(p)'
  BY <1>1, <1>2 DEF ReceiveReport, Calm, RequestTypeOK, GoTo, Local, Is, IsTranscript, t
<1> QED
  BY <1>3, <1>4 DEF Keeps, ReceiveReport

\* The agent's tools and its workflow are written under the session of the turn,
\* whether or not the handler still waits for them.
LEMMA AgentToolKeeps ==
  ASSUME Calm, NEW r \in Requests, NEW status \in ToolStatuses, AgentTool(r, status)
  PROVE  Keeps
<1>1. agent[r] = "running" /\ job[r] \in VoiceTurns
  BY DEF AgentTool, Agent!MayEndTool, Calm, Local
<1> DEFINE event == [sessionId |-> job[r].sessionId, idempotencyKey |-> SpanKey(r, "tool")]
           call == [sessionId |-> job[r].sessionId, status |-> status,
                    idempotencyKey |-> SpanKey(r, "tool")]
<1>2. event \in EventInputs /\ call \in ToolInputs
  BY <1>1, VoiceTurnFacts, RequestKeys DEF EventInputs, ToolInputs
<1>3. RecordToolSpan(event, call)
  BY DEF AgentTool
<1>4. StoreNext
  BY <1>2, <1>3 DEF StoreNext
<1>5. RequestTypeOK'
  BY DEF AgentTool, Calm, RequestTypeOK
<1>6. ASSUME NEW p \in Requests PROVE Local(p)'
  BY <1>1 DEF AgentTool, Calm, RequestTypeOK, Local, Is, IsTranscript
<1> QED
  BY <1>4, <1>5, <1>6 DEF Keeps

\* An answer that comes after the timeout changes no request.
LEMMA AgentFinishesKeeps ==
  ASSUME Calm, NEW r \in Requests, NEW result \in {"ok", "timeout", "error"}, AgentFinishes(r, result)
  PROVE  Keeps
<1>1. agent[r] # "off" /\ job[r] \in VoiceTurns
  BY DEF AgentFinishes, Agent!MayReturn, Calm, Local
<1> DEFINE event == [sessionId |-> job[r].sessionId, idempotencyKey |-> SpanKey(r, "workflow")]
<1>2. event \in EventInputs
  BY <1>1, VoiceTurnFacts, RequestKeys DEF EventInputs
<1>3. RecordSpan(event)
  BY DEF AgentFinishes
<1>4. StoreNext
  BY <1>2, <1>3 DEF StoreNext
<1>5. RequestTypeOK'
  BY DEF AgentFinishes, Calm, RequestTypeOK, GoTo, Finish, Optional, ErrorCodes
<1>6. ASSUME NEW p \in Requests PROVE Local(p)'
  BY <1>1 DEF AgentFinishes, Calm, RequestTypeOK, GoTo, Finish, Local, Is, IsTranscript
<1> QED
  BY <1>4, <1>5, <1>6 DEF Keeps

\* The timeout answers a request that still waits for its agent, and writes nothing.
LEMMA VoiceTimeoutKeeps ==
  ASSUME Calm, NEW r \in Requests, VoiceTimeout(r)
  PROVE  Keeps
<1>1. RequestTypeOK'
  BY DEF VoiceTimeout, Calm, RequestTypeOK, GoTo, Finish, Optional, ErrorCodes
<1>2. ASSUME NEW p \in Requests PROVE Local(p)'
  BY DEF VoiceTimeout, Calm, RequestTypeOK, GoTo, Finish, Local, Is, IsTranscript
<1> QED
  BY <1>1, <1>2 DEF Keeps, VoiceTimeout

\* A failed write ends the request or leaves it to its score.
LEMMA VoiceWriteFailsKeeps ==
  ASSUME Calm, NEW r \in Requests, VoiceWriteFails(r)
  PROVE  Keeps
<1>1. RequestTypeOK'
  BY DEF VoiceWriteFails, Calm, RequestTypeOK, GoTo, Finish, Optional, ErrorCodes, AfterFailure, IsCallEnd
<1>2. ASSUME NEW p \in Requests PROVE Local(p)'
  BY VoiceTurnFacts, ReportReadFacts DEF VoiceWriteFails, Calm, RequestTypeOK, GoTo, Finish, Local, Is, IsTranscript, AfterFailure, IsCallEnd
<1> QED
  BY <1>1, <1>2 DEF Keeps, VoiceWriteFails

\* The process ends with its rows as they were.
LEMMA UnhandledTimeoutKeeps ==
  ASSUME Calm, NEW r \in Requests, UnhandledTimeout(r)
  PROVE  Keeps
<1>1. RequestTypeOK'
  BY DEF UnhandledTimeout, Calm, RequestTypeOK, GoTo, Finish, Optional, ErrorCodes
<1>2. ASSUME NEW p \in Requests PROVE Local(p)'
  BY DEF UnhandledTimeout, Calm, RequestTypeOK, GoTo, Finish, Local, Is, IsTranscript
<1> QED
  BY <1>1, <1>2 DEF Keeps, UnhandledTimeout

\* A read goes on to a score only where one is due.
LEMMA FetchReportKeeps ==
  ASSUME Calm, NEW r \in Requests, FetchReport(r)
  PROVE  Keeps
<1>1. RequestTypeOK'
  BY DEF FetchReport, Calm, RequestTypeOK, GoTo, Finish, Optional, ErrorCodes
<1>2. ASSUME NEW p \in Requests PROVE Local(p)'
  BY ReportReadFacts DEF FetchReport, Calm, RequestTypeOK, GoTo, Finish, Local, Is, IsTranscript
<1> QED
  BY <1>1, <1>2 DEF Keeps, FetchReport

\* A read that fails answers its own request alone.
LEMMA ReportReadFailsKeeps ==
  ASSUME Calm, NEW r \in Requests, ReportReadFails(r)
  PROVE  Keeps
<1>1. RequestTypeOK'
  BY DEF ReportReadFails, Calm, RequestTypeOK, GoTo, Finish, Optional, ErrorCodes
<1>2. ASSUME NEW p \in Requests PROVE Local(p)'
  BY VoiceTurnFacts, ToolJobFacts, ReportReadFacts DEF ReportReadFails, Calm, RequestTypeOK, GoTo, Finish, Local, Is, IsTranscript
<1> QED
  BY <1>1, <1>2 DEF Keeps, ReportReadFails

\* A request whose ensureSession failed goes on under the minted id.
LEMMA ToolUpsertFailsKeeps ==
  ASSUME Calm, NEW r \in Requests, ToolUpsertFails(r)
  PROVE  Keeps
<1>1. RequestTypeOK'
  BY DEF ToolUpsertFails, Calm, RequestTypeOK, GoTo, Finish, Optional, ErrorCodes
<1>2. ASSUME NEW p \in Requests PROVE Local(p)'
  BY DEF ToolUpsertFails, Calm, RequestTypeOK, GoTo, Finish, Local, Is, IsTranscript
<1> QED
  BY <1>1, <1>2 DEF Keeps, ToolUpsertFails

\* The writes of a voice turn, each one call of the port.
LEMMA VoiceUpsertKeeps ==
  ASSUME Calm, NEW r \in Requests, VoiceUpsert(r)
  PROVE  Keeps
<1>1. job[r] \in VoiceTurns
  BY DEF VoiceUpsert, Calm, Local
<1> DEFINE in == [sessionId |-> job[r].sessionId,
                  externalChannelId |-> job[r].externalChannelId,
                  eventType |-> job[r].eventType,
                  occurredAt |-> job[r].occurredAt,
                  idempotencyKey |-> InboundKey(job[r])]
<1>2. in \in UpsertInputs
  BY <1>1, VoiceTurnFacts, RequestKeys DEF UpsertInputs
<1>3. UpsertSession(in)
  BY DEF VoiceUpsert
<1>4. StoreNext
  BY <1>2, <1>3 DEF StoreNext
<1>5. RequestTypeOK'
  BY <1>1, VoiceTurnFacts DEF VoiceUpsert, Calm, RequestTypeOK, GoTo, Finish, Optional, ErrorCodes
<1>6. ASSUME NEW p \in Requests PROVE Local(p)'
  BY <1>1, VoiceTurnFacts
     DEF VoiceUpsert, Calm, RequestTypeOK, GoTo, Finish, Local, Is, IsTranscript, IsCallEnd
<1> QED
  BY <1>4, <1>5, <1>6 DEF Keeps

\* The question.
LEMMA VoiceUserTurnKeeps ==
  ASSUME Calm, NEW r \in Requests, VoiceUserTurn(r)
  PROVE  Keeps
<1>1. job[r] \in VoiceTurns
  BY DEF VoiceUserTurn, Calm, Local
<1> DEFINE in == [sessionId |-> job[r].sessionId, role |-> "user",
                  idempotencyKey |-> InboundKey(job[r])]
<1>2. in \in TurnInputs
  BY <1>1, VoiceTurnFacts, RequestKeys DEF TurnInputs, Roles
<1>3. RecordTurn(in)
  BY DEF VoiceUserTurn
<1>4. StoreNext
  BY <1>2, <1>3 DEF StoreNext
<1>5. RequestTypeOK'
  BY <1>1, VoiceTurnFacts DEF VoiceUserTurn, Calm, RequestTypeOK, GoTo, Finish, Optional, ErrorCodes
<1>6. ASSUME NEW p \in Requests PROVE Local(p)'
  BY <1>1, VoiceTurnFacts
     DEF VoiceUserTurn, Calm, RequestTypeOK, GoTo, Finish, Local, Is, IsTranscript, IsCallEnd
<1> QED
  BY <1>4, <1>5, <1>6 DEF Keeps

\* The reply.
LEMMA VoiceAssistantTurnKeeps ==
  ASSUME Calm, NEW r \in Requests, VoiceAssistantTurn(r)
  PROVE  Keeps
<1>1. job[r] \in VoiceTurns
  BY DEF VoiceAssistantTurn, Calm, Local
<1> DEFINE in == [sessionId |-> job[r].sessionId, role |-> "assistant",
                  idempotencyKey |-> AssistantKey(r)]
<1>2. in \in TurnInputs
  BY <1>1, VoiceTurnFacts, RequestKeys DEF TurnInputs, Roles
<1>3. RecordTurn(in)
  BY DEF VoiceAssistantTurn
<1>4. StoreNext
  BY <1>2, <1>3 DEF StoreNext
<1>5. RequestTypeOK'
  BY <1>1, VoiceTurnFacts DEF VoiceAssistantTurn, Calm, RequestTypeOK, GoTo, Finish, Optional, ErrorCodes
<1>6. ASSUME NEW p \in Requests PROVE Local(p)'
  BY <1>1, VoiceTurnFacts
     DEF VoiceAssistantTurn, Calm, RequestTypeOK, GoTo, Finish, Local, Is, IsTranscript, IsCallEnd
<1> QED
  BY <1>4, <1>5, <1>6 DEF Keeps

\* The span of the request, and what its caller is told.
LEMMA VoiceReplyKeeps ==
  ASSUME Calm, NEW r \in Requests, VoiceReply(r)
  PROVE  Keeps
<1>1. job[r] \in VoiceTurns
  BY DEF VoiceReply, Calm, Local
<1> DEFINE in == [sessionId |-> job[r].sessionId, idempotencyKey |-> SpanKey(r, "http")]
<1>2. in \in EventInputs
  BY <1>1, VoiceTurnFacts, RequestKeys DEF EventInputs
<1>3. RecordSpan(in)
  BY DEF VoiceReply
<1>4. StoreNext
  BY <1>2, <1>3 DEF StoreNext
<1>5. RequestTypeOK'
  BY <1>1, VoiceTurnFacts DEF VoiceReply, Calm, RequestTypeOK, GoTo, Finish, Optional, ErrorCodes
<1>6. ASSUME NEW p \in Requests PROVE Local(p)'
  BY <1>1, VoiceTurnFacts
     DEF VoiceReply, Calm, RequestTypeOK, GoTo, Finish, Local, Is, IsTranscript, IsCallEnd
<1> QED
  BY <1>4, <1>5, <1>6 DEF Keeps

\* Every row of a report is a stored row.
LEMMA EvidenceIsRows == \A id : StoreTypeOK => ReportEvidence(id) \subseteq RowKeys
  BY DEF ReportEvidence, KeysOf, RowsOf, StoreTypeOK, TurnRecords, ToolInputs, EventInputs

\* A score is computed from rows that are stored.
LEMMA ReadForEvaluationKeeps ==
  ASSUME Calm, NEW r \in Requests, ReadForEvaluation(r)
  PROVE  Keeps
<1>1. pc[r] = "read_report" /\ job[r] \in VoiceTurns \cup ReportReads /\ ~IsTranscript(r)
  BY DEF ReadForEvaluation, Calm, Local
<1>2. [evidence |-> ReportEvidence(job[r].sessionId)] \in Evaluations
  BY EvidenceIsRows DEF Calm, StoreInv, Evaluations
<1>3. RequestTypeOK'
  BY <1>2 DEF ReadForEvaluation, AfterEvaluation, Calm, RequestTypeOK, GoTo, Finish, Optional, ErrorCodes
<1>4. ASSUME NEW p \in Requests PROVE Local(p)'
  BY <1>1, VoiceTurnFacts, ReportReadFacts
     DEF ReadForEvaluation, AfterEvaluation, Calm, RequestTypeOK, GoTo, Finish, Local, Is, IsTranscript
<1> QED
  BY <1>3, <1>4 DEF Keeps, ReadForEvaluation

\* The save is the step ScoreSession allows: Founded says that what was read then
\* is still there, however long ago it was read.
LEMMA SaveEvaluationKeeps ==
  ASSUME Calm, NEW r \in Requests, SaveEvaluation(r)
  PROVE  Keeps
<1> DEFINE id == job[r].sessionId
<1>1. pc[r] = "save_evaluation" /\ job[r] \in VoiceTurns \cup ReportReads /\ ~IsTranscript(r)
  BY DEF SaveEvaluation, Calm, Local
<1>2. /\ id \in DOMAIN sessions /\ Terminal(id)
      /\ scored[r].evidence \in SUBSET ReportEvidence(id)
      /\ scored[r] = [evidence |-> scored[r].evidence]
  BY <1>1 DEF Calm, Founded, SessionExists
<1>3. SaveSessionEvaluation(id, [evidence |-> scored[r].evidence])
  BY <1>2 DEF SaveEvaluation
<1>4. StoreNext
  BY <1>2, <1>3 DEF StoreNext, ScoreSession
<1>5. RequestTypeOK'
  BY DEF SaveEvaluation, AfterEvaluation, Calm, RequestTypeOK, GoTo, Finish, Optional, ErrorCodes
<1>6. ASSUME NEW p \in Requests PROVE Local(p)'
  BY <1>1, VoiceTurnFacts, ReportReadFacts
     DEF SaveEvaluation, AfterEvaluation, Calm, RequestTypeOK, GoTo, Finish, Local, Is, IsTranscript
<1> QED
  BY <1>4, <1>5, <1>6 DEF Keeps

\* ensureSession replaces the minted id by the one its channel is bound to.
LEMMA ToolUpsertKeeps ==
  ASSUME Calm, NEW r \in Requests, ToolUpsert(r)
  PROVE  Keeps
<1> DEFINE in == [sessionId |-> job[r].sessionId,
                  externalChannelId |-> job[r].externalChannelId,
                  eventType |-> "transcript",
                  occurredAt |-> job[r].occurredAt,
                  idempotencyKey |-> ToolSessionKey(job[r])]
           t == [job[r] EXCEPT !.sessionId = ResolvedId(in)]
<1>1. /\ pc[r] = "tool_upsert" /\ job[r] \in ToolJobs /\ job[r].sessionId \in SessionIds
      /\ nextCall[r] = 1
  BY DEF ToolUpsert, Calm, Local
<1>2. in \in UpsertInputs
  BY <1>1, ToolJobFacts DEF UpsertInputs, EventTypes
<1>3. UpsertSession(in)
  BY DEF ToolUpsert
<1>4. StoreNext
  BY <1>2, <1>3 DEF StoreNext
<1>5. ResolvedId(in) \in SessionIds
  BY <1>2, ResolvedIdFacts DEF Calm
<1>6. t \in ToolJobs /\ t.sessionId \in SessionIds /\ t.kind = "tools"
  BY <1>1, <1>5, ToolJobFacts
<1>7. job' = [job EXCEPT ![r] = t]
  BY DEF ToolUpsert
<1> HIDE DEF t
<1>8. RequestTypeOK'
  BY <1>6, <1>7 DEF ToolUpsert, Calm, RequestTypeOK, GoTo, Optional, ErrorCodes
<1>9. ASSUME NEW p \in Requests PROVE Local(p)'
  <2>1. /\ pc' = [pc EXCEPT ![r] = "tool_open"] /\ DOMAIN pc = Requests /\ DOMAIN job = Requests
        /\ UNCHANGED <<nextCall, agent, scored, outcome, logged, alive>>
    BY DEF ToolUpsert, GoTo, Calm, RequestTypeOK
  <2>2. Local(p) /\ Local(r)
    BY DEF Calm
  <2>3. CASE p # r
    BY <1>7, <2>1, <2>2, <2>3 DEF Local, Is, IsTranscript
  <2>4. CASE p = r
    <3>1. pc'[r] = "tool_open" /\ job'[r] = t
      BY <1>7, <2>1
    <3>2. agent[r] = "off" /\ nextCall[r] = 1 /\ outcome[r] = NoValue
      BY <1>1, <2>2, VoiceTurnFacts, ToolJobFacts DEF Local
    <3> QED
      BY <1>6, <2>1, <2>4, <3>1, <3>2 DEF Local, Is, IsTranscript
  <2> QED
    BY <2>3, <2>4
<1> QED
  BY <1>4, <1>8, <1>9 DEF Keeps

\* The span of a tools request.
LEMMA ToolOpenKeeps ==
  ASSUME Calm, NEW r \in Requests, ToolOpen(r)
  PROVE  Keeps
<1>1. /\ pc[r] = "tool_open" /\ job[r] \in ToolJobs /\ job[r].sessionId \in SessionIds
      /\ nextCall[r] = 1
  BY DEF ToolOpen, Calm, Local
<1> DEFINE event == [sessionId |-> job[r].sessionId, idempotencyKey |-> SpanKey(r, "http")]
<1>2. event \in EventInputs /\ RecordSpan(event)
  BY <1>1, RequestKeys DEF EventInputs, ToolOpen
<1>3. StoreNext
  BY <1>2 DEF StoreNext
<1>4. RequestTypeOK'
  BY DEF ToolOpen, Calm, RequestTypeOK, GoTo
<1>5. ASSUME NEW p \in Requests PROVE Local(p)'
  BY <1>1, ToolJobFacts DEF ToolOpen, Calm, RequestTypeOK, GoTo, Local, Is, IsTranscript
<1> QED
  BY <1>3, <1>4, <1>5 DEF Keeps

\* Each call writes its span and its row, or nothing where there is no session.
LEMMA ToolCallSettlesKeeps ==
  ASSUME Calm, NEW r \in Requests, NEW status \in ToolStatuses, ToolCallSettles(r, status)
  PROVE  Keeps
<1> DEFINE event == ToolCallSpan(r)
           call == [sessionId |-> job[r].sessionId, status |-> status,
                    idempotencyKey |-> ToolCallKey(r, job[r].calls[nextCall[r]])]
<1>1. pc[r] = "tool_call" /\ job[r] \in ToolJobs /\ nextCall[r] \in DOMAIN job[r].calls
  BY DEF ToolCallSettles, Calm, Local
<1>2. /\ Len(job[r].calls) \in Nat /\ DOMAIN job[r].calls = 1 .. Len(job[r].calls)
      /\ job[r].kind = "tools"
  BY <1>1, ToolJobFacts
<1>3. ASSUME job[r].sessionId = NoValue PROVE UNCHANGED storeVars
  BY <1>3 DEF ToolCallSettles
<1>4. ASSUME job[r].sessionId # NoValue PROVE StoreNext
  <2>1. event \in EventInputs /\ call \in ToolInputs
    BY <1>1, <1>4, ToolJobFacts DEF ToolCallSpan, EventInputs, ToolInputs, Optional
  <2>2. RecordToolSpan(event, call)
    BY <1>4 DEF ToolCallSettles
  <2> QED
    BY <2>1, <2>2 DEF StoreNext
<1>0. NextToolCall(r) /\ UNCHANGED <<job, agent, scored, logged, alive>>
  BY DEF ToolCallSettles
<1>5. RequestTypeOK'
  <2>1. nextCall' \in [Requests -> Nat]
    BY <1>0 DEF NextToolCall, Calm, RequestTypeOK
  <2>2. \/ UNCHANGED <<pc, outcome>>
        \/ pc' = [pc EXCEPT ![r] = "done"] /\ outcome' = [outcome EXCEPT ![r] = "ok"]
    BY <1>0 DEF NextToolCall, Finish, GoTo
  <2> QED
    BY <1>0, <2>1, <2>2 DEF Calm, RequestTypeOK, Optional, ErrorCodes
<1>6. ASSUME NEW p \in Requests PROVE Local(p)'
  BY <1>1, <1>2, <1>0 DEF NextToolCall, Calm, RequestTypeOK, Finish, GoTo, Local, Is, IsTranscript
<1>7. [StoreNext]_storeVars
  BY <1>3, <1>4
<1> QED
  BY <1>5, <1>6, <1>7 DEF Keeps

\* A row that cannot be written leaves its span behind.
LEMMA ToolRowFailsKeeps ==
  ASSUME Calm, NEW r \in Requests, ToolRowFails(r)
  PROVE  Keeps
<1> DEFINE event == ToolCallSpan(r)
<1>1. pc[r] = "tool_call" /\ job[r] \in ToolJobs /\ nextCall[r] \in DOMAIN job[r].calls
  BY DEF ToolRowFails, Calm, Local
<1>2. /\ Len(job[r].calls) \in Nat /\ DOMAIN job[r].calls = 1 .. Len(job[r].calls)
      /\ job[r].kind = "tools"
  BY <1>1, ToolJobFacts
<1>3. event \in EventInputs
  BY <1>1, ToolJobFacts DEF ToolRowFails, ToolCallSpan, EventInputs, Optional
<1>4. StoreNext
  BY <1>3 DEF ToolRowFails, StoreNext
<1>5. RequestTypeOK'
  BY <1>2 DEF ToolRowFails, NextToolCall, Calm, RequestTypeOK, Finish, GoTo, Optional, ErrorCodes
<1>6. ASSUME NEW p \in Requests PROVE Local(p)'
  BY <1>1, <1>2 DEF ToolRowFails, NextToolCall, Calm, RequestTypeOK, Finish, GoTo, Local, Is, IsTranscript
<1>7. [StoreNext]_storeVars
  BY <1>3, <1>4
<1> QED
  BY <1>5, <1>6, <1>7 DEF Keeps

-----------------------------------------------------------------------------
(* The store behind the handlers.                                          *)

Step(p) == Receive(p) \/ RunAgent(p) \/ Serve(p) \/ Fault(p)

\* Every step of a handler is one call of the port, or none.
LEMMA StepKeeps ==
  ASSUME Calm, NEW p \in Requests, Step(p)
  PROVE  Keeps
<1>1. ASSUME Receive(p) PROVE Keeps
  BY <1>1, ReceiveVoiceKeeps, ReceiveToolsKeeps, ReceiveReportKeeps DEF Receive
<1>2. ASSUME RunAgent(p) PROVE Keeps
  BY <1>2, AgentToolKeeps, AgentFinishesKeeps DEF RunAgent
<1>3. ASSUME Serve(p) PROVE Keeps
  BY <1>3, VoiceTimeoutKeeps, VoiceUpsertKeeps, VoiceUserTurnKeeps, VoiceAssistantTurnKeeps,
     VoiceReplyKeeps, ReadForEvaluationKeeps, SaveEvaluationKeeps, FetchReportKeeps,
     ToolUpsertKeeps, ToolOpenKeeps, ToolCallSettlesKeeps DEF Serve
<1>4. ASSUME Fault(p) PROVE Keeps
  BY <1>4, VoiceWriteFailsKeeps, UnhandledTimeoutKeeps, ReportReadFailsKeeps,
     ToolUpsertFailsKeeps, ToolRowFailsKeeps DEF Fault
<1> QED
  BY <1>1, <1>2, <1>3, <1>4 DEF Step

Told(r) == pc[r] \in {"reply", "done"} /\ IsTranscript(r) /\ ~Failed(r) /\ r \notin logged

\* A step of one request leaves the others where they are.
Others(p) ==
  \A r \in Requests \ {p} :
    /\ pc'[r] = pc[r] /\ job'[r] = job[r] /\ nextCall'[r] = nextCall[r]
    /\ scored'[r] = scored[r] /\ outcome'[r] = outcome[r]
    /\ r \in logged' <=> r \in logged

\* What a step may do to its own request, and which one does it.
Own(p) ==
  /\ pc[p] \notin {"idle", "tool_upsert"} => job'[p] = job[p] /\ pc'[p] \notin {"idle", "tool_upsert"}
  /\ pc[p] \notin {"idle", "agent", "upsert"} => pc'[p] \notin {"idle", "agent", "upsert"}
  /\ pc[p] \in {"reply", "done"} => pc'[p] \in {"reply", "done"}
  /\ pc[p] \in {"tool_call", "done"} => pc'[p] \in {"tool_call", "done"}
  /\ pc[p] # "agent" /\ IsTranscript(p) /\ ~Failed(p) => ~Failed(p)'
  /\ logged \subseteq logged'
  /\ pc'[p] = "assistant_turn" => pc[p] = "assistant_turn" \/ VoiceUserTurn(p)
  /\ Told(p)' => \/ Told(p) \/ VoiceAssistantTurn(p)
                 \/ VoiceUserTurn(p) /\ ReasoningOwner # "runtime"
  /\ turns' # turns => VoiceUserTurn(p) \/ VoiceAssistantTurn(p)
  /\ pc'[p] = "save_evaluation" =>
       \/ ReadForEvaluation(p) /\ MustScore(p)
            /\ scored'[p] = [evidence |-> ReportEvidence(job[p].sessionId)]
       \/ pc[p] = "save_evaluation" /\ scored'[p] = scored[p]

\* By cases on the steps: each moves one request, and only along its handler.
LEMMA StepMoves ==
  ASSUME Calm, NEW p \in Requests, Step(p)
  PROVE  Others(p) /\ Own(p)
<1>0. Local(p) /\ RequestTypeOK
  BY DEF Calm
<1>1. ASSUME \E e \in VoiceEvents : ReceiveVoice(p, e) PROVE Others(p) /\ Own(p)
  <2>1. Others(p)
    BY <1>0, <1>1 DEF ReceiveVoice, RequestTypeOK, Others, GoTo, Finish
  <2>2. Own(p)
    BY <1>0, <1>1, VoiceTurnFacts, ToolJobFacts, ReportReadFacts
       DEF ReceiveVoice, RequestTypeOK, Own, Local, GoTo, Finish, Told, Failed, Is, IsTranscript, ErrorCodes, storeVars
  <2> QED
    BY <2>1, <2>2
<1>2. ASSUME \E m \in ToolRequests, at \in Times : ReceiveTools(p, m, at) PROVE Others(p) /\ Own(p)
  <2>1. Others(p)
    BY <1>0, <1>2 DEF ReceiveTools, RequestTypeOK, Others, GoTo, Finish
  <2>2. Own(p)
    BY <1>0, <1>2, VoiceTurnFacts, ToolJobFacts, ReportReadFacts
       DEF ReceiveTools, RequestTypeOK, Own, Local, GoTo, Finish, Told, Failed, Is, IsTranscript, ErrorCodes, storeVars
  <2> QED
    BY <2>1, <2>2
<1>3. ASSUME \E q \in ReportRequests : ReceiveReport(p, q) PROVE Others(p) /\ Own(p)
  <2>1. Others(p)
    BY <1>0, <1>3 DEF ReceiveReport, RequestTypeOK, Others, GoTo, Finish
  <2>2. Own(p)
    BY <1>0, <1>3, VoiceTurnFacts, ToolJobFacts, ReportReadFacts
       DEF ReceiveReport, RequestTypeOK, Own, Local, GoTo, Finish, Told, Failed, Is, IsTranscript, ErrorCodes, storeVars
  <2> QED
    BY <2>1, <2>2
<1>4. ASSUME \E status \in ToolStatuses : AgentTool(p, status) PROVE Others(p) /\ Own(p)
  <2>1. Others(p)
    BY <1>0, <1>4 DEF AgentTool, RecordToolSpan, RequestTypeOK, Others, GoTo, Finish
  <2>2. Own(p)
    BY <1>0, <1>4, VoiceTurnFacts, ToolJobFacts, ReportReadFacts
       DEF AgentTool, RecordToolSpan, RequestTypeOK, Own, Local, GoTo, Finish, Told, Failed, Is, IsTranscript, ErrorCodes, storeVars
  <2> QED
    BY <2>1, <2>2
<1>5. ASSUME \E result \in {"ok", "timeout", "error"} : AgentFinishes(p, result) PROVE Others(p) /\ Own(p)
  <2>1. Others(p)
    BY <1>0, <1>5 DEF AgentFinishes, RecordSpan, RequestTypeOK, Others, GoTo, Finish
  <2>2. Own(p)
    BY <1>0, <1>5, VoiceTurnFacts, ErrorsAssumption
       DEF AgentFinishes, RecordSpan, RequestTypeOK, Own, Local, GoTo, Finish, Told, Failed, Is, IsTranscript, ErrorCodes, storeVars
  <2> QED
    BY <2>1, <2>2
<1>6. ASSUME VoiceTimeout(p) PROVE Others(p) /\ Own(p)
  <2>1. Others(p)
    BY <1>0, <1>6 DEF VoiceTimeout, RequestTypeOK, Others, GoTo, Finish
  <2>2. Own(p)
    BY <1>0, <1>6, VoiceTurnFacts, ErrorsAssumption
       DEF VoiceTimeout, RequestTypeOK, Own, Local, GoTo, Finish, Told, Failed, Is, IsTranscript, ErrorCodes, storeVars
  <2> QED
    BY <2>1, <2>2
<1>7. ASSUME VoiceUpsert(p) PROVE Others(p) /\ Own(p)
  <2>1. Others(p)
    BY <1>0, <1>7 DEF VoiceUpsert, UpsertSession, RequestTypeOK, Others, GoTo, Finish
  <2>2. Own(p)
    BY <1>0, <1>7, VoiceTurnFacts, ToolJobFacts, ReportReadFacts
       DEF VoiceUpsert, UpsertSession, RequestTypeOK, Own, Local, GoTo, Finish, Told, Failed, Is, IsTranscript, ErrorCodes, storeVars
  <2> QED
    BY <2>1, <2>2
<1>8. ASSUME VoiceUserTurn(p) PROVE Others(p) /\ Own(p)
  <2>1. Others(p)
    BY <1>0, <1>8 DEF VoiceUserTurn, RecordTurn, RequestTypeOK, Others, GoTo, Finish
  <2>2. Own(p)
    BY <1>0, <1>8, VoiceTurnFacts, ToolJobFacts, ReportReadFacts
       DEF VoiceUserTurn, RecordTurn, RequestTypeOK, Own, Local, GoTo, Finish, Told, Failed, Is, IsTranscript, ErrorCodes, storeVars
  <2> QED
    BY <2>1, <2>2
<1>9. ASSUME VoiceAssistantTurn(p) PROVE Others(p) /\ Own(p)
  <2>1. Others(p)
    BY <1>0, <1>9 DEF VoiceAssistantTurn, RecordTurn, RequestTypeOK, Others, GoTo, Finish
  <2>2. Own(p)
    BY <1>0, <1>9, VoiceTurnFacts, ToolJobFacts, ReportReadFacts
       DEF VoiceAssistantTurn, RecordTurn, RequestTypeOK, Own, Local, GoTo, Finish, Told, Failed, Is, IsTranscript, ErrorCodes, storeVars
  <2> QED
    BY <2>1, <2>2
<1>10. ASSUME VoiceReply(p) PROVE Others(p) /\ Own(p)
  <2>1. Others(p)
    BY <1>0, <1>10 DEF VoiceReply, RecordSpan, RequestTypeOK, Others, GoTo, Finish
  <2>2. Own(p)
    BY <1>0, <1>10, VoiceTurnFacts, ToolJobFacts, ReportReadFacts
       DEF VoiceReply, RecordSpan, RequestTypeOK, Own, Local, GoTo, Finish, Told, Failed, Is, IsTranscript, ErrorCodes, storeVars
  <2> QED
    BY <2>1, <2>2
<1>11. ASSUME ReadForEvaluation(p) PROVE Others(p) /\ Own(p)
  <2>1. Others(p)
    BY <1>0, <1>11 DEF ReadForEvaluation, AfterEvaluation, RequestTypeOK, Others, GoTo, Finish
  <2>2. Own(p)
    BY <1>0, <1>11, VoiceTurnFacts, ToolJobFacts, ReportReadFacts
       DEF ReadForEvaluation, AfterEvaluation, RequestTypeOK, Own, Local, GoTo, Finish, Told, Failed, Is, IsTranscript, ErrorCodes, storeVars
  <2> QED
    BY <2>1, <2>2
<1>12. ASSUME SaveEvaluation(p) PROVE Others(p) /\ Own(p)
  <2>1. Others(p)
    BY <1>0, <1>12 DEF SaveEvaluation, SaveSessionEvaluation, AfterEvaluation, RequestTypeOK, Others, GoTo, Finish
  <2>2. Own(p)
    BY <1>0, <1>12, VoiceTurnFacts, ToolJobFacts, ReportReadFacts
       DEF SaveEvaluation, SaveSessionEvaluation, AfterEvaluation, RequestTypeOK, Own, Local, GoTo, Finish, Told, Failed, Is, IsTranscript, ErrorCodes, storeVars
  <2> QED
    BY <2>1, <2>2
<1>13. ASSUME FetchReport(p) PROVE Others(p) /\ Own(p)
  <2>1. Others(p)
    BY <1>0, <1>13 DEF FetchReport, RequestTypeOK, Others, GoTo, Finish
  <2>2. Own(p)
    BY <1>0, <1>13, VoiceTurnFacts, ToolJobFacts, ReportReadFacts
       DEF FetchReport, RequestTypeOK, Own, Local, GoTo, Finish, Told, Failed, Is, IsTranscript, ErrorCodes, storeVars
  <2> QED
    BY <2>1, <2>2
<1>14. ASSUME ToolUpsert(p) PROVE Others(p) /\ Own(p)
  <2>1. Others(p)
    BY <1>0, <1>14 DEF ToolUpsert, UpsertSession, RequestTypeOK, Others, GoTo, Finish
  <2>2. Own(p)
    BY <1>0, <1>14, VoiceTurnFacts, ToolJobFacts, ReportReadFacts
       DEF ToolUpsert, UpsertSession, RequestTypeOK, Own, Local, GoTo, Finish, Told, Failed, Is, IsTranscript, ErrorCodes, storeVars
  <2> QED
    BY <2>1, <2>2
<1>15. ASSUME ToolOpen(p) PROVE Others(p) /\ Own(p)
  <2>1. Others(p)
    BY <1>0, <1>15 DEF ToolOpen, RecordSpan, RequestTypeOK, Others, GoTo, Finish
  <2>2. Own(p)
    BY <1>0, <1>15, VoiceTurnFacts, ToolJobFacts, ReportReadFacts
       DEF ToolOpen, RecordSpan, RequestTypeOK, Own, Local, GoTo, Finish, Told, Failed, Is, IsTranscript, ErrorCodes, storeVars
  <2> QED
    BY <2>1, <2>2
<1>16. ASSUME \E status \in ToolStatuses : ToolCallSettles(p, status) PROVE Others(p) /\ Own(p)
  <2>1. Others(p)
    BY <1>0, <1>16 DEF ToolCallSettles, RecordToolSpan, NextToolCall, RequestTypeOK, Others, GoTo, Finish
  <2>2. Own(p)
    BY <1>0, <1>16, VoiceTurnFacts, ToolJobFacts, ReportReadFacts
       DEF ToolCallSettles, RecordToolSpan, NextToolCall, RequestTypeOK, Own, Local, GoTo, Finish, Told, Failed, Is, IsTranscript, ErrorCodes, storeVars
  <2> QED
    BY <2>1, <2>2
<1>17. ASSUME VoiceWriteFails(p) PROVE Others(p) /\ Own(p)
  <2>1. Others(p)
    BY <1>0, <1>17 DEF VoiceWriteFails, AfterFailure, IsCallEnd, RequestTypeOK, Others, GoTo, Finish
  <2>2. Own(p)
    BY <1>0, <1>17, VoiceTurnFacts, ToolJobFacts, ReportReadFacts
       DEF VoiceWriteFails, AfterFailure, IsCallEnd, RequestTypeOK, Own, Local, GoTo, Finish, Told, Failed, Is, IsTranscript, ErrorCodes, storeVars
  <2> QED
    BY <2>1, <2>2
<1>18. ASSUME UnhandledTimeout(p) PROVE Others(p) /\ Own(p)
  <2>1. Others(p)
    BY <1>0, <1>18 DEF UnhandledTimeout, RequestTypeOK, Others, GoTo, Finish
  <2>2. Own(p)
    BY <1>0, <1>18, VoiceTurnFacts, ToolJobFacts, ReportReadFacts
       DEF UnhandledTimeout, RequestTypeOK, Own, Local, GoTo, Finish, Told, Failed, Is, IsTranscript, ErrorCodes, storeVars
  <2> QED
    BY <2>1, <2>2
<1>19. ASSUME ReportReadFails(p) PROVE Others(p) /\ Own(p)
  <2>1. Others(p)
    BY <1>0, <1>19 DEF ReportReadFails, RequestTypeOK, Others, GoTo, Finish
  <2>2. Own(p)
    BY <1>0, <1>19, VoiceTurnFacts, ToolJobFacts, ReportReadFacts
       DEF ReportReadFails, RequestTypeOK, Own, Local, GoTo, Finish, Told, Failed, Is, IsTranscript, ErrorCodes, storeVars
  <2> QED
    BY <2>1, <2>2
<1>20. ASSUME ToolUpsertFails(p) PROVE Others(p) /\ Own(p)
  <2>1. Others(p)
    BY <1>0, <1>20 DEF ToolUpsertFails, RequestTypeOK, Others, GoTo, Finish
  <2>2. Own(p)
    BY <1>0, <1>20, VoiceTurnFacts, ToolJobFacts, ReportReadFacts
       DEF ToolUpsertFails, RequestTypeOK, Own, Local, GoTo, Finish, Told, Failed, Is, IsTranscript, ErrorCodes, storeVars
  <2> QED
    BY <2>1, <2>2
<1>21. ASSUME ToolRowFails(p) PROVE Others(p) /\ Own(p)
  <2>1. Others(p)
    BY <1>0, <1>21 DEF ToolRowFails, RecordSpan, NextToolCall, RequestTypeOK, Others, GoTo, Finish
  <2>2. Own(p)
    BY <1>0, <1>21, VoiceTurnFacts, ToolJobFacts, ReportReadFacts
       DEF ToolRowFails, RecordSpan, NextToolCall, RequestTypeOK, Own, Local, GoTo, Finish, Told, Failed, Is, IsTranscript, ErrorCodes, storeVars
  <2> QED
    BY <2>1, <2>2
<1> QED
  BY <1>1, <1>2, <1>3, <1>4, <1>5, <1>6, <1>7, <1>8, <1>9, <1>10, <1>11, <1>12, <1>13, <1>14, <1>15, <1>16, <1>17, <1>18, <1>19, <1>20, <1>21 DEF Step, Receive, RunAgent, Serve, Fault

\* Rows are only added, so what a report showed stays in it.
LEMMA EvidenceStays ==
  ASSUME StoreInv, [StoreNext]_storeVars
  PROVE  \A id : ReportEvidence(id) \subseteq ReportEvidence(id)'
  BY StepKeepsRows DEF ReportEvidence, KeysOf, RowsOf

\* Between the read a score is made from and its save any request may run; none
\* takes back what the score was made from, nor the end of the call.
LEMMA StepKeepsFounded ==
  ASSUME Calm, NEW p \in Requests, Step(p), NEW r \in Requests
  PROVE  Founded(r)'
<1> SUFFICES ASSUME pc'[r] = "save_evaluation" PROVE Founded(r)'
  BY DEF Founded
<1> DEFINE id == job[r].sessionId
<1>1. [StoreNext]_storeVars /\ StoreInv
  BY StepKeeps DEF Keeps, Calm
<1>2. /\ pc[r] \in {"read_report", "save_evaluation"} /\ job'[r] = job[r]
      /\ SessionExists(id) /\ Terminal(id)
      /\ scored'[r].evidence \subseteq ReportEvidence(id)
      /\ scored'[r] = [evidence |-> scored'[r].evidence]
  <2>1. CASE r # p
    BY <2>1, StepMoves DEF Others, Calm, Founded
  <2>2. CASE r = p /\ ReadForEvaluation(p) /\ MustScore(p)
    <3>1. scored'[p] = [evidence |-> ReportEvidence(job[p].sessionId)] /\ job' = job
          /\ pc[p] = "read_report"
      BY <2>2, StepMoves DEF ReadForEvaluation, Own, Calm, Local
    <3> QED
      BY <2>2, <3>1 DEF MustScore
  <2>3. CASE r = p /\ pc[p] = "save_evaluation" /\ scored'[p] = scored[p]
    BY <2>3, StepMoves DEF Own, Calm, Founded
  <2> QED
    BY <2>1, <2>2, <2>3, StepMoves DEF Own
<1>3. SessionExists(id)' /\ Terminal(id)'
  BY <1>1, <1>2, StepKeepsFinished DEF SessionExists, Terminal
<1>4. ReportEvidence(id) \subseteq ReportEvidence(id)'
  BY <1>1, <1>2, EvidenceStays DEF ReportEvidence, KeysOf, RowsOf
<1> QED
  BY <1>2, <1>3, <1>4 DEF Founded

\* Nothing has arrived and nothing is stored.
LEMMA InitCalm == Init => Calm
<1> SUFFICES ASSUME Init PROVE Calm
  OBVIOUS
<1>1. StoreInv
  BY InitInv DEF Init
<1>2. RequestTypeOK
  BY DEF Init, RequestTypeOK, Optional
<1>3. ASSUME NEW r \in Requests PROVE Local(r) /\ Founded(r)
  BY DEF Init, Local, Founded, Is, IsTranscript
<1> QED
  BY <1>1, <1>2, <1>3 DEF Calm

\* A step of any request keeps what holds of all of them, and is one call of the
\* port or none.
LEMMA NextCalm == Calm /\ [Next]_vars => Calm' /\ [StoreNext]_storeVars
<1> SUFFICES ASSUME Calm, [Next]_vars PROVE Calm' /\ [StoreNext]_storeVars
  OBVIOUS
<1>1. ASSUME UNCHANGED vars PROVE Calm' /\ [StoreNext]_storeVars
  <2>1. UNCHANGED storeVars /\ UNCHANGED reqVars
    BY <1>1 DEF vars
  <2>2. StoreInv'
    BY <2>1, NextInv DEF Calm
  <2>3. RequestTypeOK'
    BY <2>1 DEF Calm, RequestTypeOK, reqVars
  <2>4. ASSUME NEW r \in Requests PROVE Local(r)' /\ Founded(r)'
    BY <2>1 DEF Calm, Local, Founded, Is, IsTranscript, SessionExists, Terminal, ReportEvidence,
       KeysOf, RowsOf, reqVars, storeVars
  <2> QED
    BY <2>1, <2>2, <2>3, <2>4 DEF Calm
<1>2. ASSUME NEW p \in Requests, Step(p) PROVE Calm' /\ [StoreNext]_storeVars
  <2>1. Keeps
    BY <1>2, StepKeeps
  <2>2. StoreInv'
    BY <2>1, NextInv DEF Keeps, Calm
  <2> QED
    BY <1>2, <2>1, <2>2, StepKeepsFounded DEF Keeps, Calm
<1> QED
  BY <1>1, <1>2 DEF Next, Step

\* The store's invariant, each request's place in its handler and the basis of
\* each score not yet saved hold throughout, in any instance.
THEOREM RuntimeInvariance == Spec => []Calm
<1> QED
  BY InitCalm, NextCalm, PTL DEF Spec

\* Type correctness, for every set of requests, bodies, channels and faults.
THEOREM RuntimeTypeCorrect == Spec => []TypeOK
<1>1. Calm => TypeOK
  BY DEF Calm, StoreInv, TypeOK
<1> QED
  BY <1>1, RuntimeInvariance, PTL

\* Whatever the requests do and in whatever order they are served, the history
\* sees calls of its port one at a time: all that is proved of the store alone
\* holds in the runtime.
THEOREM RuntimeImplementsStore == Spec => RefinesStore
<1>1. Init => StoreInit
  BY DEF Init
<1> QED
  BY <1>1, NextCalm, RuntimeInvariance, PTL DEF Spec, RefinesStore, StoreSpec

\* What MemoryPersistence_proofs proves of the store alone holds of the store the
\* handlers share (sessions bound once, dense turn numbers, ended calls).
THEOREM RuntimeKeepsStoreInvariant == Spec => []StoreInv
<1> QED
  BY RuntimeImplementsStore, StoreInvariance, PTL DEF RefinesStore

-----------------------------------------------------------------------------
(* The transcript.                                                         *)

\* Request r is the one that added row t: its writes have begun and its caller
\* was not told that it failed.
WrittenBy(t, r) ==
  /\ IsTranscript(r) /\ ~Failed(r) /\ pc[r] \notin {"idle", "agent", "upsert"}
  /\ t.sessionId = job[r].sessionId
  /\ \/ UserTurnOf(r, t)
     \/ t.role = "assistant" /\ t.idempotencyKey = AssistantKey(r) /\ pc[r] \in {"reply", "done"}

\* The question comes first, then the reply, and only then is the caller told.
Transcripts ==
  /\ \A t \in turns : \E r \in Requests : WrittenBy(t, r)
  /\ \A r \in Requests :
       pc[r] = "assistant_turn" \/ Told(r) => \E u \in turns : UserTurnOf(r, u)
  /\ \A r \in Requests :
       Told(r) /\ ReasoningOwner = "runtime" =>
         \E a \in turns : a.role = "assistant" /\ a.idempotencyKey = AssistantKey(r)

\* A question's key is no reply's: randomUUID gives every request its own.
LEMMA KeysDiffer ==
  ASSUME NEW t, NEW r
  PROVE  /\ InboundKey(t) # AssistantKey(r)
         /\ \A q : AssistantKey(q) = AssistantKey(r) => q = r
  BY DEF InboundKey, AssistantKey

\* A request's own writes leave its rows, also when they find a row there.
LEMMA UserTurnIsThere ==
  ASSUME Calm, Transcripts, NEW p \in Requests, VoiceUserTurn(p)
  PROVE  /\ \E u \in turns' : UserTurnOf(p, u)
         /\ \A t \in turns' \ turns : t.sessionId = job[p].sessionId /\ UserTurnOf(p, t)
         /\ turns \subseteq turns'
<1>1. turns' = IF HasKey(turns, InboundKey(job[p])) THEN turns
               ELSE turns \cup {[sessionId |-> job[p].sessionId,
                                 index |-> NextIndex(job[p].sessionId), role |-> "user",
                                 idempotencyKey |-> InboundKey(job[p])]}
  BY DEF VoiceUserTurn, RecordTurn, AddTurn
<1>2. CASE HasKey(turns, InboundKey(job[p]))
  <2>1. PICK u \in turns : u.idempotencyKey = InboundKey(job[p])
    BY <1>2 DEF HasKey
  <2>2. UserTurnOf(p, u)
    BY <2>1, KeysDiffer DEF Transcripts, WrittenBy, UserTurnOf
  <2> QED
    BY <1>1, <1>2, <2>2
<1>3. CASE ~HasKey(turns, InboundKey(job[p]))
  <2> DEFINE new == [sessionId |-> job[p].sessionId, index |-> NextIndex(job[p].sessionId),
                     role |-> "user", idempotencyKey |-> InboundKey(job[p])]
  <2>1. turns' = turns \cup {new}
    BY <1>1, <1>3
  <2>2. new.sessionId = job[p].sessionId /\ UserTurnOf(p, new)
    BY DEF UserTurnOf
  <2> HIDE DEF new
  <2> QED
    BY <2>1, <2>2
<1> QED
  BY <1>2, <1>3

\* No row has the reply's key before the one write of it.
LEMMA AssistantTurnIsNew ==
  ASSUME Calm, Transcripts, NEW p \in Requests, VoiceAssistantTurn(p)
  PROVE  \E a :
           /\ turns' = turns \cup {a}
           /\ a.sessionId = job[p].sessionId /\ a.index = NextIndex(job[p].sessionId)
           /\ a.role = "assistant" /\ a.idempotencyKey = AssistantKey(p)
<1> DEFINE a == [sessionId |-> job[p].sessionId, index |-> NextIndex(job[p].sessionId),
                 role |-> "assistant", idempotencyKey |-> AssistantKey(p)]
<1>1. pc[p] = "assistant_turn"
  BY DEF VoiceAssistantTurn
<1>2. ~HasKey(turns, AssistantKey(p))
  BY <1>1, KeysDiffer DEF HasKey, Transcripts, WrittenBy, UserTurnOf
<1>3. turns' = turns \cup {a}
  BY <1>2 DEF VoiceAssistantTurn, RecordTurn, AddTurn
<1>4. /\ a.sessionId = job[p].sessionId /\ a.index = NextIndex(job[p].sessionId)
      /\ a.role = "assistant" /\ a.idempotencyKey = AssistantKey(p)
  OBVIOUS
<1> HIDE DEF a
<1> QED
  BY <1>3, <1>4

\* A row stays its writer's, and a write that finds its key taken finds the same
\* question there.
LEMMA StepKeepsTranscripts ==
  ASSUME Calm, Transcripts, NEW p \in Requests, Step(p)
  PROVE  Transcripts'
<1>1. Others(p) /\ Own(p) /\ Local(p)
  BY StepMoves DEF Calm
<1>2. turns \subseteq turns'
  BY StepKeeps, StepKeepsRows DEF Keeps, Calm
<1>3. ASSUME NEW r \in Requests, pc[r] \notin {"idle", "agent", "upsert"}, IsTranscript(r)
      PROVE  job'[r] = job[r]
  BY <1>1, <1>3, ToolJobFacts DEF Others, Own, Local, IsTranscript, Is
<1>4. ASSUME NEW t, NEW r \in Requests, WrittenBy(t, r) PROVE WrittenBy(t, r)'
  <2>1. job'[r] = job[r] /\ pc'[r] \notin {"idle", "agent", "upsert"}
    BY <1>1, <1>3, <1>4 DEF WrittenBy, Others, Own
  <2>2. IsTranscript(r)' /\ UNCHANGED job[r]
    BY <1>4, <2>1 DEF WrittenBy, IsTranscript, Is
  <2>3. ~Failed(r)' /\ (pc[r] \in {"reply", "done"} => pc'[r] \in {"reply", "done"})
    BY <1>1, <1>4 DEF WrittenBy, Others, Own, Failed
  <2> QED
    BY <1>4, <2>1, <2>2, <2>3 DEF WrittenBy, UserTurnOf
<1>5. ASSUME NEW t \in turns' PROVE \E r \in Requests : WrittenBy(t, r)'
  <2>1. CASE t \in turns
    BY <1>4, <2>1 DEF Transcripts
  <2>2. CASE t \notin turns /\ VoiceUserTurn(p)
    <3>1. t.sessionId = job[p].sessionId /\ UserTurnOf(p, t)
      BY <2>2, UserTurnIsThere
    <3>2. pc[p] = "user_turn" /\ IsTranscript(p) /\ ~Failed(p) /\ job' = job
      BY <1>1, <2>2 DEF VoiceUserTurn, Local, Failed
    <3>3. WrittenBy(t, p)
      BY <3>1, <3>2 DEF WrittenBy
    <3> QED
      BY <1>4, <3>3
  <2>3. CASE t \notin turns /\ VoiceAssistantTurn(p)
    <3>1. t.sessionId = job[p].sessionId /\ t.role = "assistant" /\ t.idempotencyKey = AssistantKey(p)
      BY <2>3, AssistantTurnIsNew
    <3>2. pc[p] = "assistant_turn" /\ IsTranscript(p) /\ ~Failed(p) /\ job' = job
          /\ outcome' = outcome /\ pc'[p] = "reply"
      BY <1>1, <2>3 DEF VoiceAssistantTurn, Local, Failed, GoTo, Calm, RequestTypeOK
    <3> QED
      BY <3>1, <3>2 DEF WrittenBy, IsTranscript, Is, Failed
  <2> QED
    BY <1>1, <2>1, <2>2, <2>3 DEF Own
<1>6. ASSUME NEW r \in Requests, (pc[r] = "assistant_turn" \/ Told(r))'
      PROVE  (\E u \in turns : UserTurnOf(r, u))'
  <2>1. CASE r = p /\ VoiceUserTurn(p)
    <3>1. job' = job
      BY <2>1 DEF VoiceUserTurn
    <3> QED
      BY <2>1, <3>1, UserTurnIsThere DEF UserTurnOf
  <2>2. CASE pc[r] = "assistant_turn" \/ Told(r)
    <3>1. PICK u \in turns : UserTurnOf(r, u)
      BY <2>2 DEF Transcripts
    <3>2. job'[r] = job[r]
      BY <1>1, <2>2 DEF Others, Own, Told
    <3> QED
      BY <1>2, <3>1, <3>2 DEF UserTurnOf
  <2>3. r # p => (pc[r] = "assistant_turn" \/ Told(r))
    BY <1>1, <1>6 DEF Others, Told, IsTranscript, Is, Failed
  <2>4. VoiceAssistantTurn(p) => pc[p] = "assistant_turn"
    BY DEF VoiceAssistantTurn
  <2> QED
    BY <1>1, <1>6, <2>1, <2>2, <2>3, <2>4 DEF Own
<1>7. ASSUME NEW r \in Requests, Told(r)', ReasoningOwner = "runtime"
      PROVE  \E a \in turns' : a.role = "assistant" /\ a.idempotencyKey = AssistantKey(r)
  <2>1. CASE r = p /\ VoiceAssistantTurn(p)
    BY <2>1, AssistantTurnIsNew
  <2>2. CASE Told(r)
    BY <1>2, <1>7, <2>2 DEF Transcripts
  <2>3. r # p => Told(r)
    BY <1>1, <1>7 DEF Others, Told, IsTranscript, Is, Failed
  <2> QED
    BY <1>1, <1>7, <2>1, <2>2, <2>3 DEF Own
<1> QED
  BY <1>5, <1>6, <1>7 DEF Transcripts

\* Every request for one event names one session: a client that names its
\* session names it each time, and without a name each request mints its own.
OneSessionPerEvent ==
  \A s, t \in VoiceTurns : InboundKey(s) = InboundKey(t) => s.sessionId = t.sessionId

\* A transcript's job is a mapped body.
LEMMA WrittenVoice ==
  ASSUME Calm, NEW r \in Requests, IsTranscript(r)
  PROVE  job[r] \in VoiceTurns
  BY DEF Calm, Local, IsTranscript


\* A reply gets the next number of the session its own question is in; dense
\* numbers make that the greater one.
LEMMA StepKeepsOrder ==
  ASSUME Calm, Transcripts, OneSessionPerEvent, NoAnswerWithoutItsQuestion,
         NEW p \in Requests, Step(p)
  PROVE  NoAnswerWithoutItsQuestion'
<1>1. Others(p) /\ Own(p) /\ Local(p)
  BY StepMoves DEF Calm
<1>2. turns \subseteq turns'
  BY StepKeeps, StepKeepsRows DEF Keeps, Calm
<1> SUFFICES ASSUME NEW a \in turns', a.role = "assistant"
             PROVE  \E r \in Requests, u \in turns' :
                      /\ a.idempotencyKey = AssistantKey(r)
                      /\ UserTurnOf(r, u)'
                      /\ u.sessionId = a.sessionId
                      /\ u.index < a.index
  BY DEF NoAnswerWithoutItsQuestion
<1>3. CASE a \in turns
  <2>1. PICK r \in Requests, u \in turns :
          /\ a.idempotencyKey = AssistantKey(r) /\ UserTurnOf(r, u)
          /\ u.sessionId = a.sessionId /\ u.index < a.index
    BY <1>3 DEF NoAnswerWithoutItsQuestion
  <2>2. PICK q \in Requests : WrittenBy(a, q)
    BY <1>3 DEF Transcripts
  <2>3. q = r /\ pc[r] \in {"reply", "done"}
    BY <2>1, <2>2, KeysDiffer DEF WrittenBy, UserTurnOf
  <2>4. job'[r] = job[r]
    BY <1>1, <2>3 DEF Others, Own
  <2> QED
    BY <1>2, <2>1, <2>4 DEF UserTurnOf
<1>4. CASE a \notin turns
  <2> DEFINE id == job[p].sessionId
  <2>1. VoiceAssistantTurn(p)
    BY <1>1, <1>4, UserTurnIsThere DEF Own, UserTurnOf
  <2>2. pc[p] = "assistant_turn" /\ job' = job /\ IsTranscript(p)
    BY <1>1, <2>1 DEF VoiceAssistantTurn, Local
  <2>3. /\ a.sessionId = id /\ a.index = Cardinality(RowsOf(turns, id))
        /\ a.idempotencyKey = AssistantKey(p)
    BY <1>4, <2>1, AssistantTurnIsNew DEF NextIndex
  <2>4. PICK u \in turns : UserTurnOf(p, u)
    BY <2>2 DEF Transcripts
  <2>5. PICK q \in Requests : WrittenBy(u, q)
    BY DEF Transcripts
  <2>6. UserTurnOf(q, u) /\ u.sessionId = job[q].sessionId /\ IsTranscript(q)
    BY <2>4, <2>5 DEF WrittenBy, UserTurnOf
  <2>7. job[p] \in VoiceTurns /\ job[q] \in VoiceTurns
    BY <2>2, <2>6, WrittenVoice
  <2>8. u.sessionId = id /\ id \in SessionIds
    BY <2>4, <2>6, <2>7, VoiceTurnFacts DEF UserTurnOf, OneSessionPerEvent
  <2>9. u.index < a.index
    <3> DEFINE mine == RowsOf(turns, id)
    <3>1. u \in mine /\ {t.index : t \in mine} = 0 .. (Cardinality(mine) - 1)
      BY <2>8 DEF RowsOf, Calm, StoreInv, TurnIndexesAreDense
    <3>2. IsFiniteSet(mine)
      BY FS_Subset DEF RowsOf, Calm, StoreInv
    <3>3. Cardinality(mine) \in Nat
      BY <3>2, FS_CardinalityType
    <3> HIDE DEF mine
    <3>4. u.index \in 0 .. (Cardinality(mine) - 1)
      BY <3>1
    <3> QED
      BY <2>3, <3>3, <3>4 DEF mine
  <2> QED
    BY <1>2, <2>2, <2>3, <2>4, <2>8, <2>9 DEF UserTurnOf
<1> QED
  BY <1>3, <1>4

\* No row, no answer.
LEMMA InitTranscripts == Init => Transcripts /\ NoAnswerWithoutItsQuestion
  BY DEF Init, StoreInit, Transcripts, NoAnswerWithoutItsQuestion, Told

\* Any step, of a request or none.
LEMMA NextTranscripts ==
  Calm /\ Transcripts /\ [Next]_vars =>
    /\ Transcripts'
    /\ OneSessionPerEvent /\ NoAnswerWithoutItsQuestion => NoAnswerWithoutItsQuestion'
<1>1. ASSUME Calm, Transcripts, UNCHANGED vars
      PROVE  /\ Transcripts'
             /\ NoAnswerWithoutItsQuestion => NoAnswerWithoutItsQuestion'
  BY <1>1 DEF vars, reqVars, storeVars, Transcripts, NoAnswerWithoutItsQuestion, WrittenBy, Told,
     UserTurnOf, Failed, IsTranscript, Is
<1> QED
  BY <1>1, StepKeepsTranscripts, StepKeepsOrder DEF Next, Step

\* Each turn stored was written by a transcript that did not fail, and each that
\* was answered has its question, and its reply, stored.
THEOREM TranscriptInvariance == Spec => []Transcripts
<1> QED
  BY InitTranscripts, NextTranscripts, RuntimeInvariance, PTL DEF Spec

\* No reply of a turn whose caller was told that it failed is stored, in any
\* instance: each row was added by a request that did not fail and does not fail
\* later, and the key of a reply names its request.
THEOREM FailuresLeaveNoReply == Spec => []FailedTurnLeavesNoReply
<1>1. Transcripts => FailedTurnLeavesNoReply
  BY KeysDiffer DEF Transcripts, WrittenBy, FailedTurnLeavesNoReply, UserTurnOf
<1> QED
  BY <1>1, TranscriptInvariance, PTL

\* Where every request for an event names one session, an answer is preceded by
\* its question, whichever writes fail and however requests interleave.
THEOREM QuestionsComeFirst ==
  ASSUME OneSessionPerEvent
  PROVE  Spec => []NoAnswerWithoutItsQuestion
<1>1. Calm /\ Transcripts /\ NoAnswerWithoutItsQuestion /\ [Next]_vars => NoAnswerWithoutItsQuestion'
  BY NextTranscripts
<1> QED
  BY <1>1, InitTranscripts, TranscriptInvariance, RuntimeInvariance, PTL DEF Spec

\* Under the same condition a transcript that was answered, its writes having
\* succeeded, is stored with its reply after it.
THEOREM AnswersAreStored ==
  ASSUME OneSessionPerEvent
  PROVE  Spec => []AnsweredTranscriptIsStored
<1>1. Transcripts /\ NoAnswerWithoutItsQuestion => AnsweredTranscriptIsStored
  <2> SUFFICES ASSUME Transcripts, NoAnswerWithoutItsQuestion, NEW r \in Requests,
                      IsTranscript(r), Answered(r), ~Failed(r), r \notin logged
               PROVE  \E u \in turns :
                        /\ UserTurnOf(r, u)
                        /\ ReasoningOwner = "runtime" =>
                             \E a \in turns : /\ a.idempotencyKey = AssistantKey(r)
                                             /\ a.sessionId = u.sessionId
                                             /\ u.index < a.index
    BY DEF AnsweredTranscriptIsStored
  <2>1. Told(r)
    BY DEF Told, Answered
  <2>2. CASE ReasoningOwner # "runtime"
    BY <2>1, <2>2 DEF Transcripts
  <2>3. CASE ReasoningOwner = "runtime"
    <3>1. PICK a \in turns : a.role = "assistant" /\ a.idempotencyKey = AssistantKey(r)
      BY <2>1, <2>3 DEF Transcripts
    <3>2. PICK q \in Requests, u \in turns :
            /\ a.idempotencyKey = AssistantKey(q) /\ UserTurnOf(q, u)
            /\ u.sessionId = a.sessionId /\ u.index < a.index
      BY <3>1 DEF NoAnswerWithoutItsQuestion
    <3>3. q = r
      BY <3>1, <3>2, KeysDiffer
    <3> QED
      BY <3>1, <3>2, <3>3
  <2> QED
    BY <2>2, <2>3
<1> QED
  BY <1>1, QuestionsComeFirst, TranscriptInvariance, PTL

-----------------------------------------------------------------------------
(* Channel tools.                                                          *)

\* A tools request of a call, none of whose writes was logged as failed.
ToolsOfCall(r) ==
  Is(r, "tools") /\ job[r].externalChannelId # NoValue /\ r \notin logged

\* ensureSession is behind it.
Opened(r) == pc[r] \in {"tool_open", "tool_call", "done"}

\* Each tool call row was added by the request its key names, under that one's
\* session.
CallRowsHaveRequests ==
  \A call \in toolCalls :
    \E r \in Requests : \E id :
      /\ call.idempotencyKey = <<r, id>> /\ call.sessionId = job[r].sessionId
      /\ pc[r] \notin {"idle", "tool_upsert"}

\* Where ensureSession has run for a channel, the channel is bound.
EnsuredChannelsAreBound ==
  \A c \in Channels, at \in Times :
    <<"channel-tool|session", c, at>> \in sessionIdempotency => c \in DOMAIN sessionIdByExternal

\* A tools request works under the session of its channel, and its calls so far
\* have rows.
WorksForItsCall(r) ==
  /\ job[r].externalChannelId \in DOMAIN sessionIdByExternal
  /\ sessionIdByExternal[job[r].externalChannelId] = job[r].sessionId
  /\ \A i \in 1 .. (nextCall[r] - 1) : HasKey(toolCalls, ToolCallKey(r, job[r].calls[i]))

\* The inductive invariant of the tool rows.
ToolRows ==
  /\ CallRowsHaveRequests
  /\ EnsuredChannelsAreBound
  /\ \A r \in Requests : ToolsOfCall(r) /\ Opened(r) => WorksForItsCall(r)

\* Which steps touch the rows and bindings that tools requests depend on.
ToolMoves(p) ==
  /\ toolCalls' # toolCalls =>
       \E status \in ToolStatuses : AgentTool(p, status) \/ ToolCallSettles(p, status)
  /\ sessionIdempotency' # sessionIdempotency => VoiceUpsert(p) \/ ToolUpsert(p)
  /\ sessionIdByExternal' # sessionIdByExternal => VoiceUpsert(p) \/ ToolUpsert(p)
  /\ (ToolsOfCall(p) /\ Opened(p))' => (ToolsOfCall(p) /\ Opened(p)) \/ ToolUpsert(p)
  /\ ToolsOfCall(p)' /\ Opened(p) /\ nextCall'[p] # nextCall[p] =>
       \E status \in ToolStatuses : ToolCallSettles(p, status)

\* By cases on the steps: only the agent's tools and the settled calls add tool
\* rows, only the two upserts bind channels.
LEMMA StepMovesTools ==
  ASSUME Calm, NEW p \in Requests, Step(p)
  PROVE  ToolMoves(p)
<1>0. Local(p) /\ RequestTypeOK
  BY DEF Calm
<1>1. ASSUME \E e \in VoiceEvents : ReceiveVoice(p, e) PROVE ToolMoves(p)
  BY <1>0, <1>1, VoiceTurnFacts, ToolJobFacts, ReportReadFacts
     DEF ReceiveVoice, RequestTypeOK, ToolMoves, Local, GoTo, Finish, ToolsOfCall, Opened, Is, IsTranscript, storeVars
<1>2. ASSUME \E m \in ToolRequests, at \in Times : ReceiveTools(p, m, at) PROVE ToolMoves(p)
  BY <1>0, <1>2, ToolInvocationFacts
     DEF ReceiveTools, RequestTypeOK, ToolMoves, Local, GoTo, ToolsOfCall, Opened, Is, storeVars
<1>3. ASSUME \E q \in ReportRequests : ReceiveReport(p, q) PROVE ToolMoves(p)
  BY <1>0, <1>3, VoiceTurnFacts, ToolJobFacts, ReportReadFacts
     DEF ReceiveReport, RequestTypeOK, ToolMoves, Local, GoTo, Finish, ToolsOfCall, Opened, Is, IsTranscript, storeVars
<1>4. ASSUME \E status \in ToolStatuses : AgentTool(p, status) PROVE ToolMoves(p)
  <2>1. \E status \in ToolStatuses :
          /\ AgentTool(p, status)
          /\ UNCHANGED <<sessionIdempotency, sessionIdByExternal, pc, job, nextCall, logged>>
    BY <1>4 DEF AgentTool, RecordToolSpan
  <2>2. (ToolsOfCall(p) <=> ToolsOfCall(p)') /\ (Opened(p) <=> Opened(p)')
    BY <2>1 DEF ToolsOfCall, Opened, Is
  <2> QED
    BY <2>1, <2>2 DEF ToolMoves
<1>5. ASSUME \E result \in {"ok", "timeout", "error"} : AgentFinishes(p, result) PROVE ToolMoves(p)
  BY <1>0, <1>5, VoiceTurnFacts, ToolJobFacts, ReportReadFacts
     DEF AgentFinishes, RecordSpan, RequestTypeOK, ToolMoves, Local, GoTo, Finish, ToolsOfCall, Opened, Is, IsTranscript, storeVars
<1>6. ASSUME VoiceTimeout(p) PROVE ToolMoves(p)
  BY <1>0, <1>6, VoiceTurnFacts, ToolJobFacts, ReportReadFacts
     DEF VoiceTimeout, RequestTypeOK, ToolMoves, Local, GoTo, Finish, ToolsOfCall, Opened, Is, IsTranscript, storeVars
<1>7. ASSUME VoiceUpsert(p) PROVE ToolMoves(p)
  BY <1>0, <1>7, VoiceTurnFacts, ToolJobFacts, ReportReadFacts
     DEF VoiceUpsert, UpsertSession, RequestTypeOK, ToolMoves, Local, GoTo, Finish, ToolsOfCall, Opened, Is, IsTranscript, storeVars
<1>8. ASSUME VoiceUserTurn(p) PROVE ToolMoves(p)
  BY <1>0, <1>8, VoiceTurnFacts, ToolJobFacts, ReportReadFacts
     DEF VoiceUserTurn, RecordTurn, RequestTypeOK, ToolMoves, Local, GoTo, Finish, ToolsOfCall, Opened, Is, IsTranscript, storeVars
<1>9. ASSUME VoiceAssistantTurn(p) PROVE ToolMoves(p)
  BY <1>0, <1>9, VoiceTurnFacts, ToolJobFacts, ReportReadFacts
     DEF VoiceAssistantTurn, RecordTurn, RequestTypeOK, ToolMoves, Local, GoTo, Finish, ToolsOfCall, Opened, Is, IsTranscript, storeVars
<1>10. ASSUME VoiceReply(p) PROVE ToolMoves(p)
  BY <1>0, <1>10, VoiceTurnFacts, ToolJobFacts, ReportReadFacts
     DEF VoiceReply, RecordSpan, RequestTypeOK, ToolMoves, Local, GoTo, Finish, ToolsOfCall, Opened, Is, IsTranscript, storeVars
<1>11. ASSUME ReadForEvaluation(p) PROVE ToolMoves(p)
  BY <1>0, <1>11, VoiceTurnFacts, ToolJobFacts, ReportReadFacts
     DEF ReadForEvaluation, AfterEvaluation, RequestTypeOK, ToolMoves, Local, GoTo, Finish, ToolsOfCall, Opened, Is, IsTranscript, storeVars
<1>12. ASSUME SaveEvaluation(p) PROVE ToolMoves(p)
  BY <1>0, <1>12, VoiceTurnFacts, ToolJobFacts, ReportReadFacts
     DEF SaveEvaluation, SaveSessionEvaluation, AfterEvaluation, RequestTypeOK, ToolMoves, Local, GoTo, Finish, ToolsOfCall, Opened, Is, IsTranscript, storeVars
<1>13. ASSUME FetchReport(p) PROVE ToolMoves(p)
  BY <1>0, <1>13, VoiceTurnFacts, ToolJobFacts, ReportReadFacts
     DEF FetchReport, RequestTypeOK, ToolMoves, Local, GoTo, Finish, ToolsOfCall, Opened, Is, IsTranscript, storeVars
<1>14. ASSUME ToolUpsert(p) PROVE ToolMoves(p)
  BY <1>0, <1>14, VoiceTurnFacts, ToolJobFacts, ReportReadFacts
     DEF ToolUpsert, UpsertSession, RequestTypeOK, ToolMoves, Local, GoTo, Finish, ToolsOfCall, Opened, Is, IsTranscript, storeVars
<1>15. ASSUME ToolOpen(p) PROVE ToolMoves(p)
  BY <1>0, <1>15, VoiceTurnFacts, ToolJobFacts, ReportReadFacts
     DEF ToolOpen, RecordSpan, RequestTypeOK, ToolMoves, Local, GoTo, Finish, ToolsOfCall, Opened, Is, IsTranscript, storeVars
<1>16. ASSUME \E status \in ToolStatuses : ToolCallSettles(p, status) PROVE ToolMoves(p)
  BY <1>0, <1>16, VoiceTurnFacts, ToolJobFacts, ReportReadFacts
     DEF ToolCallSettles, RecordToolSpan, NextToolCall, RequestTypeOK, ToolMoves, Local, GoTo, Finish, ToolsOfCall, Opened, Is, IsTranscript, storeVars
<1>17. ASSUME VoiceWriteFails(p) PROVE ToolMoves(p)
  BY <1>0, <1>17, VoiceTurnFacts, ToolJobFacts, ReportReadFacts
     DEF VoiceWriteFails, AfterFailure, IsCallEnd, RequestTypeOK, ToolMoves, Local, GoTo, Finish, ToolsOfCall, Opened, Is, IsTranscript, storeVars
<1>18. ASSUME UnhandledTimeout(p) PROVE ToolMoves(p)
  BY <1>0, <1>18, VoiceTurnFacts, ToolJobFacts, ReportReadFacts
     DEF UnhandledTimeout, RequestTypeOK, ToolMoves, Local, GoTo, Finish, ToolsOfCall, Opened, Is, IsTranscript, storeVars
<1>19. ASSUME ReportReadFails(p) PROVE ToolMoves(p)
  BY <1>0, <1>19, VoiceTurnFacts, ToolJobFacts, ReportReadFacts
     DEF ReportReadFails, RequestTypeOK, ToolMoves, Local, GoTo, Finish, ToolsOfCall, Opened, Is, IsTranscript, storeVars
<1>20. ASSUME ToolUpsertFails(p) PROVE ToolMoves(p)
  BY <1>0, <1>20, VoiceTurnFacts, ToolJobFacts, ReportReadFacts
     DEF ToolUpsertFails, RequestTypeOK, ToolMoves, Local, GoTo, Finish, ToolsOfCall, Opened, Is, IsTranscript, storeVars
<1>21. ASSUME ToolRowFails(p) PROVE ToolMoves(p)
  BY <1>0, <1>21, VoiceTurnFacts, ToolJobFacts, ReportReadFacts
     DEF ToolRowFails, RecordSpan, NextToolCall, RequestTypeOK, ToolMoves, Local, GoTo, Finish, ToolsOfCall, Opened, Is, IsTranscript, storeVars
<1> QED
  BY <1>1, <1>2, <1>3, <1>4, <1>5, <1>6, <1>7, <1>8, <1>9, <1>10, <1>11, <1>12, <1>13, <1>14, <1>15, <1>16, <1>17, <1>18, <1>19, <1>20, <1>21 DEF Step, Receive, RunAgent, Serve, Fault

\* A new tool row is under the session and the id of the request that adds it.
LEMMA StepAddsCallRows ==
  ASSUME Calm, NEW p \in Requests, Step(p), NEW call \in toolCalls', call \notin toolCalls
  PROVE  /\ pc[p] \notin {"idle", "tool_upsert"} /\ job[p].sessionId = call.sessionId
         /\ \E id : call.idempotencyKey = <<p, id>>
<1>1. Local(p) /\ toolCalls' # toolCalls
  BY DEF Calm
<1>2. CASE \E status \in ToolStatuses : AgentTool(p, status)
  <2>1. PICK status \in ToolStatuses : AgentTool(p, status)
    BY <1>2
  <2> DEFINE new == [sessionId |-> job[p].sessionId, status |-> status,
                     idempotencyKey |-> SpanKey(p, "tool")]
  <2>2. call = new
    BY <2>1 DEF AgentTool, RecordToolSpan, AddToolCall
  <2>3. agent[p] # "off"
    BY <2>1 DEF AgentTool, Agent!MayEndTool
  <2>4. pc[p] \notin {"idle", "tool_upsert"}
    BY <1>1, <2>3, VoiceTurnFacts, ToolJobFacts DEF Local
  <2> QED
    BY <2>2, <2>4 DEF SpanKey
<1>3. CASE \E status \in ToolStatuses : ToolCallSettles(p, status)
  <2>1. PICK status \in ToolStatuses : ToolCallSettles(p, status)
    BY <1>3
  <2> DEFINE new == [sessionId |-> job[p].sessionId, status |-> status,
                     idempotencyKey |-> ToolCallKey(p, job[p].calls[nextCall[p]])]
  <2>2. call = new /\ pc[p] = "tool_call"
    BY <1>1, <2>1 DEF ToolCallSettles, RecordToolSpan, AddToolCall, storeVars
  <2> QED
    BY <2>2 DEF ToolCallKey
<1> QED
  BY <1>1, <1>2, <1>3, StepMovesTools DEF ToolMoves

\* ensureSession leaves its channel bound to the session it returned, whether it
\* created it, found it or is repeated.
LEMMA ToolUpsertBinds ==
  ASSUME Calm, ToolRows, NEW p \in Requests, ToolUpsert(p)
  PROVE  /\ job[p].externalChannelId \in Channels
         /\ job'[p].externalChannelId = job[p].externalChannelId
         /\ job'[p].externalChannelId \in DOMAIN sessionIdByExternal'
         /\ sessionIdByExternal'[job'[p].externalChannelId] = job'[p].sessionId
         /\ sessionIdempotency' \subseteq sessionIdempotency \cup {ToolSessionKey(job[p])}
<1> DEFINE in == [sessionId |-> job[p].sessionId,
                  externalChannelId |-> job[p].externalChannelId,
                  eventType |-> "transcript",
                  occurredAt |-> job[p].occurredAt,
                  idempotencyKey |-> ToolSessionKey(job[p])]
           c == job[p].externalChannelId
<1>1. job[p] \in ToolJobs /\ c \in Channels /\ job[p].occurredAt \in Times
  BY ToolJobFacts DEF ToolUpsert, Calm, Local, Optional
<1>2. job' = [job EXCEPT ![p].sessionId = ResolvedId(in)] /\ UpsertSession(in) /\ DOMAIN job = Requests
  BY DEF ToolUpsert, Calm, RequestTypeOK
<1>3. job'[p] = [job[p] EXCEPT !.sessionId = ResolvedId(in)]
  BY <1>2
<1>4. ResolvedId(in) = IF c \in DOMAIN sessionIdByExternal THEN sessionIdByExternal[c]
                       ELSE job[p].sessionId
  BY DEF ResolvedId
<1>5. ResolvedId(in) \in SessionIds
  <2>1. c \in DOMAIN sessionIdByExternal => sessionIdByExternal[c] \in SessionIds
    BY DEF Calm, StoreInv, StoreTypeOK
  <2>2. job[p].sessionId \in SessionIds
    BY DEF ToolUpsert, Calm, Local
  <2> QED
    BY <1>4, <2>1, <2>2
<1>6. job'[p].externalChannelId = c /\ job'[p].sessionId = ResolvedId(in)
  BY <1>1, <1>3, <1>5, ToolJobFacts
<1>7. CASE ReplayUpsert(in)
  <2>1. ToolSessionKey(job[p]) \in sessionIdempotency
    BY <1>7 DEF ReplayUpsert
  <2>2. c \in DOMAIN sessionIdByExternal
    BY <1>1, <2>1 DEF ToolRows, EnsuredChannelsAreBound, ToolSessionKey
  <2> QED
    BY <1>1, <1>4, <1>6, <1>7, <2>2 DEF ReplayUpsert
<1>8. CASE ApplyUpsert(in)
  <2>1. c # NoValue
    BY <1>1, NoValueAssumption
  <2>2. sessionIdByExternal' = [d \in DOMAIN sessionIdByExternal \cup {c} |->
                                  IF d = c THEN ResolvedId(in) ELSE sessionIdByExternal[d]]
    BY <1>8, <2>1 DEF ApplyUpsert, Bound
  <2>3. sessionIdempotency' = sessionIdempotency \cup {ToolSessionKey(job[p])}
    BY <1>8 DEF ApplyUpsert
  <2> QED
    BY <1>1, <1>6, <2>2, <2>3
<1> QED
  BY <1>2, <1>7, <1>8 DEF UpsertSession

\* A channel, once bound, is never bound again, so that a tools request stays
\* under its call's session while other requests write.
LEMMA StepKeepsToolRows ==
  ASSUME Calm, ToolRows, NEW p \in Requests, Step(p)
  PROVE  ToolRows'
<1>1. Others(p) /\ Own(p) /\ ToolMoves(p) /\ Local(p)
  BY StepMoves, StepMovesTools DEF Calm
<1>2. /\ toolCalls \subseteq toolCalls'
      /\ \A c \in DOMAIN sessionIdByExternal :
           c \in DOMAIN sessionIdByExternal' /\ sessionIdByExternal'[c] = sessionIdByExternal[c]
  BY StepKeeps, StepKeepsRows, StepKeepsBinding DEF Keeps, Calm
<1>3. ASSUME NEW r \in Requests, pc[r] \notin {"idle", "tool_upsert"}
      PROVE  job'[r] = job[r] /\ pc'[r] \notin {"idle", "tool_upsert"}
  BY <1>1, <1>3 DEF Others, Own
<1>4. CallRowsHaveRequests'
  <2> SUFFICES ASSUME NEW call \in toolCalls'
               PROVE  \E r \in Requests : \E id :
                        /\ call.idempotencyKey = <<r, id>> /\ call.sessionId = job'[r].sessionId
                        /\ pc'[r] \notin {"idle", "tool_upsert"}
    BY DEF CallRowsHaveRequests
  <2>1. CASE call \in toolCalls
    BY <1>3, <2>1 DEF ToolRows, CallRowsHaveRequests
  <2>2. CASE call \notin toolCalls
    BY <1>3, <2>2, StepAddsCallRows
  <2> QED
    BY <2>1, <2>2
<1>5. EnsuredChannelsAreBound'
  <2> SUFFICES ASSUME NEW c \in Channels, NEW at \in Times,
                      <<"channel-tool|session", c, at>> \in sessionIdempotency'
               PROVE  c \in DOMAIN sessionIdByExternal'
    BY DEF EnsuredChannelsAreBound
  <2>1. CASE <<"channel-tool|session", c, at>> \in sessionIdempotency
    BY <1>2, <2>1 DEF ToolRows, EnsuredChannelsAreBound
  <2>2. CASE VoiceUpsert(p)
    <3>1. sessionIdempotency' \subseteq sessionIdempotency \cup {InboundKey(job[p])}
      BY <2>2 DEF VoiceUpsert, UpsertSession, ReplayUpsert, ApplyUpsert
    <3>2. <<"channel-tool|session", c, at>> # InboundKey(job[p])
      BY DEF InboundKey
    <3> QED
      BY <2>1, <3>1, <3>2
  <2>3. CASE ToolUpsert(p)
    <3>1. CASE <<"channel-tool|session", c, at>> = ToolSessionKey(job[p])
      BY <2>3, <3>1, ToolUpsertBinds DEF ToolSessionKey
    <3> QED
      BY <2>1, <2>3, <3>1, ToolUpsertBinds
  <2> QED
    BY <1>1, <2>1, <2>2, <2>3 DEF ToolMoves
<1>6. ASSUME NEW r \in Requests, WorksForItsCall(r), job'[r] = job[r], nextCall'[r] = nextCall[r]
      PROVE  WorksForItsCall(r)'
  BY <1>2, <1>6 DEF WorksForItsCall, HasKey, ToolCallKey
<1>7. ASSUME NEW r \in Requests, (ToolsOfCall(r) /\ Opened(r))' PROVE WorksForItsCall(r)'
  <2>1. CASE r # p
    <3>1. /\ ToolsOfCall(r) /\ Opened(r)
          /\ job'[r] = job[r] /\ nextCall'[r] = nextCall[r]
      BY <1>1, <1>7, <2>1 DEF Others, ToolsOfCall, Opened, Is
    <3> QED
      BY <1>6, <3>1 DEF ToolRows
  <2>2. CASE r = p /\ ToolUpsert(p)
    <3>1. nextCall'[p] = 1
      BY <1>1, <2>2 DEF ToolUpsert, Local
    <3>2. 1 .. (nextCall'[p] - 1) = {}
      BY <3>1
    <3> QED
      BY <2>2, <3>2, ToolUpsertBinds DEF WorksForItsCall
  <2>3. CASE r = p /\ ToolsOfCall(p) /\ Opened(p)
    <3>1. job'[p] = job[p] /\ WorksForItsCall(p)
      BY <1>3, <2>3 DEF Opened, ToolRows
    <3>2. CASE nextCall'[p] = nextCall[p]
      BY <1>6, <2>3, <3>1, <3>2
    <3>3. CASE nextCall'[p] # nextCall[p]
      <4>1. PICK status \in ToolStatuses : ToolCallSettles(p, status)
        BY <1>1, <1>7, <2>3, <3>3 DEF ToolMoves
      <4>2. sessionIdByExternal[job[p].externalChannelId] \in SessionIds
        BY <3>1 DEF WorksForItsCall, Calm, StoreInv, StoreTypeOK
      <4>3. job[p].sessionId # NoValue
        BY <3>1, <4>2, RequestsAssumption DEF WorksForItsCall
      <4> DEFINE key == ToolCallKey(p, job[p].calls[nextCall[p]])
                 new == [sessionId |-> job[p].sessionId, status |-> status, idempotencyKey |-> key]
      <4>4. toolCalls' = IF HasKey(toolCalls, key) THEN toolCalls ELSE toolCalls \cup {new}
        BY <4>1, <4>3 DEF ToolCallSettles, RecordToolSpan, AddToolCall
      <4>5. \E call \in toolCalls' : call.idempotencyKey = key
        <5>1. new.idempotencyKey = key
          OBVIOUS
        <5> HIDE DEF new, key
        <5> QED
          BY <4>4, <5>1 DEF HasKey
      <4>6. nextCall'[p] = nextCall[p] + 1 /\ nextCall[p] \in Nat
        BY <4>1 DEF ToolCallSettles, NextToolCall, Calm, RequestTypeOK
      <4>7. ASSUME NEW i \in 1 .. (nextCall'[p] - 1)
            PROVE  \E call \in toolCalls' : call.idempotencyKey = ToolCallKey(p, job[p].calls[i])
        <5>1. i \in 1 .. (nextCall[p] - 1) \/ i = nextCall[p]
          BY <4>6
        <5> QED
          BY <1>2, <3>1, <4>5, <5>1 DEF WorksForItsCall, HasKey
      <4>8. /\ job'[p].externalChannelId \in DOMAIN sessionIdByExternal'
            /\ sessionIdByExternal'[job'[p].externalChannelId] = job'[p].sessionId
        BY <1>2, <3>1 DEF WorksForItsCall
      <4> QED
        BY <2>3, <3>1, <4>7, <4>8 DEF WorksForItsCall, HasKey, ToolCallKey
    <3> QED
      BY <3>2, <3>3
  <2> QED
    BY <1>1, <1>7, <2>1, <2>2, <2>3 DEF ToolMoves
<1> QED
  BY <1>4, <1>5, <1>7 DEF ToolRows

\* No channel is bound and no call made.
LEMMA InitToolRows == Init => ToolRows
  BY DEF Init, StoreInit, ToolRows, CallRowsHaveRequests, EnsuredChannelsAreBound, Opened

\* Any step, of a request or none.
LEMMA NextToolRows == Calm /\ ToolRows /\ [Next]_vars => ToolRows'
<1>1. ASSUME ToolRows, UNCHANGED vars PROVE ToolRows'
  BY <1>1 DEF vars, reqVars, storeVars, ToolRows, CallRowsHaveRequests, EnsuredChannelsAreBound,
     WorksForItsCall, ToolsOfCall, Opened, Is, HasKey
<1> QED
  BY <1>1, StepKeepsToolRows DEF Next, Step

\* What tools requests depend on, in any instance.
THEOREM ToolRowsInvariance == Spec => []ToolRows
<1> QED
  BY InitToolRows, NextToolRows, RuntimeInvariance, PTL DEF Spec

\* Each channel tool call that was answered, its request logging no failed write,
\* is in the report of the session its call is bound to, in any instance.
THEOREM ToolCallsReachTheirCall == Spec => []ToolCallsJoinTheirCall
<1>1. Calm /\ ToolRows => ToolCallsJoinTheirCall
  <2> SUFFICES ASSUME Calm, ToolRows, NEW r \in Requests, ToolsOfCall(r),
                      NEW i \in 1 .. (nextCall[r] - 1)
               PROVE  \E call \in toolCalls :
                        /\ call.idempotencyKey = ToolCallKey(r, job[r].calls[i])
                        /\ job[r].externalChannelId \in DOMAIN sessionIdByExternal
                        /\ call.sessionId = sessionIdByExternal[job[r].externalChannelId]
    BY DEF ToolCallsJoinTheirCall, ToolsOfCall
  <2>1. Opened(r)
    BY DEF ToolsOfCall, Calm, Local, Opened
  <2>2. WorksForItsCall(r)
    BY <2>1 DEF ToolRows
  <2>3. PICK call \in toolCalls : call.idempotencyKey = ToolCallKey(r, job[r].calls[i])
    BY <2>2 DEF WorksForItsCall, HasKey
  <2>4. call.sessionId = job[r].sessionId
    BY <2>3 DEF ToolRows, CallRowsHaveRequests, ToolCallKey
  <2> QED
    BY <2>2, <2>3, <2>4 DEF WorksForItsCall
<1> QED
  BY <1>1, ToolRowsInvariance, RuntimeInvariance, PTL

-----------------------------------------------------------------------------
(* The session a call is stored under, and its score.                      *)

\* Every channel a voice event names is bound, if at all, to the session that
\* event is given.  The result of the upsert is dropped, so a client that names
\* only the channel, or whose channel a tools request bound first, is outside
\* it.  A binding is permanent: what breaks this condition is never undone.
BoundAsNamed ==
  \A t \in VoiceTurns :
    t.externalChannelId \in DOMAIN sessionIdByExternal =>
      sessionIdByExternal[t.externalChannelId] = t.sessionId

\* A call end whose upsert is behind it and succeeded, and one that is answered.
EndRecorded(r) ==
  /\ IsCallEnd(r) /\ r \notin logged
  /\ pc[r] \in {"read_report", "save_evaluation", "reply", "done"}

EndAnswered(r) == IsCallEnd(r) /\ r \notin logged /\ pc[r] \in {"reply", "done"}

Finished(id) == SessionExists(id) /\ Terminal(id)

Scored(id) == SessionExists(id) /\ sessions[id].evaluation # NoValue

\* Turns are stored, and about to be stored, under sessions that exist.
TurnsHaveSessions ==
  /\ TurnsJoinASession
  /\ \A r \in Requests :
       pc[r] \in {"user_turn", "assistant_turn"} => SessionExists(job[r].sessionId)

\* A call end that was applied finished its session, also for the redelivery
\* that finds its key taken, and it is answered only when there is a score.
EndsAreScored ==
  /\ \A t \in VoiceTurns :
       t.eventType = "call_ended" /\ InboundKey(t) \in sessionIdempotency => Finished(t.sessionId)
  /\ \A r \in Requests : EndRecorded(r) => Finished(job[r].sessionId)
  /\ \A r \in Requests : EndAnswered(r) => Scored(job[r].sessionId)

\* How a request comes to write turns, or to have its call's end recorded and
\* answered.
CallMoves(p) ==
  /\ pc'[p] \in {"user_turn", "assistant_turn"} =>
       job'[p] = job[p] /\ (pc[p] \in {"user_turn", "assistant_turn"} \/ VoiceUpsert(p))
  /\ EndRecorded(p)' => job'[p] = job[p] /\ (EndRecorded(p) \/ VoiceUpsert(p))
  /\ EndAnswered(p)' =>
       \/ EndAnswered(p)
       \/ ReadForEvaluation(p) /\ ~MustScore(p) /\ EndRecorded(p)
       \/ SaveEvaluation(p)

\* By cases on the steps: the way to a written turn leads over the upsert, and the
\* way to the answer of a call end over the evaluation.
LEMMA StepMovesCalls ==
  ASSUME Calm, NEW p \in Requests, Step(p)
  PROVE  CallMoves(p)
<1>0. Local(p) /\ RequestTypeOK
  BY DEF Calm
<1>1. ASSUME \E e \in VoiceEvents : ReceiveVoice(p, e) PROVE CallMoves(p)
  BY <1>0, <1>1, VoiceTurnFacts, ToolJobFacts, ReportReadFacts
     DEF ReceiveVoice, VoiceTurn, RequestTypeOK, CallMoves, EndRecorded, EndAnswered, Local, GoTo, Finish, Is, IsTranscript, IsCallEnd
<1>2. ASSUME \E m \in ToolRequests, at \in Times : ReceiveTools(p, m, at) PROVE CallMoves(p)
  BY <1>0, <1>2, VoiceTurnFacts, ToolJobFacts, ReportReadFacts
     DEF ReceiveTools, ToolInvocation, RequestTypeOK, CallMoves, EndRecorded, EndAnswered, Local, GoTo, Finish, Is, IsTranscript, IsCallEnd
<1>3. ASSUME \E q \in ReportRequests : ReceiveReport(p, q) PROVE CallMoves(p)
  BY <1>0, <1>3, VoiceTurnFacts, ToolJobFacts, ReportReadFacts
     DEF ReceiveReport, ReportRead, RequestTypeOK, CallMoves, EndRecorded, EndAnswered, Local, GoTo, Finish, Is, IsTranscript, IsCallEnd
<1>4. ASSUME \E status \in ToolStatuses : AgentTool(p, status) PROVE CallMoves(p)
  BY <1>0, <1>4, VoiceTurnFacts, ToolJobFacts, ReportReadFacts
     DEF AgentTool, RequestTypeOK, CallMoves, EndRecorded, EndAnswered, Local, GoTo, Finish, Is, IsTranscript, IsCallEnd
<1>5. ASSUME \E result \in {"ok", "timeout", "error"} : AgentFinishes(p, result) PROVE CallMoves(p)
  BY <1>0, <1>5, VoiceTurnFacts, ToolJobFacts, ReportReadFacts
     DEF AgentFinishes, RequestTypeOK, CallMoves, EndRecorded, EndAnswered, Local, GoTo, Finish, Is, IsTranscript, IsCallEnd
<1>6. ASSUME VoiceTimeout(p) PROVE CallMoves(p)
  BY <1>0, <1>6, VoiceTurnFacts, ToolJobFacts, ReportReadFacts
     DEF VoiceTimeout, RequestTypeOK, CallMoves, EndRecorded, EndAnswered, Local, GoTo, Finish, Is, IsTranscript, IsCallEnd
<1>7. ASSUME VoiceUpsert(p) PROVE CallMoves(p)
  BY <1>0, <1>7, VoiceTurnFacts, ToolJobFacts, ReportReadFacts
     DEF VoiceUpsert, RequestTypeOK, CallMoves, EndRecorded, EndAnswered, Local, GoTo, Finish, Is, IsTranscript, IsCallEnd
<1>8. ASSUME VoiceUserTurn(p) PROVE CallMoves(p)
  BY <1>0, <1>8, VoiceTurnFacts, ToolJobFacts, ReportReadFacts
     DEF VoiceUserTurn, RequestTypeOK, CallMoves, EndRecorded, EndAnswered, Local, GoTo, Finish, Is, IsTranscript, IsCallEnd
<1>9. ASSUME VoiceAssistantTurn(p) PROVE CallMoves(p)
  BY <1>0, <1>9, VoiceTurnFacts, ToolJobFacts, ReportReadFacts
     DEF VoiceAssistantTurn, RequestTypeOK, CallMoves, EndRecorded, EndAnswered, Local, GoTo, Finish, Is, IsTranscript, IsCallEnd
<1>10. ASSUME VoiceReply(p) PROVE CallMoves(p)
  BY <1>0, <1>10, VoiceTurnFacts, ToolJobFacts, ReportReadFacts
     DEF VoiceReply, RequestTypeOK, CallMoves, EndRecorded, EndAnswered, Local, GoTo, Finish, Is, IsTranscript, IsCallEnd
<1>11. ASSUME ReadForEvaluation(p) PROVE CallMoves(p)
  BY <1>0, <1>11, VoiceTurnFacts, ToolJobFacts, ReportReadFacts
     DEF ReadForEvaluation, AfterEvaluation, RequestTypeOK, CallMoves, EndRecorded, EndAnswered, Local, GoTo, Finish, Is, IsTranscript, IsCallEnd
<1>12. ASSUME SaveEvaluation(p) PROVE CallMoves(p)
  BY <1>0, <1>12, VoiceTurnFacts, ToolJobFacts, ReportReadFacts
     DEF SaveEvaluation, AfterEvaluation, RequestTypeOK, CallMoves, EndRecorded, EndAnswered, Local, GoTo, Finish, Is, IsTranscript, IsCallEnd
<1>13. ASSUME FetchReport(p) PROVE CallMoves(p)
  BY <1>0, <1>13, VoiceTurnFacts, ToolJobFacts, ReportReadFacts
     DEF FetchReport, RequestTypeOK, CallMoves, EndRecorded, EndAnswered, Local, GoTo, Finish, Is, IsTranscript, IsCallEnd
<1>14. ASSUME ToolUpsert(p) PROVE CallMoves(p)
  BY <1>0, <1>14, VoiceTurnFacts, ToolJobFacts, ReportReadFacts
     DEF ToolUpsert, RequestTypeOK, CallMoves, EndRecorded, EndAnswered, Local, GoTo, Finish, Is, IsTranscript, IsCallEnd
<1>15. ASSUME ToolOpen(p) PROVE CallMoves(p)
  BY <1>0, <1>15, VoiceTurnFacts, ToolJobFacts, ReportReadFacts
     DEF ToolOpen, RequestTypeOK, CallMoves, EndRecorded, EndAnswered, Local, GoTo, Finish, Is, IsTranscript, IsCallEnd
<1>16. ASSUME \E status \in ToolStatuses : ToolCallSettles(p, status) PROVE CallMoves(p)
  BY <1>0, <1>16, VoiceTurnFacts, ToolJobFacts, ReportReadFacts
     DEF ToolCallSettles, NextToolCall, RequestTypeOK, CallMoves, EndRecorded, EndAnswered, Local, GoTo, Finish, Is, IsTranscript, IsCallEnd
<1>17. ASSUME VoiceWriteFails(p) PROVE CallMoves(p)
  BY <1>0, <1>17, VoiceTurnFacts, ToolJobFacts, ReportReadFacts
     DEF VoiceWriteFails, AfterFailure, RequestTypeOK, CallMoves, EndRecorded, EndAnswered, Local, GoTo, Finish, Is, IsTranscript, IsCallEnd
<1>18. ASSUME UnhandledTimeout(p) PROVE CallMoves(p)
  BY <1>0, <1>18, VoiceTurnFacts, ToolJobFacts, ReportReadFacts
     DEF UnhandledTimeout, RequestTypeOK, CallMoves, EndRecorded, EndAnswered, Local, GoTo, Finish, Is, IsTranscript, IsCallEnd
<1>19. ASSUME ReportReadFails(p) PROVE CallMoves(p)
  BY <1>0, <1>19, VoiceTurnFacts, ToolJobFacts, ReportReadFacts
     DEF ReportReadFails, RequestTypeOK, CallMoves, EndRecorded, EndAnswered, Local, GoTo, Finish, Is, IsTranscript, IsCallEnd
<1>20. ASSUME ToolUpsertFails(p) PROVE CallMoves(p)
  BY <1>0, <1>20, VoiceTurnFacts, ToolJobFacts, ReportReadFacts
     DEF ToolUpsertFails, RequestTypeOK, CallMoves, EndRecorded, EndAnswered, Local, GoTo, Finish, Is, IsTranscript, IsCallEnd
<1>21. ASSUME ToolRowFails(p) PROVE CallMoves(p)
  BY <1>0, <1>21, VoiceTurnFacts, ToolJobFacts, ReportReadFacts
     DEF ToolRowFails, NextToolCall, RequestTypeOK, CallMoves, EndRecorded, EndAnswered, Local, GoTo, Finish, Is, IsTranscript, IsCallEnd
<1> QED
  BY <1>1, <1>2, <1>3, <1>4, <1>5, <1>6, <1>7, <1>8, <1>9, <1>10, <1>11, <1>12, <1>13, <1>14, <1>15, <1>16, <1>17, <1>18, <1>19, <1>20, <1>21 DEF Step, Receive, RunAgent, Serve, Fault

\* No step takes back the end of a session or its score.
LEMMA StepKeepsCalls ==
  ASSUME Calm, NEW p \in Requests, Step(p)
  PROVE  /\ \A id : SessionExists(id) => SessionExists(id)'
         /\ \A id : Finished(id) => Finished(id)'
         /\ \A id : Scored(id) => Scored(id)'
         /\ BoundAsNamed' => BoundAsNamed
<1>1. StoreInv /\ [StoreNext]_storeVars
  BY StepKeeps DEF Keeps, Calm
<1> QED
  BY <1>1, StepKeepsFinished, StepKeepsBinding DEF SessionExists, Finished, Scored, Terminal, BoundAsNamed

\* Where the channel leads to the session the event is given, the upsert leaves
\* that session stored, and a call end leaves it finished.
LEMMA UpsertStoresItsSession ==
  ASSUME Calm, BoundAsNamed, NEW p \in Requests, VoiceUpsert(p)
  PROVE  /\ SessionExists(job[p].sessionId)'
         /\ job[p].eventType = "call_ended" /\ InboundKey(job[p]) \notin sessionIdempotency =>
              Finished(job[p].sessionId)'
         /\ sessionIdempotency' \subseteq sessionIdempotency \cup {InboundKey(job[p])}
         /\ job' = job
<1> DEFINE in == [sessionId |-> job[p].sessionId,
                  externalChannelId |-> job[p].externalChannelId,
                  eventType |-> job[p].eventType,
                  occurredAt |-> job[p].occurredAt,
                  idempotencyKey |-> InboundKey(job[p])]
           id == job[p].sessionId
           old == IF SessionExists(id) THEN sessions[id] ELSE NewSession(in.occurredAt)
           new == AfterEvent(Linked(old, in), in)
<1>1. job[p] \in VoiceTurns
  BY DEF VoiceUpsert, Calm, Local
<1>2. in \in UpsertInputs /\ job' = job
  BY <1>1, VoiceTurnFacts DEF UpsertInputs, VoiceUpsert
<1>3. ResolvedId(in) = id
  BY <1>1 DEF ResolvedId, BoundAsNamed
<1>4. UpsertSession(in)
  BY DEF VoiceUpsert
<1>5. CASE ReplayUpsert(in)
  <2>1. /\ InboundKey(job[p]) \in sessionIdempotency
        /\ sessions' = IF SessionExists(id) THEN sessions ELSE Put(id, NewSession(in.occurredAt))
    BY <1>3, <1>5 DEF ReplayUpsert
  <2>2. id \in DOMAIN sessions'
    BY <2>1 DEF Put, SessionExists
  <2> QED
    BY <1>2, <1>5, <2>1, <2>2 DEF ReplayUpsert, SessionExists
<1>6. CASE ApplyUpsert(in)
  <2>1. sessions' = Put(id, new) /\ sessionIdempotency' = sessionIdempotency \cup {InboundKey(job[p])}
    BY <1>3, <1>6 DEF ApplyUpsert
  <2>2. id \in DOMAIN sessions' /\ sessions'[id] = new
    BY <2>1 DEF Put
  <2>3. ASSUME job[p].eventType = "call_ended" PROVE new.businessStatus \in {"completed", "failed"}
    <3>1. new = Ended(Linked(old, in), in.occurredAt)
      BY <2>3 DEF AfterEvent
    <3>2. old \in SessionRecords /\ in.occurredAt \in Times
      BY <1>1, VoiceTurnFacts, NewSessionType DEF Calm, StoreInv, StoreTypeOK, SessionExists
    <3>3. Linked(old, in) \in SessionRecords
      BY <1>2, <3>2, LinkedFacts
    <3> HIDE DEF old, in
    <3> QED
      BY <3>1, <3>3 DEF Ended, SessionRecords
  <2> HIDE DEF new
  <2> QED
    BY <1>2, <2>1, <2>2, <2>3 DEF SessionExists, Finished, Terminal
<1> QED
  BY <1>4, <1>5, <1>6 DEF UpsertSession

\* A turn is stored only once the upsert before it has left its session there.
LEMMA StepKeepsTurnsHaveSessions ==
  ASSUME Calm, BoundAsNamed => TurnsHaveSessions, BoundAsNamed', NEW p \in Requests, Step(p)
  PROVE  TurnsHaveSessions'
<1>1. BoundAsNamed /\ TurnsHaveSessions /\ (\A id : SessionExists(id) => SessionExists(id)')
  BY StepKeepsCalls
<1>2. Others(p) /\ Own(p) /\ CallMoves(p)
  BY StepMoves, StepMovesCalls
<1>3. ASSUME NEW r \in Requests, pc'[r] \in {"user_turn", "assistant_turn"}
      PROVE  SessionExists(job[r].sessionId)'
  <2>1. job'[r] = job[r] /\ (pc[r] \in {"user_turn", "assistant_turn"} \/ (r = p /\ VoiceUpsert(p)))
    BY <1>2, <1>3 DEF Others, CallMoves
  <2>2. SessionExists(job[r].sessionId) \/ (r = p /\ VoiceUpsert(p))
    BY <1>1, <2>1 DEF TurnsHaveSessions
  <2> DEFINE id == job[r].sessionId
  <2>3. SessionExists(id)'
    BY <1>1, <2>1, <2>2, UpsertStoresItsSession DEF SessionExists
  <2> QED
    BY <2>1, <2>3 DEF SessionExists
<1>4. ASSUME NEW t \in turns' PROVE SessionExists(t.sessionId)'
  <2>1. CASE t \in turns
    BY <1>1, <2>1 DEF TurnsHaveSessions, TurnsJoinASession
  <2>2. CASE t \notin turns
    <3>1. VoiceUserTurn(p) \/ VoiceAssistantTurn(p)
      BY <1>2, <2>2 DEF Own
    <3>2. pc[p] \in {"user_turn", "assistant_turn"} /\ UNCHANGED sessions
      BY <3>1 DEF VoiceUserTurn, VoiceAssistantTurn, RecordTurn
    <3>3. t.sessionId = job[p].sessionId
      BY <2>2, <3>1 DEF VoiceUserTurn, VoiceAssistantTurn, RecordTurn, AddTurn
    <3> QED
      BY <1>1, <3>2, <3>3 DEF TurnsHaveSessions, SessionExists
  <2> QED
    BY <2>1, <2>2
<1> QED
  BY <1>3, <1>4 DEF TurnsHaveSessions, TurnsJoinASession

\* A call end is answered when its session has a score: its own, or one that was
\* there when it read the report.
LEMMA StepKeepsEndsScored ==
  ASSUME Calm, OneSessionPerEvent, BoundAsNamed => EndsAreScored, BoundAsNamed',
         NEW p \in Requests, Step(p)
  PROVE  EndsAreScored'
<1>1. /\ BoundAsNamed /\ EndsAreScored
      /\ \A x : Finished(x) => Finished(x)'
      /\ \A x : Scored(x) => Scored(x)'
  BY StepKeepsCalls
<1>2. Others(p) /\ Own(p) /\ CallMoves(p) /\ ToolMoves(p) /\ Local(p)
  BY StepMoves, StepMovesCalls, StepMovesTools DEF Calm
<1>3. ASSUME VoiceUpsert(p), job[p].eventType = "call_ended" PROVE Finished(job[p].sessionId)'
  <2>1. job[p] \in VoiceTurns /\ job' = job
    BY <1>2, <1>3 DEF VoiceUpsert, Local
  <2>2. CASE InboundKey(job[p]) \in sessionIdempotency
    BY <1>1, <1>3, <2>1, <2>2 DEF EndsAreScored, Finished, SessionExists, Terminal
  <2> QED
    BY <1>1, <1>3, <2>2, UpsertStoresItsSession
<1>4. ASSUME NEW t \in VoiceTurns, t.eventType = "call_ended", InboundKey(t) \in sessionIdempotency'
      PROVE  Finished(t.sessionId)'
  <2>1. CASE InboundKey(t) \in sessionIdempotency
    BY <1>1, <1>4, <2>1 DEF EndsAreScored
  <2>2. CASE InboundKey(t) \notin sessionIdempotency /\ VoiceUpsert(p)
    <3>1. InboundKey(t) = InboundKey(job[p]) /\ job' = job
      BY <1>1, <1>4, <2>2, UpsertStoresItsSession
    <3>2. job[p] \in VoiceTurns
      BY <1>2, <2>2 DEF VoiceUpsert, Local
    <3>3. job[p].eventType = "call_ended" /\ job[p].sessionId = t.sessionId
      BY <1>4, <3>1, <3>2 DEF OneSessionPerEvent, InboundKey
    <3> QED
      BY <1>3, <2>2, <3>1, <3>3 DEF Finished, SessionExists, Terminal
  <2>3. CASE InboundKey(t) \notin sessionIdempotency /\ ToolUpsert(p)
    <3>1. sessionIdempotency' \subseteq sessionIdempotency \cup {ToolSessionKey(job[p])}
      BY <2>3 DEF ToolUpsert, UpsertSession, ReplayUpsert, ApplyUpsert
    <3>2. InboundKey(t) # ToolSessionKey(job[p])
      BY DEF InboundKey, ToolSessionKey
    <3> QED
      BY <1>4, <2>3, <3>1, <3>2
  <2> QED
    BY <1>2, <1>4, <2>1, <2>2, <2>3 DEF ToolMoves
<1>5. ASSUME NEW r \in Requests, EndRecorded(r)' PROVE Finished(job[r].sessionId)'
  <2>1. job'[r] = job[r] /\ (EndRecorded(r) \/ (r = p /\ VoiceUpsert(p)))
    BY <1>2, <1>5 DEF Others, CallMoves, EndRecorded, IsCallEnd, Is
  <2>2. job[r].eventType = "call_ended"
    BY <1>5, <2>1 DEF EndRecorded, IsCallEnd
  <2> DEFINE id == job[r].sessionId
  <2>3. Finished(id)'
    BY <1>1, <1>3, <2>1, <2>2 DEF EndsAreScored, Finished, SessionExists, Terminal
  <2> QED
    BY <2>1, <2>3 DEF Finished, SessionExists, Terminal
<1>6. ASSUME NEW r \in Requests, EndAnswered(r)' PROVE Scored(job[r].sessionId)'
  <2>1. job'[r] = job[r]
    BY <1>2, <1>6 DEF Others, CallMoves, EndAnswered, EndRecorded
  <2> DEFINE id == job[r].sessionId
  <2>2. CASE EndAnswered(r)
    <3>1. Scored(id)
      BY <2>2, <1>1 DEF EndsAreScored
    <3>3. id \in DOMAIN sessions' /\ sessions'[id].evaluation # NoValue
      BY <1>1, <3>1 DEF Scored, SessionExists
    <3> QED
      BY <2>1, <3>3 DEF Scored, SessionExists
  <2>3. CASE r = p /\ ReadForEvaluation(p) /\ ~MustScore(p) /\ EndRecorded(p)
    <3>1. Finished(id) /\ ~Recompute(p)
      BY <1>1, <2>3 DEF EndsAreScored, EndRecorded, IsCallEnd, Is, Recompute
    <3>2. Scored(id)
      BY <2>3, <3>1 DEF MustScore, Finished, Scored
    <3>3. id \in DOMAIN sessions' /\ sessions'[id].evaluation # NoValue
      BY <1>1, <3>2 DEF Scored, SessionExists
    <3> QED
      BY <2>1, <3>3 DEF Scored, SessionExists
  <2>4. CASE r = p /\ SaveEvaluation(p)
    <3>1. /\ pc[p] = "save_evaluation" /\ SessionExists(id)
          /\ sessions' = [sessions EXCEPT ![id].evaluation = scored[p]]
      BY <2>4 DEF SaveEvaluation, SaveSessionEvaluation
    <3>2. scored[p] # NoValue
      <4>1. scored[p] = [evidence |-> scored[p].evidence] /\ scored[p].evidence \subseteq RowKeys
        BY <3>1, EvidenceIsRows DEF Calm, Founded, StoreInv
      <4> QED
        BY <4>1, NoValueAssumption DEF Evaluations
    <3>3. sessions[id] \in SessionRecords
      BY <3>1 DEF Calm, StoreInv, StoreTypeOK, SessionExists
    <3>4. id \in DOMAIN sessions' /\ sessions'[id].evaluation = scored[p]
      BY <3>1, <3>3 DEF SessionExists, SessionRecords
    <3> QED
      BY <2>1, <3>2, <3>4 DEF Scored, SessionExists
  <2>5. r # p => EndAnswered(r)
    BY <1>2, <1>6 DEF Others, EndAnswered, IsCallEnd, Is
  <2> QED
    BY <1>2, <1>6, <2>2, <2>3, <2>4, <2>5 DEF CallMoves
<1> QED
  BY <1>4, <1>5, <1>6 DEF EndsAreScored

\* Nothing is stored.
LEMMA InitCalls == Init => TurnsHaveSessions /\ EndsAreScored
  BY DEF Init, StoreInit, TurnsHaveSessions, TurnsJoinASession, EndsAreScored, EndRecorded,
     EndAnswered, IsCallEnd, Is

\* Any step, of a request or none.
LEMMA NextCalls ==
  Calm /\ [Next]_vars =>
    /\ (BoundAsNamed => TurnsHaveSessions) => (BoundAsNamed => TurnsHaveSessions)'
    /\ OneSessionPerEvent /\ (BoundAsNamed => EndsAreScored) => (BoundAsNamed => EndsAreScored)'
<1>1. ASSUME UNCHANGED vars
      PROVE  /\ BoundAsNamed' = BoundAsNamed
             /\ TurnsHaveSessions => TurnsHaveSessions'
             /\ EndsAreScored => EndsAreScored'
  BY <1>1 DEF vars, reqVars, storeVars, BoundAsNamed, TurnsHaveSessions, TurnsJoinASession,
     EndsAreScored, EndRecorded, EndAnswered, Finished, Scored, SessionExists, Terminal, IsCallEnd, Is
<1> QED
  BY <1>1, StepKeepsTurnsHaveSessions, StepKeepsEndsScored DEF Next, Step

\* As long as the channels are bound to the sessions their events are given, no
\* turn is stored under a session that does not exist, for any bodies, faults
\* and interleavings (persistVoiceLifecycle before recordTurn).
THEOREM TurnsReachTheirSession == Spec => [](BoundAsNamed => TurnsJoinASession)
<1>1. Init => (BoundAsNamed => TurnsHaveSessions)
  BY InitCalls
<1>2. (BoundAsNamed => TurnsHaveSessions) => (BoundAsNamed => TurnsJoinASession)
  BY DEF TurnsHaveSessions
<1> QED
  BY <1>1, <1>2, NextCalls, RuntimeInvariance, PTL DEF Spec

\* Under the same condition, where in addition every request for an event is given
\* one session, a call end that was answered without a logged failure has left
\* its session finished and scored.
THEOREM EndsReachTheirScore ==
  ASSUME OneSessionPerEvent
  PROVE  Spec => [](BoundAsNamed => CallEndIsScored)
<1>1. Init => (BoundAsNamed => EndsAreScored)
  BY InitCalls
<1>2. (BoundAsNamed => EndsAreScored) => (BoundAsNamed => CallEndIsScored)
  BY DEF EndsAreScored, CallEndIsScored, EndRecorded, EndAnswered, Answered, Finished, Scored
<1>3. Calm /\ [Next]_vars /\ (BoundAsNamed => EndsAreScored) => (BoundAsNamed => EndsAreScored)'
  BY NextCalls
<1> QED
  BY <1>1, <1>2, <1>3, RuntimeInvariance, PTL DEF Spec

\* A client that names its session: the voice events of a channel are all given
\* one session.
CallsAreNamed ==
  /\ OneSessionPerEvent
  /\ \A s, t \in VoiceTurns :
       s.externalChannelId = t.externalChannelId /\ s.externalChannelId # NoValue =>
         s.sessionId = t.sessionId

\* A tools request may come over the channel of a call, but only once a voice
\* event of that call has been stored: the request that ensures its session finds
\* the channel bound.  Earlier it would bind the channel to the session id minted
\* for it.
ToolsFindTheirCall ==
  \A r \in Requests, t \in VoiceTurns :
    /\ pc[r] = "tool_upsert"
    /\ job[r].externalChannelId = t.externalChannelId
    => job[r].externalChannelId \in DOMAIN sessionIdByExternal

\* A channel is bound by the first event that names it, to the session that event
\* is given; a tools request that finds it bound leaves the binding.
LEMMA StepKeepsBoundAsNamed ==
  ASSUME Calm, CallsAreNamed, ToolsFindTheirCall, BoundAsNamed, NEW p \in Requests, Step(p)
  PROVE  BoundAsNamed'
<1> SUFFICES ASSUME NEW t \in VoiceTurns, t.externalChannelId \in DOMAIN sessionIdByExternal'
             PROVE  sessionIdByExternal'[t.externalChannelId] = t.sessionId
  BY DEF BoundAsNamed
<1> DEFINE In(type, key) ==
             [sessionId |-> job[p].sessionId,
              externalChannelId |-> job[p].externalChannelId,
              eventType |-> type,
              occurredAt |-> job[p].occurredAt,
              idempotencyKey |-> key]
<1>1. CASE UNCHANGED sessionIdByExternal
  BY <1>1 DEF BoundAsNamed
<1>2. ASSUME NEW in, UpsertSession(in), ~UNCHANGED sessionIdByExternal
      PROVE  /\ in.externalChannelId # NoValue
             /\ DOMAIN sessionIdByExternal' = DOMAIN sessionIdByExternal \cup {in.externalChannelId}
             /\ \A c \in DOMAIN sessionIdByExternal' :
                  sessionIdByExternal'[c] =
                    IF c = in.externalChannelId THEN ResolvedId(in) ELSE sessionIdByExternal[c]
  BY <1>2 DEF UpsertSession, ReplayUpsert, ApplyUpsert, Bound
<1>3. CASE VoiceUpsert(p) /\ ~UNCHANGED sessionIdByExternal
  <2> DEFINE in == In(job[p].eventType, InboundKey(job[p]))
  <2>1. UpsertSession(in) /\ job[p] \in VoiceTurns
    BY <1>3 DEF VoiceUpsert, Calm, Local
  <2>2. ResolvedId(in) = job[p].sessionId
    BY <2>1 DEF ResolvedId, BoundAsNamed
  <2> HIDE DEF in
  <2>3. in.externalChannelId = job[p].externalChannelId
    BY DEF in
  <2> DEFINE c == job[p].externalChannelId
  <2>4. /\ c # NoValue
        /\ DOMAIN sessionIdByExternal' = DOMAIN sessionIdByExternal \cup {c}
        /\ \A d \in DOMAIN sessionIdByExternal' :
             sessionIdByExternal'[d] = IF d = c THEN job[p].sessionId ELSE sessionIdByExternal[d]
    BY <1>2, <1>3, <2>1, <2>2, <2>3
  <2>5. CASE t.externalChannelId = c
    BY <2>1, <2>4, <2>5 DEF CallsAreNamed
  <2>6. CASE t.externalChannelId # c
    BY <2>4, <2>6 DEF BoundAsNamed
  <2> QED
    BY <2>5, <2>6
<1>4. CASE ToolUpsert(p) /\ ~UNCHANGED sessionIdByExternal
  <2> DEFINE in == In("transcript", ToolSessionKey(job[p]))
  <2>1. UpsertSession(in) /\ job[p] \in ToolJobs
    BY <1>4 DEF ToolUpsert, Calm, Local
  <2>2. in.externalChannelId = job[p].externalChannelId
    OBVIOUS
  <2> HIDE DEF in
  <2> DEFINE c == job[p].externalChannelId
  <2>3. /\ DOMAIN sessionIdByExternal' = DOMAIN sessionIdByExternal \cup {c}
        /\ \A d \in DOMAIN sessionIdByExternal' :
             sessionIdByExternal'[d] = IF d = c THEN ResolvedId(in) ELSE sessionIdByExternal[d]
    BY <1>2, <1>4, <2>1, <2>2
  <2>4. CASE t.externalChannelId # c
    BY <2>3, <2>4 DEF BoundAsNamed
  <2>5. CASE t.externalChannelId = c
    <3>1. c \in DOMAIN sessionIdByExternal
      BY <1>4, <2>5 DEF ToolUpsert, ToolsFindTheirCall
    <3>2. ResolvedId(in) = sessionIdByExternal[c]
      BY <2>2, <3>1 DEF ResolvedId
    <3> QED
      BY <2>3, <2>5, <3>1, <3>2 DEF BoundAsNamed
  <2> QED
    BY <2>4, <2>5
<1> QED
  BY <1>1, <1>3, <1>4, StepMovesTools DEF ToolMoves

\* Under both conditions a channel stays bound as it is named.
LEMMA NamedCallsAreBound ==
  ASSUME CallsAreNamed
  PROVE  Spec /\ []ToolsFindTheirCall => []BoundAsNamed
<1>1. Init => BoundAsNamed
  BY DEF Init, StoreInit, EmptyMap, BoundAsNamed
<1>2. Calm /\ ToolsFindTheirCall /\ BoundAsNamed /\ [Next]_vars => BoundAsNamed'
  <2>1. BoundAsNamed /\ UNCHANGED vars => BoundAsNamed'
    BY DEF vars, storeVars, BoundAsNamed
  <2> QED
    BY <2>1, StepKeepsBoundAsNamed DEF Next, Step
<1> QED
  BY <1>1, <1>2, RuntimeInvariance, PTL DEF Spec

\* So a client that names its session in every voice event, and whose tools
\* messages follow the first of them, finds each turn under a session that exists
\* and each of its call ends scored.
THEOREM NamedCallsAreWhole ==
  ASSUME CallsAreNamed
  PROVE  Spec /\ []ToolsFindTheirCall => [](TurnsJoinASession /\ CallEndIsScored)
<1>1. OneSessionPerEvent
  BY DEF CallsAreNamed
<1> QED
  BY <1>1, NamedCallsAreBound, TurnsReachTheirSession, EndsReachTheirScore, PTL

=============================================================================
