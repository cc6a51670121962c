--------------------- MODULE SupabasePersistence_proofs ---------------------
(***************************************************************************)
(* Theorems about the hosted session history, for any sets of sessions,    *)
(* clients, programs and keys, whichever requests fail or lose their reply.*)
(*                                                                         *)
(* HostedInv is the invariant of one request at a time: what a client has  *)
(* read is well typed, a row it is about to write back is as coherent as   *)
(* the stored ones, a turn's number is at most the number of turns, and an *)
(* acknowledged row is in its table or in the fallback's memory.           *)
(* TranscriptInv and ScoresInv add what holds as long as nothing went to   *)
(* that memory: an answer's question is stored and counted by it, and a    *)
(* score's evidence is in the rows a report has read or has still to read. *)
(***************************************************************************)
EXTENDS SupabasePersistence, MemoryPersistence_proofs

Finds   == [id : SessionIds, row : SessionRecords, stored : BOOLEAN]
Reports == [terminal : BOOLEAN, evaluation : Optional(Evaluations), keys : SUBSET RowKeys]
Records == {"recordTurn", "recordToolCall", "recordExecutionEvent"}

\* Where in its call a client is, and what it holds there.
ClientTypeOK(c) ==
  /\ at[c] \in 1 .. (Len(program[c]) + 1)
  /\ pc[c] = "done" <=> at[c] = Len(program[c]) + 1
  /\ \/ pc[c] = "done"
     \/ Op(c) = "upsertSession" /\ pc[c] \in {"by_channel", "by_id"}
     \/ Op(c) = "upsertSession" /\ pc[c] = "post_session" /\ got[c] \in Finds
     \/ Op(c) \in Records /\ pc[c] = "by_key"
     \/ Op(c) = "recordTurn" /\ pc[c] = "siblings"
     \/ Op(c) \in Records /\ pc[c] = "insert" /\ (Op(c) = "recordTurn" => got[c] \in Nat)
     \/ Op(c) = "ensureSessionEvaluation" /\ pc[c] = "session"
     \/ /\ Op(c) = "ensureSessionEvaluation"
        /\ pc[c] \in {"turns", "tools", "events", "patch"}
        /\ got[c] \in Reports

ClientsTypeOK ==
  /\ program \in [Clients -> Programs]
  /\ at = [c \in Clients |-> at[c]]
  /\ pc = [c \in Clients |-> pc[c]]
  /\ got = [c \in Clients |-> got[c]]
  /\ \A c \in Clients : ClientTypeOK(c)

TablesTypeOK ==
  /\ DOMAIN rows \subseteq SessionIds
  /\ rows \in [DOMAIN rows -> SessionRecords]
  /\ turnRows \subseteq TurnRecords /\ IsFiniteSet(turnRows)
  /\ toolRows \subseteq ToolInputs
  /\ eventRows \subseteq EventInputs

HostedTypeInv ==
  /\ StoreTypeOK /\ IsFiniteSet(turns)
  /\ TablesTypeOK
  /\ ClientsTypeOK

-----------------------------------------------------------------------------
(* Calls and clients.                                                      *)

\* The call a client is making is one of the port's, with that method's input.
LEMMA CallFacts ==
  ASSUME ClientsTypeOK, NEW c \in Clients, pc[c] # "done"
  PROVE  /\ at[c] \in 1 .. Len(program[c])
         /\ program[c] \in Seq(PortCalls)
         /\ program[c][at[c]] \in PortCalls
         /\ Op(c) = "upsertSession" => Input(c) \in UpsertInputs
         /\ Op(c) = "recordTurn" => Input(c) \in TurnInputs
         /\ Op(c) = "recordToolCall" => Input(c) \in ToolInputs
         /\ Op(c) = "recordExecutionEvent" => Input(c) \in EventInputs
         /\ Op(c) = "ensureSessionEvaluation" => Input(c) \in Ensures
<1>1. program[c] \in Seq(PortCalls) /\ Len(program[c]) \in Nat
  BY ProgramsAssumption DEF ClientsTypeOK
<1>2. at[c] \in 1 .. Len(program[c])
  BY <1>1 DEF ClientsTypeOK, ClientTypeOK
<1>3. program[c][at[c]] \in PortCalls
  BY <1>1, <1>2
<1> QED
  BY <1>1, <1>2, <1>3 DEF PortCalls, Op, Input

\* A call starts with the request its method makes first.
LEMMA FirstRequestFacts ==
  ASSUME NEW call \in PortCalls
  PROVE  \/ call.op = "upsertSession" /\ FirstRequest(call) \in {"by_channel", "by_id"}
         \/ call.op \in Records /\ FirstRequest(call) = "by_key"
         \/ call.op = "ensureSessionEvaluation" /\ FirstRequest(call) = "session"
BY DEF PortCalls, FirstRequest, Records

\* A client that goes on holds what its next request needs.
LEMMA GoOnKeepsClients ==
  ASSUME ClientsTypeOK, NEW c \in Clients, NEW request, NEW answer,
         pc[c] # "done", GoOn(c, request, answer),
         \/ Op(c) = "upsertSession" /\ request = "by_id"
         \/ Op(c) = "upsertSession" /\ request = "post_session" /\ answer \in Finds
         \/ Op(c) = "recordTurn" /\ request = "siblings"
         \/ Op(c) \in Records /\ request = "insert" /\ (Op(c) = "recordTurn" => answer \in Nat)
         \/ /\ Op(c) = "ensureSessionEvaluation"
            /\ request \in {"turns", "tools", "events", "patch"}
            /\ answer \in Reports
  PROVE  ClientsTypeOK'
<1>1. /\ program' = program /\ at' = at
      /\ pc' = [pc EXCEPT ![c] = request]
      /\ got' = [got EXCEPT ![c] = answer]
  BY DEF GoOn
<1>2. /\ pc' = [x \in Clients |-> IF x = c THEN request ELSE pc[x]]
      /\ got' = [x \in Clients |-> IF x = c THEN answer ELSE got[x]]
  BY <1>1 DEF ClientsTypeOK
<1>3. \A x \in Clients : Op(x)' = Op(x)
  BY <1>1 DEF Op
<1>4. ASSUME NEW x \in Clients PROVE ClientTypeOK(x)'
  <2>1. CASE x = c
    BY <1>1, <1>2, <1>3, <2>1 DEF ClientsTypeOK, ClientTypeOK
  <2>2. CASE x # c
    BY <1>1, <1>2, <1>3, <2>2 DEF ClientsTypeOK, ClientTypeOK
  <2> QED BY <2>1, <2>2
<1> QED
  BY <1>1, <1>2, <1>4 DEF ClientsTypeOK

\* A client whose call returned makes the next one, or is done.
LEMMA ReturnKeepsClients ==
  ASSUME ClientsTypeOK, NEW c \in Clients, pc[c] # "done", Return(c)
  PROVE  ClientsTypeOK'
<1>1. /\ program' = program
      /\ at' = [x \in Clients |-> IF x = c THEN at[c] + 1 ELSE at[x]]
      /\ pc' = [x \in Clients |-> IF x # c THEN pc[x]
                                  ELSE IF at[c] = Len(program[c]) THEN "done"
                                  ELSE FirstRequest(program[c][at[c] + 1])]
      /\ got' = [x \in Clients |-> IF x = c THEN NoValue ELSE got[x]]
  BY DEF Return, ClientsTypeOK
<1>2. /\ at[c] \in 1 .. Len(program[c])
      /\ program[c] \in Seq(PortCalls) /\ Len(program[c]) \in Nat
  BY CallFacts
<1>3. ClientTypeOK(c)'
  <2>1. CASE at[c] = Len(program[c])
    BY <1>1, <1>2, <2>1 DEF ClientTypeOK
  <2>2. CASE at[c] # Len(program[c])
    <3>1. /\ at[c] + 1 \in 1 .. Len(program[c])
          /\ program[c][at[c] + 1] \in PortCalls
      BY <1>2, <2>2
    <3> DEFINE call == program[c][at[c] + 1]
    <3>2. /\ pc[c]' = FirstRequest(call)
          /\ Op(c)' = call.op
          /\ at[c]' \in 1 .. Len(program[c]')
      BY <1>1, <2>2, <3>1 DEF Op
    <3> HIDE DEF call
    <3>3. call \in PortCalls
      BY <3>1 DEF call
    <3>4. \/ Op(c)' = "upsertSession" /\ pc[c]' \in {"by_channel", "by_id"}
          \/ Op(c)' \in Records /\ pc[c]' = "by_key"
          \/ Op(c)' = "ensureSessionEvaluation" /\ pc[c]' = "session"
      BY <3>2, <3>3, FirstRequestFacts
    <3>5. at[c]' # Len(program[c]') + 1
      BY <1>2, <3>2
    <3> QED
      BY <1>1, <1>2, <3>2, <3>4, <3>5 DEF ClientTypeOK
  <2> QED BY <2>1, <2>2
<1>4. ASSUME NEW x \in Clients, x # c PROVE ClientTypeOK(x)'
  BY <1>1, <1>4 DEF ClientsTypeOK, ClientTypeOK, Op
<1> QED
  BY <1>1, <1>3, <1>4 DEF ClientsTypeOK

-----------------------------------------------------------------------------
(* Types.                                                                  *)

\* A call of the memory store keeps its shape, whoever makes it.
LEMMA MemoryCallKeepsType ==
  ASSUME StoreTypeOK, IsFiniteSet(turns),
         \/ \E in \in UpsertInputs : UpsertSession(in)
         \/ \E in \in TurnInputs : RecordTurn(in)
         \/ \E event \in EventInputs : RecordSpan(event)
         \/ \E call \in ToolInputs :
              /\ AddToolCall(call)
              /\ UNCHANGED <<sessions, sessionIdByExternal, sessionIdempotency, turns, events>>
         \/ \E id \in SessionIds, evidence \in SUBSET RowKeys :
              SaveSessionEvaluation(id, [evidence |-> evidence])
         \/ UNCHANGED storeVars
  PROVE  StoreTypeOK' /\ IsFiniteSet(turns)'
<1>1. ASSUME NEW in \in UpsertInputs, UpsertSession(in)
      PROVE  StoreTypeOK' /\ IsFiniteSet(turns)'
  <2>1. UNCHANGED <<turns, toolCalls, events>>
    BY <1>1 DEF UpsertSession
  <2>2. /\ ResolvedId(in) \in SessionIds /\ in.sessionId \in SessionIds
        /\ in.occurredAt \in Times /\ in.externalChannelId \in Optional(Channels)
        /\ in.idempotencyKey \in UpsertKeys
    BY DEF StoreTypeOK, ResolvedId, UpsertInputs
  <2>3. ASSUME NEW id \in SessionIds, NEW rec \in SessionRecords, sessions' = Put(id, rec)
        PROVE  /\ DOMAIN sessions' \subseteq SessionIds
               /\ sessions' \in [DOMAIN sessions' -> SessionRecords]
    BY <2>3 DEF Put, StoreTypeOK
  <2>4. NewSession(in.occurredAt) \in SessionRecords
    BY <2>2, NewSessionType
  <2>5. CASE ReplayUpsert(in)
    BY <2>1, <2>2, <2>3, <2>4, <2>5 DEF ReplayUpsert, StoreTypeOK
  <2>6. CASE ApplyUpsert(in)
    <3> DEFINE old == IF SessionExists(ResolvedId(in)) THEN sessions[ResolvedId(in)]
                      ELSE NewSession(in.occurredAt)
               rec == AfterEvent(Linked(old, in), in)
    <3>1. old \in SessionRecords
      BY <2>4 DEF SessionExists, StoreTypeOK
    <3>2. /\ sessions' = Put(ResolvedId(in), rec)
          /\ sessionIdempotency' = sessionIdempotency \cup {in.idempotencyKey}
          /\ sessionIdByExternal' = IF in.externalChannelId = NoValue THEN sessionIdByExternal
                                    ELSE Bound(in, ResolvedId(in))
      BY <2>6 DEF ApplyUpsert
    <3> HIDE DEF old
    <3>3. rec \in SessionRecords
      BY <3>1, LinkedFacts, AfterEventFacts
    <3> HIDE DEF rec
    <3>4. /\ DOMAIN sessionIdByExternal' \subseteq Channels
          /\ sessionIdByExternal' \in [DOMAIN sessionIdByExternal' -> SessionIds]
      BY <2>2, <3>2 DEF Bound, StoreTypeOK, Optional
    <3> QED
      BY <2>1, <2>2, <2>3, <3>2, <3>3, <3>4 DEF StoreTypeOK
  <2> QED
    BY <1>1, <2>5, <2>6 DEF UpsertSession
<1>2. ASSUME NEW in \in TurnInputs, RecordTurn(in)
      PROVE  StoreTypeOK' /\ IsFiniteSet(turns)'
  <2>1. NextIndex(in.sessionId) \in Nat
    BY FS_Subset, FS_CardinalityType DEF NextIndex, RowsOf
  <2> DEFINE new == [sessionId |-> in.sessionId, index |-> NextIndex(in.sessionId),
                     role |-> in.role, idempotencyKey |-> in.idempotencyKey]
  <2>2. new \in TurnRecords
    BY <2>1 DEF TurnInputs, TurnRecords
  <2>3. turns' = turns \/ turns' = turns \cup {new}
    BY <1>2 DEF RecordTurn, AddTurn
  <2> HIDE DEF new
  <2>4. IsFiniteSet(turns')
    BY <2>3, FS_AddElement
  <2> QED
    BY <1>2, <2>2, <2>3, <2>4 DEF RecordTurn, StoreTypeOK
<1>3. ASSUME NEW event \in EventInputs, RecordSpan(event)
      PROVE  StoreTypeOK' /\ IsFiniteSet(turns)'
  BY <1>3 DEF RecordSpan, AddEvent, StoreTypeOK
<1>4. ASSUME NEW call \in ToolInputs, AddToolCall(call),
             UNCHANGED <<sessions, sessionIdByExternal, sessionIdempotency, turns, events>>
      PROVE  StoreTypeOK' /\ IsFiniteSet(turns)'
  BY <1>4 DEF AddToolCall, StoreTypeOK
<1>5. ASSUME NEW id \in SessionIds, NEW evidence \in SUBSET RowKeys,
             SaveSessionEvaluation(id, [evidence |-> evidence])
      PROVE  StoreTypeOK' /\ IsFiniteSet(turns)'
  <2> DEFINE score == [evidence |-> evidence]
  <2>1. score \in Optional(Evaluations)
    BY DEF Evaluations, Optional
  <2>2. /\ id \in DOMAIN sessions
        /\ sessions' = [sessions EXCEPT ![id].evaluation = score]
        /\ UNCHANGED <<sessionIdByExternal, sessionIdempotency, turns, toolCalls, events>>
    BY <1>5 DEF SaveSessionEvaluation, SessionExists
  <2> HIDE DEF score
  <2>3. [sessions[id] EXCEPT !.evaluation = score] \in SessionRecords
    BY <2>1, <2>2 DEF StoreTypeOK, SessionRecords
  <2>4. DOMAIN sessions' = DOMAIN sessions /\ sessions' \in [DOMAIN sessions -> SessionRecords]
    BY <2>2, <2>3 DEF StoreTypeOK
  <2> QED
    BY <2>2, <2>4 DEF StoreTypeOK
<1>6. CASE UNCHANGED storeVars
  BY <1>6 DEF storeVars, StoreTypeOK
<1> QED
  BY <1>1, <1>2, <1>3, <1>4, <1>5, <1>6

\* A report whose rows are well typed is one a score can be made of, or the call
\* returns without one.
LEMMA ScoreReportKeepsClients ==
  ASSUME ClientsTypeOK, NEW c \in Clients, NEW report \in Reports, pc[c] # "done",
         Op(c) = "ensureSessionEvaluation", ScoreReport(c, report)
  PROVE  ClientsTypeOK'
BY GoOnKeepsClients, ReturnKeepsClients DEF ScoreReport

\* The keys of well typed rows.
LEMMA RowKeyFacts ==
  ASSUME NEW rs, rs \subseteq TurnRecords \/ rs \subseteq ToolInputs \/ rs \subseteq EventInputs,
         NEW id
  PROVE  KeysOf(RowsOf(rs, id)) \subseteq RowKeys
BY DEF KeysOf, RowsOf, TurnRecords, ToolInputs, EventInputs

\* A call made again on the memory store keeps both stores and clients typed
\* (withFallback).
LEMMA FallBackKeepsType ==
  ASSUME HostedTypeInv, NEW c \in Clients, pc[c] # "done", FallBack(c)
  PROVE  StoreTypeOK' /\ IsFiniteSet(turns)' /\ ClientsTypeOK'
<1> USE DEF HostedTypeInv
<1>1. /\ Op(c) = "upsertSession" => Input(c) \in UpsertInputs
      /\ Op(c) = "recordTurn" => Input(c) \in TurnInputs
      /\ Op(c) = "recordToolCall" => Input(c) \in ToolInputs
      /\ Op(c) = "recordExecutionEvent" => Input(c) \in EventInputs
      /\ Op(c) = "ensureSessionEvaluation" => Input(c) \in Ensures
  BY CallFacts
<1>2. CASE Return(c) /\ ~(Op(c) = "ensureSessionEvaluation")
  <2>1. ClientsTypeOK'
    BY <1>2, ReturnKeepsClients
  <2>2. \/ \E in \in UpsertInputs : UpsertSession(in)
        \/ \E in \in TurnInputs : RecordTurn(in)
        \/ \E event \in EventInputs : RecordSpan(event)
        \/ \E call \in ToolInputs :
             /\ AddToolCall(call)
             /\ UNCHANGED <<sessions, sessionIdByExternal, sessionIdempotency, turns, events>>
    BY <1>1, <1>2 DEF FallBack
  <2> QED
    BY <2>1, <2>2, MemoryCallKeepsType
<1>3. CASE Op(c) = "ensureSessionEvaluation" /\ pc[c] # "patch"
  <2> DEFINE id == Input(c).sessionId
  <2>1. /\ UNCHANGED storeVars
        /\ (ScoreReport(c, FallbackReport(id)) /\ SessionExists(id)) \/ Return(c)
    BY <1>3 DEF FallBack
  <2>2. CASE ScoreReport(c, FallbackReport(id)) /\ SessionExists(id)
    <3>1. sessions[id].evaluation \in Optional(Evaluations) /\ Terminal(id) \in BOOLEAN
      BY <2>2 DEF SessionExists, StoreTypeOK, SessionRecords, Terminal
    <3>2. ReportEvidence(id) \subseteq RowKeys
      BY DEF ReportEvidence, KeysOf, RowsOf, StoreTypeOK, TurnRecords, ToolInputs, EventInputs
    <3>3. FallbackReport(id) \in Reports
      BY <3>1, <3>2 DEF FallbackReport, Reports
    <3> QED
      BY <1>3, <2>1, <2>2, <3>3, ScoreReportKeepsClients, MemoryCallKeepsType
  <2>3. CASE Return(c)
    BY <2>1, <2>3, ReturnKeepsClients, MemoryCallKeepsType
  <2> QED BY <2>1, <2>2, <2>3
<1>4. CASE Op(c) = "ensureSessionEvaluation" /\ pc[c] = "patch"
  <2>1. got[c] \in Reports
    BY <1>4 DEF ClientsTypeOK, ClientTypeOK, Records
  <2>2. got[c].keys \subseteq RowKeys /\ Input(c).sessionId \in SessionIds
    BY <1>1, <1>4, <2>1 DEF Reports, Ensures
  <2>3. Return(c) /\ (UNCHANGED storeVars
                       \/ SaveSessionEvaluation(Input(c).sessionId, [evidence |-> got[c].keys]))
    BY <1>4 DEF FallBack
  <2> QED
    BY <2>2, <2>3, ReturnKeepsClients, MemoryCallKeepsType
<1> QED
  BY <1>2, <1>3, <1>4 DEF FallBack

\* A write that took effect ends its call, here or on the memory store.
LEMMA AcknowledgedKeepsType ==
  ASSUME HostedTypeInv, NEW c \in Clients, pc[c] # "done", Acknowledged(c)
  PROVE  StoreTypeOK' /\ IsFiniteSet(turns)' /\ ClientsTypeOK'
BY FallBackKeepsType, ReturnKeepsClients, MemoryCallKeepsType DEF Acknowledged, HostedTypeInv

\* The next row of a session is well typed, coherent if the row was, and keeps
\* its evaluation (computeNext, whose start overwrites startedAt).
LEMMA NextRowFacts ==
  ASSUME NEW in \in UpsertInputs, NEW s \in SessionRecords
  PROVE  /\ NextRow(s, in) \in SessionRecords
         /\ Coherent(s) => Coherent(NextRow(s, in))
         /\ NextRow(s, in).evaluation = s.evaluation
         /\ NextRow(s, in).externalChannelId = s.externalChannelId
<1>1. /\ in.eventType \in {"call_started", "transcript", "call_ended"}
      /\ in.occurredAt \in Nat
  BY TimesAssumption DEF UpsertInputs, EventTypes
<1>2. CASE in.eventType = "call_started"
  <2> DEFINE e == [s EXCEPT !.startedAt = in.occurredAt]
  <2>1. /\ e \in SessionRecords
        /\ e.businessStatus = s.businessStatus /\ e.mediaStatus = s.mediaStatus
        /\ e.endedAt = s.endedAt /\ e.durationMs = s.durationMs
        /\ e.evaluation = s.evaluation /\ e.externalChannelId = s.externalChannelId
    BY <1>1 DEF SessionRecords
  <2>2. NextRow(s, in) = Activated(e)
    BY <1>2 DEF NextRow
  <2> HIDE DEF e
  <2> QED
    BY <2>1, <2>2 DEF Activated, SessionRecords, Coherent
<1>3. CASE in.eventType \in {"transcript", "call_ended"}
  <2>1. NextRow(s, in) = AfterEvent(s, in)
    BY <1>3 DEF NextRow, AfterEvent
  <2> QED
    BY <2>1, AfterEventFacts
<1> QED
  BY <1>1, <1>2, <1>3

\* Storing a row leaves the others as they are, and gives the row the writer's
\* columns or, where the writer found no row, keeps the score stored meanwhile.
LEMMA MergedFacts ==
  ASSUME TablesTypeOK, NEW id \in SessionIds, NEW next \in SessionRecords, NEW stored \in BOOLEAN
  PROVE  /\ DOMAIN Merged(id, next, stored) = DOMAIN rows \cup {id}
         /\ DOMAIN Merged(id, next, stored) \subseteq SessionIds
         /\ Merged(id, next, stored) \in [DOMAIN Merged(id, next, stored) -> SessionRecords]
         /\ \A x \in DOMAIN rows : x # id => Merged(id, next, stored)[x] = rows[x]
         /\ Coherent(next) => Coherent(Merged(id, next, stored)[id])
         /\ \/ Merged(id, next, stored)[id].evaluation = next.evaluation
            \/ /\ id \in DOMAIN rows
               /\ Merged(id, next, stored)[id].evaluation = rows[id].evaluation
<1> DEFINE m == Merged(id, next, stored)
<1>1. /\ DOMAIN m = DOMAIN rows \cup {id}
      /\ \A x \in DOMAIN rows : x # id => m[x] = rows[x]
      /\ m = [x \in DOMAIN m |-> m[x]]
  BY DEF Merged
<1>2. \/ m[id] = next
      \/ id \in DOMAIN rows /\ m[id] = [next EXCEPT !.evaluation = rows[id].evaluation]
  BY DEF Merged
<1> HIDE DEF m
<1>3. \A x \in DOMAIN rows : rows[x] \in SessionRecords
  BY DEF TablesTypeOK
<1>4. m[id] \in SessionRecords
  BY <1>2, <1>3 DEF SessionRecords
<1>5. /\ DOMAIN m \subseteq SessionIds
      /\ m \in [DOMAIN m -> SessionRecords]
  BY <1>1, <1>3, <1>4 DEF TablesTypeOK
<1>6. /\ Coherent(next) => Coherent(m[id])
      /\ \/ m[id].evaluation = next.evaluation
         \/ id \in DOMAIN rows /\ m[id].evaluation = rows[id].evaluation
  BY <1>2, <1>3 DEF SessionRecords, Coherent
<1> QED
  BY <1>1, <1>5, <1>6 DEF m

\* The row upsertSession writes back.
PostedRow(c) == NextRow(Linked(got[c].row, Input(c)), Input(c))

\* It is well typed, and as coherent and scored as the row that was read.
LEMMA PostedRowFacts ==
  ASSUME HostedTypeInv, NEW c \in Clients, pc[c] = "post_session"
  PROVE  /\ Op(c) = "upsertSession" /\ got[c] \in Finds
         /\ PostedRow(c) \in SessionRecords
         /\ Coherent(got[c].row) => Coherent(PostedRow(c))
         /\ PostedRow(c).evaluation = got[c].row.evaluation
<1>1. Op(c) = "upsertSession" /\ got[c] \in Finds
  BY DEF HostedTypeInv, ClientsTypeOK, ClientTypeOK
<1>2. Input(c) \in UpsertInputs
  BY <1>1, CallFacts DEF HostedTypeInv
<1>3. got[c].row \in SessionRecords
  BY <1>1 DEF Finds
<1>4. /\ Linked(got[c].row, Input(c)) \in SessionRecords
      /\ Coherent(got[c].row) => Coherent(Linked(got[c].row, Input(c)))
      /\ Linked(got[c].row, Input(c)).evaluation = got[c].row.evaluation
  BY <1>2, <1>3, LinkedFacts
<1> QED
  BY <1>1, <1>2, <1>4, NextRowFacts DEF PostedRow

\* The requests of upsertSession keep types.
LEMMA UpsertKeepsType ==
  ASSUME HostedTypeInv, NEW c \in Clients, Upsert(c)
  PROVE  HostedTypeInv'
<1> USE DEF HostedTypeInv
<1>1. CASE FindByChannel(c)
  <2>1. Op(c) = "upsertSession"
    BY <1>1 DEF FindByChannel, ClientsTypeOK, ClientTypeOK
  <2>2. \A id \in DOMAIN rows : [id |-> id, row |-> rows[id], stored |-> TRUE] \in Finds
    BY DEF TablesTypeOK, Finds
  <2>3. ClientsTypeOK'
    BY <1>1, <2>1, <2>2, GoOnKeepsClients DEF FindByChannel, RowsOfChannel
  <2> QED
    BY <1>1, <2>3, MemoryCallKeepsType DEF FindByChannel, tables, TablesTypeOK
<1>2. CASE FindById(c)
  <2>1. Op(c) = "upsertSession"
    BY <1>2 DEF FindById, ClientsTypeOK, ClientTypeOK
  <2>2. Input(c).sessionId \in SessionIds /\ Input(c).occurredAt \in Times
    BY <1>2, <2>1, CallFacts DEF FindById, UpsertInputs
  <2> DEFINE answer == IF Input(c).sessionId \in DOMAIN rows
                       THEN [id |-> Input(c).sessionId, row |-> rows[Input(c).sessionId],
                             stored |-> TRUE]
                       ELSE [id |-> Input(c).sessionId, row |-> NewSession(Input(c).occurredAt),
                             stored |-> FALSE]
  <2>3. answer \in Finds
    BY <2>2, NewSessionType DEF TablesTypeOK, Finds
  <2>4. GoOn(c, "post_session", answer)
    BY <1>2 DEF FindById
  <2> HIDE DEF answer
  <2>5. ClientsTypeOK'
    BY <1>2, <2>1, <2>3, <2>4, GoOnKeepsClients DEF FindById
  <2> QED
    BY <1>2, <2>5, MemoryCallKeepsType DEF FindById, tables, TablesTypeOK
<1>3. CASE PostSession(c)
  <2>1. got[c] \in Finds /\ PostedRow(c) \in SessionRecords /\ pc[c] # "done"
    BY <1>3, PostedRowFacts DEF PostSession
  <2>2. /\ rows' = rows \/ rows' = Merged(got[c].id, PostedRow(c), got[c].stored)
        /\ Acknowledged(c) \/ FallBack(c)
        /\ UNCHANGED <<turnRows, toolRows, eventRows>>
    BY <1>3 DEF PostSession, PostedRow
  <2>3. got[c].id \in SessionIds /\ got[c].stored \in BOOLEAN
    BY <2>1 DEF Finds
  <2> DEFINE merged == Merged(got[c].id, PostedRow(c), got[c].stored)
  <2>4. DOMAIN merged \subseteq SessionIds /\ merged \in [DOMAIN merged -> SessionRecords]
    BY <2>1, <2>3, MergedFacts
  <2> HIDE DEF merged
  <2>5. TablesTypeOK'
    BY <2>2, <2>4 DEF TablesTypeOK, merged
  <2> QED
    BY <2>1, <2>2, <2>5, AcknowledgedKeepsType, FallBackKeepsType
<1> QED
  BY <1>1, <1>2, <1>3 DEF Upsert

\* The number of a session's turns is a number, and a row more makes it greater.
LEMMA RowCountFacts ==
  ASSUME NEW rs, IsFiniteSet(rs), NEW id
  PROVE  /\ Cardinality(RowsOf(rs, id)) \in Nat
         /\ \A row : row \notin rs =>
              /\ IsFiniteSet(rs \cup {row})
              /\ Cardinality(RowsOf(rs \cup {row}, id)) =
                   Cardinality(RowsOf(rs, id)) + (IF row.sessionId = id THEN 1 ELSE 0)
<1>1. RowsOf(rs, id) \subseteq rs /\ IsFiniteSet(RowsOf(rs, id))
  BY FS_Subset DEF RowsOf
<1>2. Cardinality(RowsOf(rs, id)) \in Nat
  BY <1>1, FS_CardinalityType
<1>3. ASSUME NEW row, row \notin rs
      PROVE  /\ IsFiniteSet(rs \cup {row})
             /\ Cardinality(RowsOf(rs \cup {row}, id)) =
                  Cardinality(RowsOf(rs, id)) + (IF row.sessionId = id THEN 1 ELSE 0)
  <2>1. IsFiniteSet(rs \cup {row})
    BY FS_AddElement
  <2>2. CASE row.sessionId = id
    <3>1. RowsOf(rs \cup {row}, id) = RowsOf(rs, id) \cup {row} /\ row \notin RowsOf(rs, id)
      BY <1>3, <2>2 DEF RowsOf
    <3> QED
      BY <1>1, <2>1, <2>2, <3>1, FS_AddElement
  <2>3. CASE row.sessionId # id
    <3>1. RowsOf(rs \cup {row}, id) = RowsOf(rs, id)
      BY <2>3 DEF RowsOf
    <3> QED
      BY <1>2, <2>1, <2>3, <3>1
  <2> QED
    BY <2>2, <2>3
<1> QED
  BY <1>2, <1>3

\* The row an insert adds.
LEMMA InsertFacts ==
  ASSUME HostedTypeInv, NEW c \in Clients, pc[c] = "insert"
  PROVE  /\ Op(c) \in Records
         /\ Op(c) = "recordTurn" => TurnRow(c) \in TurnRecords /\ got[c] \in Nat
         /\ Op(c) = "recordToolCall" => Input(c) \in ToolInputs
         /\ Op(c) = "recordExecutionEvent" => Input(c) \in EventInputs
<1>1. Op(c) \in Records /\ (Op(c) = "recordTurn" => got[c] \in Nat)
  BY DEF HostedTypeInv, ClientsTypeOK, ClientTypeOK
<1>2. /\ Op(c) = "recordTurn" => Input(c) \in TurnInputs
      /\ Op(c) = "recordToolCall" => Input(c) \in ToolInputs
      /\ Op(c) = "recordExecutionEvent" => Input(c) \in EventInputs
  BY CallFacts DEF HostedTypeInv
<1> QED
  BY <1>1, <1>2 DEF TurnRow, TurnRecords, TurnInputs

\* The requests of a recording call keep types.
LEMMA RecordKeepsType ==
  ASSUME HostedTypeInv, NEW c \in Clients, Record(c)
  PROVE  HostedTypeInv'
<1> USE DEF HostedTypeInv
<1>1. CASE FindByKey(c)
  <2>1. Op(c) \in Records
    BY <1>1 DEF FindByKey, ClientsTypeOK, ClientTypeOK
  <2>2. ClientsTypeOK'
    BY <1>1, <2>1, GoOnKeepsClients, ReturnKeepsClients DEF FindByKey
  <2> QED
    BY <1>1, <2>2, MemoryCallKeepsType DEF FindByKey, tables, TablesTypeOK
<1>2. CASE CountSiblings(c)
  <2>1. Op(c) = "recordTurn"
    BY <1>2 DEF CountSiblings, ClientsTypeOK, ClientTypeOK
  <2>2. Cardinality(RowsOf(turnRows, Input(c).sessionId)) \in Nat
    BY RowCountFacts DEF TablesTypeOK
  <2>3. ClientsTypeOK'
    BY <1>2, <2>1, <2>2, GoOnKeepsClients DEF CountSiblings, Records
  <2> QED
    BY <1>2, <2>3, MemoryCallKeepsType DEF CountSiblings, tables, TablesTypeOK
<1>3. CASE Insert(c)
  <2>1. pc[c] = "insert" /\ (Acknowledged(c) \/ FallBack(c)) /\ rows' = rows
    BY <1>3 DEF Insert
  <2>2. \/ UNCHANGED <<turnRows, toolRows, eventRows>>
        \/ Inserted(c)
    BY <1>3 DEF Insert
  <2>3. TablesTypeOK'
    <3>1. CASE UNCHANGED <<turnRows, toolRows, eventRows>>
      BY <2>1, <3>1 DEF TablesTypeOK
    <3>2. CASE Inserted(c)
      <4>1. IsFiniteSet(turnRows')
        BY <3>2, FS_AddElement DEF Inserted, TablesTypeOK
      <4> QED
        BY <2>1, <3>2, <4>1, InsertFacts DEF Inserted, TablesTypeOK
    <3> QED BY <2>2, <3>1, <3>2
  <2> QED
    BY <2>1, <2>3, AcknowledgedKeepsType, FallBackKeepsType
<1> QED
  BY <1>1, <1>2, <1>3 DEF Record

\* The requests of a report and of its score keep types.
LEMMA ReportKeepsType ==
  ASSUME HostedTypeInv, NEW c \in Clients, Report(c)
  PROVE  HostedTypeInv'
<1> USE DEF HostedTypeInv
<1>1. ASSUME pc[c] \in {"turns", "tools", "events", "patch"}
      PROVE  Op(c) = "ensureSessionEvaluation" /\ got[c] \in Reports
  BY <1>1 DEF ClientsTypeOK, ClientTypeOK
<1>2. ASSUME got[c] \in Reports,
             NEW rs, rs \subseteq TurnRecords \/ rs \subseteq ToolInputs \/ rs \subseteq EventInputs
      PROVE  WithRows(c, rs) \in Reports
  BY <1>2, RowKeyFacts DEF WithRows, Reports
<1>3. CASE ReadSession(c)
  <2>1. Op(c) = "ensureSessionEvaluation" /\ pc[c] # "done"
    BY <1>3 DEF ReadSession, ClientsTypeOK, ClientTypeOK
  <2>2. \A id \in DOMAIN rows :
          [terminal |-> rows[id].endedAt # NoValue, evaluation |-> rows[id].evaluation, keys |-> {}]
            \in Reports
    BY DEF TablesTypeOK, Reports, SessionRecords
  <2>3. ClientsTypeOK'
    BY <1>3, <2>1, <2>2, GoOnKeepsClients, ReturnKeepsClients DEF ReadSession
  <2> QED
    BY <1>3, <2>3, MemoryCallKeepsType DEF ReadSession, tables, TablesTypeOK
<1>4. CASE ReadTurns(c) \/ ReadTools(c)
  <2>1. /\ pc[c] \in {"turns", "tools"}
        /\ \/ GoOn(c, "tools", WithRows(c, turnRows))
           \/ GoOn(c, "events", WithRows(c, toolRows))
        /\ UNCHANGED <<tables, storeVars>>
    BY <1>4 DEF ReadTurns, ReadTools
  <2>2. WithRows(c, turnRows) \in Reports /\ WithRows(c, toolRows) \in Reports
    BY <1>1, <1>2, <2>1 DEF TablesTypeOK
  <2>3. ClientsTypeOK'
    BY <1>1, <2>1, <2>2, GoOnKeepsClients
  <2> QED
    BY <2>1, <2>3, MemoryCallKeepsType DEF tables, TablesTypeOK
<1>5. CASE ReadEvents(c)
  <2>1. WithRows(c, eventRows) \in Reports
    BY <1>1, <1>2, <1>5 DEF TablesTypeOK, ReadEvents
  <2>2. ClientsTypeOK'
    BY <1>1, <1>5, <2>1, ScoreReportKeepsClients DEF ReadEvents
  <2> QED
    BY <1>5, <2>2, MemoryCallKeepsType DEF ReadEvents, tables, TablesTypeOK
<1>6. CASE PatchEvaluation(c)
  <2> DEFINE id == Input(c).sessionId
             score == [evidence |-> got[c].keys]
  <2>1. /\ pc[c] = "patch" /\ Acknowledged(c) /\ UNCHANGED <<turnRows, toolRows, eventRows>>
        /\ rows' = IF id \in DOMAIN rows THEN [rows EXCEPT ![id].evaluation = score] ELSE rows
    BY <1>6 DEF PatchEvaluation
  <2>2. score \in Optional(Evaluations)
    BY <1>1, <2>1 DEF Reports, Evaluations, Optional
  <2> HIDE DEF score
  <2>3. id \in DOMAIN rows => [rows[id] EXCEPT !.evaluation = score] \in SessionRecords
    BY <2>2 DEF TablesTypeOK, SessionRecords
  <2>4. rows' \in [DOMAIN rows -> SessionRecords]
    BY <2>1, <2>3 DEF TablesTypeOK
  <2>5. TablesTypeOK'
    BY <2>1, <2>4 DEF TablesTypeOK
  <2> QED
    BY <2>1, <2>5, AcknowledgedKeepsType
<1> QED
  BY <1>3, <1>4, <1>5, <1>6 DEF Report

\* The types at the start.
LEMMA InitTypes == Init => HostedTypeInv
<1> SUFFICES ASSUME Init PROVE HostedTypeInv
  OBVIOUS
<1>1. StoreTypeOK /\ IsFiniteSet(turns)
  BY FS_EmptySet DEF Init, StoreInit, StoreTypeOK, EmptyMap
<1>2. TablesTypeOK
  BY FS_EmptySet DEF Init, TablesTypeOK, EmptyMap
<1>3. ASSUME NEW c \in Clients PROVE ClientTypeOK(c)
  <2>1. /\ program[c] \in Seq(PortCalls) /\ program[c] # <<>> /\ at[c] = 1
        /\ pc[c] = FirstRequest(program[c][1])
    BY ProgramsAssumption DEF Init
  <2>2. Len(program[c]) \in Nat \ {0} /\ program[c][1] \in PortCalls
    BY <2>1
  <2>3. \/ Op(c) = "upsertSession" /\ pc[c] \in {"by_channel", "by_id"}
        \/ Op(c) \in Records /\ pc[c] = "by_key"
        \/ Op(c) = "ensureSessionEvaluation" /\ pc[c] = "session"
    BY <2>1, <2>2, FirstRequestFacts DEF Op
  <2> QED
    BY <2>1, <2>2, <2>3 DEF ClientTypeOK
<1>4. ClientsTypeOK
  BY <1>3 DEF ClientsTypeOK, Init
<1> QED
  BY <1>1, <1>2, <1>4 DEF HostedTypeInv

\* Every request keeps the types.
LEMMA NextTypes == HostedTypeInv /\ [Next]_vars => HostedTypeInv'
<1> SUFFICES ASSUME HostedTypeInv, [Next]_vars PROVE HostedTypeInv'
  OBVIOUS
<1>1. ASSUME NEW c \in Clients, RequestFails(c) PROVE HostedTypeInv'
  BY <1>1, FallBackKeepsType DEF RequestFails, HostedTypeInv, tables, TablesTypeOK
<1>2. CASE UNCHANGED vars
  BY <1>2 DEF vars, tables, storeVars, clientVars, HostedTypeInv, StoreTypeOK, TablesTypeOK,
     ClientsTypeOK, ClientTypeOK, Op
<1> QED
  BY <1>1, <1>2, UpsertKeepsType, RecordKeepsType, ReportKeepsType DEF Next

\* What every client has read and every table holds is well typed throughout.
THEOREM HostedTypes == Spec => []HostedTypeInv
BY InitTypes, NextTypes, PTL DEF Spec

\* The tables and clients keep their types (SupabasePersistence).
THEOREM HostedTypeCorrect == Spec => []HostedTypeOK
<1>1. HostedTypeInv => HostedTypeOK
  <2> SUFFICES ASSUME HostedTypeInv PROVE HostedTypeOK
    OBVIOUS
  <2>1. \A c \in Clients :
          pc[c] \in {"by_channel", "by_id", "post_session", "by_key", "siblings", "insert",
                     "session", "turns", "tools", "events", "patch", "done"}
    BY DEF HostedTypeInv, ClientsTypeOK, ClientTypeOK
  <2> QED
    BY <2>1 DEF HostedTypeInv, HostedTypeOK, TablesTypeOK, ClientsTypeOK, ClientTypeOK
<1> QED
  BY <1>1, HostedTypes, PTL

-----------------------------------------------------------------------------
(* The inductive invariants.                                               *)

\* Stored rows, and those a client is about to write back.
RowsCoherent ==
  /\ \A id \in DOMAIN rows : Coherent(rows[id])
  /\ \A c \in Clients : pc[c] = "post_session" => Coherent(got[c].row)

\* A turn's number is one the session had that many turns for.
TurnsAreNumbered ==
  /\ \A t \in turnRows : t.index < Cardinality(RowsOf(turnRows, t.sessionId))
  /\ \A c \in Clients :
       pc[c] = "insert" /\ Op(c) = "recordTurn" =>
         got[c] <= Cardinality(RowsOf(turnRows, Input(c).sessionId))

HostedInv == HostedTypeInv /\ RowsCoherent /\ TurnsAreNumbered /\ AcknowledgedRowsAreKept

\* The turns a client was told are recorded are in the table.
TurnsAreRecorded ==
  \A c \in Clients : \A i \in 1 .. (at[c] - 1) :
    program[c][i].op = "recordTurn" => HasKey(turnRows, program[c][i].in.idempotencyKey)

\* Every turn is one some program records, and an answer's question is stored.
AnswersHaveQuestions ==
  \A t \in turnRows :
    /\ [sessionId |-> t.sessionId, role |-> t.role, idempotencyKey |-> t.idempotencyKey] \in TurnCalls
    /\ \A q \in TurnCalls : AnswerOf(t, q) => HasKey(turnRows, q.idempotencyKey)

\* An answer about to be inserted has a number above its question's.
AnswersCountTheirQuestion ==
  \A c \in Clients :
    pc[c] = "insert" /\ Op(c) = "recordTurn" =>
      \A u \in turnRows : AnswerOf(Input(c), u) => u.index < got[c]

TranscriptInv ==
  OneHistory =>
    /\ TurnsAreRecorded
    /\ AnswersHaveQuestions
    /\ AnswersCountTheirQuestion
    /\ \A u, a \in turnRows : AnswerOf(a, u) => u.index < a.index

SessionKeys(id) ==
  KeysOf(RowsOf(turnRows, id)) \cup KeysOf(RowsOf(toolRows, id)) \cup KeysOf(RowsOf(eventRows, id))

\* The keys of the rows a report has still to read.
Unread(c) ==
  LET id == Input(c).sessionId
  IN  (IF pc[c] = "turns" THEN KeysOf(RowsOf(turnRows, id)) ELSE {})
        \cup (IF pc[c] \in {"turns", "tools"} THEN KeysOf(RowsOf(toolRows, id)) ELSE {})
        \cup (IF pc[c] \in {"turns", "tools", "events"} THEN KeysOf(RowsOf(eventRows, id)) ELSE {})

Founded(evaluation, keys) == evaluation # NoValue => evaluation.evidence \subseteq keys

ScoresInv ==
  OneHistory =>
    /\ \A id \in DOMAIN rows : Founded(rows[id].evaluation, SessionKeys(id))
    /\ \A c \in Clients :
         /\ pc[c] = "post_session" => Founded(got[c].row.evaluation, SessionKeys(got[c].id))
         /\ pc[c] \in {"turns", "tools", "events", "patch"} =>
              /\ got[c].keys \subseteq SessionKeys(Input(c).sessionId)
              /\ Founded(got[c].evaluation, got[c].keys \cup Unread(c))

-----------------------------------------------------------------------------
(* What a request changes.                                                 *)

Starts == {"by_channel", "by_id", "by_key", "session", "done"}

\* One client moves, to the next request of its call or past the call.
Moves(c) ==
  /\ program' = program
  /\ \A x \in Clients \ {c} :
       /\ at'[x] = at[x] /\ pc'[x] = pc[x] /\ got'[x] = got[x]
       /\ Op(x)' = Op(x) /\ Input(x)' = Input(x)
  /\ \/ at'[c] = at[c] + 1 /\ pc'[c] \in Starts
     \/ at'[c] = at[c] /\ Op(c)' = Op(c) /\ Input(c)' = Input(c)

\* A call that returns moves its client to the start of the next.
LEMMA ReturnMoves ==
  ASSUME ClientsTypeOK, NEW c \in Clients, pc[c] # "done", Return(c)
  PROVE  Moves(c) /\ at'[c] = at[c] + 1 /\ pc'[c] \in Starts
<1>1. /\ program' = program
      /\ at' = [x \in Clients |-> IF x = c THEN at[c] + 1 ELSE at[x]]
      /\ pc' = [x \in Clients |-> IF x # c THEN pc[x]
                                  ELSE IF at[c] = Len(program[c]) THEN "done"
                                  ELSE FirstRequest(program[c][at[c] + 1])]
      /\ got' = [x \in Clients |-> IF x = c THEN NoValue ELSE got[x]]
  BY DEF Return, ClientsTypeOK
<1>2. at[c] # Len(program[c]) => program[c][at[c] + 1] \in PortCalls
  <2>1. /\ at[c] \in 1 .. Len(program[c])
        /\ program[c] \in Seq(PortCalls) /\ Len(program[c]) \in Nat
    BY CallFacts
  <2> QED BY <2>1
<1>3. pc'[c] \in Starts
  BY <1>1, <1>2, FirstRequestFacts DEF Starts
<1> QED
  BY <1>1, <1>3 DEF Moves, Op, Input

\* A call that goes on moves its client to the next request of the same call.
LEMMA GoOnMoves ==
  ASSUME ClientsTypeOK, NEW c \in Clients, NEW request, NEW answer, GoOn(c, request, answer)
  PROVE  Moves(c) /\ at'[c] = at[c] /\ pc'[c] = request /\ got'[c] = answer
<1>1. /\ program' = program /\ at' = at
      /\ pc' = [x \in Clients |-> IF x = c THEN request ELSE pc[x]]
      /\ got' = [x \in Clients |-> IF x = c THEN answer ELSE got[x]]
  BY DEF GoOn, ClientsTypeOK
<1> QED
  BY <1>1 DEF Moves, Op, Input

\* What the memory store has is only added to, and a row asked for is in it.
LEMMA MemoryRowFacts ==
  ASSUME NEW in
  PROVE  /\ AddTurn(in) => turns \subseteq turns' /\ in.idempotencyKey \in KeysOf(turns')
         /\ AddToolCall(in) => toolCalls \subseteq toolCalls' /\ in.idempotencyKey \in KeysOf(toolCalls')
         /\ AddEvent(in) => events \subseteq events' /\ in.idempotencyKey \in KeysOf(events')
<1>1. \A rs : HasKey(rs, in.idempotencyKey) => in.idempotencyKey \in KeysOf(rs)
  BY DEF HasKey, KeysOf
<1>2. \A rs, row : row.idempotencyKey = in.idempotencyKey =>
        in.idempotencyKey \in KeysOf(rs \cup {row})
  BY DEF KeysOf
<1>3. [sessionId |-> in.sessionId, index |-> NextIndex(in.sessionId), role |-> in.role,
       idempotencyKey |-> in.idempotencyKey].idempotencyKey = in.idempotencyKey
  OBVIOUS
<1>4. AddTurn(in) => turns \subseteq turns' /\ in.idempotencyKey \in KeysOf(turns')
  BY <1>1, <1>2, <1>3 DEF AddTurn
<1>5. AddToolCall(in) => toolCalls \subseteq toolCalls' /\ in.idempotencyKey \in KeysOf(toolCalls')
  BY <1>1, <1>2 DEF AddToolCall
<1>6. AddEvent(in) => events \subseteq events' /\ in.idempotencyKey \in KeysOf(events')
  BY <1>1, <1>2 DEF AddEvent
<1> QED
  BY <1>4, <1>5, <1>6

\* The memory store's rows after a call made again on it (withFallback).
LEMMA FallBackFacts ==
  ASSUME HostedTypeInv, NEW c \in Clients, pc[c] # "done", FallBack(c)
  PROVE  /\ turns \subseteq turns' /\ toolCalls \subseteq toolCalls' /\ events \subseteq events'
         /\ Op(c) \in Records =>
              Input(c).idempotencyKey \in KeysOf(turns') \cup KeysOf(toolCalls') \cup KeysOf(events')
         /\ \/ Return(c)
            \/ /\ GoOn(c, "patch", FallbackReport(Input(c).sessionId))
               /\ Op(c) = "ensureSessionEvaluation"
               /\ SessionExists(Input(c).sessionId)
         /\ OneHistory' => OneHistory /\ Return(c) /\ Op(c) = "ensureSessionEvaluation"
<1>1. CASE Op(c) = "upsertSession" /\ UpsertSession(Input(c)) /\ Return(c)
  <2>1. UNCHANGED <<turns, toolCalls, events>>
    BY <1>1 DEF UpsertSession
  <2>2. DOMAIN sessions' # {}
    <3>1. \A id, rec : id \in DOMAIN Put(id, rec)
      BY DEF Put
    <3> QED
      BY <1>1, <3>1 DEF UpsertSession, ReplayUpsert, ApplyUpsert, SessionExists
  <2>3. ~OneHistory'
    BY <2>2 DEF OneHistory, EmptyMap
  <2> QED
    BY <1>1, <2>1, <2>3 DEF Records
<1>2. CASE Op(c) \in Records /\ Return(c)
  <2>1. \/ Op(c) = "recordTurn" /\ RecordTurn(Input(c))
        \/ Op(c) = "recordExecutionEvent" /\ RecordSpan(Input(c))
        \/ /\ Op(c) = "recordToolCall" /\ AddToolCall(Input(c))
           /\ UNCHANGED <<sessions, sessionIdByExternal, sessionIdempotency, turns, events>>
    BY <1>2 DEF FallBack, Records
  <2>2. /\ turns \subseteq turns' /\ toolCalls \subseteq toolCalls' /\ events \subseteq events'
        /\ Input(c).idempotencyKey \in KeysOf(turns') \cup KeysOf(toolCalls') \cup KeysOf(events')
    BY <2>1, MemoryRowFacts DEF RecordTurn, RecordSpan
  <2>3. ~OneHistory'
    BY <2>2 DEF OneHistory, KeysOf
  <2> QED
    BY <1>2, <2>2, <2>3
<1>3. CASE Op(c) = "ensureSessionEvaluation" /\ pc[c] # "patch"
  <2>1. UNCHANGED storeVars
    BY <1>3 DEF FallBack
  <2>2. /\ UNCHANGED <<turns, toolCalls, events>>
        /\ OneHistory' => OneHistory
    BY <2>1 DEF storeVars, OneHistory
  <2>3. IF SessionExists(Input(c).sessionId)
        THEN ScoreReport(c, FallbackReport(Input(c).sessionId)) ELSE Return(c)
    BY <1>3 DEF FallBack
  <2>4. \/ Return(c)
        \/ /\ GoOn(c, "patch", FallbackReport(Input(c).sessionId))
           /\ SessionExists(Input(c).sessionId)
    BY <2>3 DEF ScoreReport
  <2>5. OneHistory => Return(c)
    BY <2>3 DEF OneHistory, SessionExists, EmptyMap
  <2> QED
    BY <1>3, <2>2, <2>4, <2>5 DEF Records
<1>4. CASE Op(c) = "ensureSessionEvaluation" /\ pc[c] = "patch"
  <2>1. /\ Return(c)
        /\ \/ SaveSessionEvaluation(Input(c).sessionId, [evidence |-> got[c].keys])
           \/ UNCHANGED storeVars
    BY <1>4 DEF FallBack
  <2>2. UNCHANGED <<turns, toolCalls, events>>
    BY <2>1 DEF storeVars, SaveSessionEvaluation
  <2>3. OneHistory' => OneHistory
    <3>1. CASE SaveSessionEvaluation(Input(c).sessionId, [evidence |-> got[c].keys])
      <4>1. Input(c).sessionId \in DOMAIN sessions'
        BY <3>1 DEF SaveSessionEvaluation, SessionExists
      <4> QED
        BY <4>1 DEF OneHistory, EmptyMap
    <3>2. CASE UNCHANGED storeVars
      BY <3>2 DEF storeVars, OneHistory
    <3> QED BY <2>1, <3>1, <3>2
  <2> QED
    BY <1>4, <2>1, <2>2, <2>3 DEF Records
<1> QED
  BY <1>1, <1>2, <1>3, <1>4 DEF FallBack, Records

\* The same of a write whose response may be lost.
LEMMA AcknowledgedFacts ==
  ASSUME HostedTypeInv, NEW c \in Clients, pc[c] # "done", Acknowledged(c)
  PROVE  /\ turns \subseteq turns' /\ toolCalls \subseteq toolCalls' /\ events \subseteq events'
         /\ OneHistory' => OneHistory
         /\ pc[c] \in {"post_session", "insert", "patch"} => Return(c)
<1>1. CASE Return(c) /\ UNCHANGED storeVars
  BY <1>1 DEF storeVars, OneHistory
<1>2. CASE FallBack(c)
  <2>1. pc[c] \in {"post_session", "insert", "patch"} => Return(c)
    BY <1>2 DEF FallBack, HostedTypeInv, ClientsTypeOK, ClientTypeOK, Records
  <2> QED
    BY <1>2, <2>1, FallBackFacts
<1> QED
  BY <1>1, <1>2 DEF Acknowledged

Step(c) == Upsert(c) \/ Record(c) \/ Report(c) \/ RequestFails(c)

\* A request moves its client, and no store loses a row by it.
LEMMA StepFacts ==
  ASSUME HostedTypeInv, NEW c \in Clients, Step(c)
  PROVE  /\ pc[c] # "done"
         /\ Moves(c)
         /\ turnRows \subseteq turnRows' /\ toolRows \subseteq toolRows' /\ eventRows \subseteq eventRows'
         /\ turns \subseteq turns' /\ toolCalls \subseteq toolCalls' /\ events \subseteq events'
         /\ OneHistory' => OneHistory
<1> USE DEF HostedTypeInv
<1>1. pc[c] # "done"
  BY DEF Step, Upsert, FindByChannel, FindById, PostSession, Record, FindByKey, CountSiblings,
     Insert, Report, ReadSession, ReadTurns, ReadTools, ReadEvents, PatchEvaluation, RequestFails
<1>2. \/ /\ \/ Return(c)
            \/ \E request, answer : GoOn(c, request, answer)
         /\ UNCHANGED storeVars
      \/ Acknowledged(c) /\ pc[c] \in {"post_session", "insert", "patch"}
      \/ FallBack(c)
  <2>1. CASE Upsert(c)
    BY <2>1 DEF Upsert, FindByChannel, FindById, PostSession
  <2>2. CASE Record(c)
    BY <2>2 DEF Record, FindByKey, CountSiblings, Insert
  <2>3. CASE Report(c)
    BY <2>3 DEF Report, ReadSession, ReadTurns, ReadTools, ReadEvents, PatchEvaluation, ScoreReport
  <2>4. CASE RequestFails(c)
    BY <2>4 DEF RequestFails
  <2> QED
    BY <2>1, <2>2, <2>3, <2>4 DEF Step
<1>3. Moves(c)
  <2>1. Return(c) \/ \E request, answer : GoOn(c, request, answer)
    BY <1>1, <1>2, AcknowledgedFacts, FallBackFacts
  <2> QED
    BY <1>1, <2>1, ReturnMoves, GoOnMoves
<1>4. /\ turns \subseteq turns' /\ toolCalls \subseteq toolCalls' /\ events \subseteq events'
      /\ OneHistory' => OneHistory
  <2>1. CASE UNCHANGED storeVars
    BY <2>1 DEF storeVars, OneHistory
  <2> QED
    BY <1>1, <1>2, <2>1, AcknowledgedFacts, FallBackFacts
<1>5. turnRows \subseteq turnRows' /\ toolRows \subseteq toolRows' /\ eventRows \subseteq eventRows'
  BY DEF Step, Upsert, FindByChannel, FindById, PostSession, Record, FindByKey, CountSiblings,
     Insert, Inserted, Report, ReadSession, ReadTurns, ReadTools, ReadEvents, PatchEvaluation,
     RequestFails, tables
<1> QED
  BY <1>1, <1>3, <1>4, <1>5

\* Which requests touch which table.
LEMMA TableFacts ==
  ASSUME NEW c \in Clients, Step(c)
  PROVE  /\ \/ rows' = rows
            \/ PostSession(c)
            \/ PatchEvaluation(c)
         /\ \/ UNCHANGED <<turnRows, toolRows, eventRows>>
            \/ Insert(c) /\ Insertable(c) /\ Inserted(c) /\ Acknowledged(c)
BY DEF Step, Upsert, FindByChannel, FindById, PostSession, Record, FindByKey, CountSiblings,
   Insert, Report, ReadSession, ReadTurns, ReadTools, ReadEvents, PatchEvaluation,
   RequestFails, tables

-----------------------------------------------------------------------------
(* Rows stay coherent.                                                     *)

\* A row to be posted is one read from the table, or a new session.
LEMMA PostIsPrepared ==
  ASSUME HostedTypeInv, NEW c \in Clients, Step(c), pc'[c] = "post_session"
  PROVE  /\ UNCHANGED <<tables, storeVars>>
         /\ Op(c) = "upsertSession" /\ got'[c] \in Finds
         /\ \/ got'[c].id \in DOMAIN rows /\ got'[c].row = rows[got'[c].id]
            \/ got'[c].row = NewSession(Input(c).occurredAt)
<1> USE DEF HostedTypeInv
<1>1. pc[c] # "done"
  BY StepFacts
<1>2. ~Return(c)
  BY <1>1, ReturnMoves DEF Starts
<1>3. \A request, answer : GoOn(c, request, answer) =>
        request = "post_session" /\ answer = got'[c]
  BY GoOnMoves
<1>4. ~FallBack(c)
  BY <1>1, <1>2, <1>3, FallBackFacts
<1>5. ~Acknowledged(c)
  BY <1>2, <1>4 DEF Acknowledged
<1>6. FindByChannel(c) \/ FindById(c)
  BY <1>2, <1>3, <1>4, <1>5 DEF Step, Upsert, PostSession, Record, FindByKey, CountSiblings,
     Insert, Report, ReadSession, ReadTurns, ReadTools, ReadEvents, PatchEvaluation,
     RequestFails, ScoreReport
<1>7. Op(c) = "upsertSession"
  BY <1>6 DEF FindByChannel, FindById, ClientsTypeOK, ClientTypeOK
<1>8. HostedTypeInv'
  BY UpsertKeepsType, <1>6 DEF Upsert
<1>9. got'[c] \in Finds
  BY <1>8, PostedRowFacts DEF ClientsTypeOK, ClientTypeOK
<1>10. CASE FindByChannel(c)
  <2>1. PICK id \in DOMAIN rows :
          GoOn(c, "post_session", [id |-> id, row |-> rows[id], stored |-> TRUE])
    BY <1>3, <1>10 DEF FindByChannel, RowsOfChannel
  <2>2. got'[c] = [id |-> id, row |-> rows[id], stored |-> TRUE]
    BY <2>1, GoOnMoves
  <2> QED
    BY <1>7, <1>9, <1>10, <2>2 DEF FindByChannel
<1>11. CASE FindById(c)
  <2> DEFINE id == Input(c).sessionId
  <2>1. got'[c] = IF id \in DOMAIN rows
                  THEN [id |-> id, row |-> rows[id], stored |-> TRUE]
                  ELSE [id |-> id, row |-> NewSession(Input(c).occurredAt), stored |-> FALSE]
    BY <1>11, GoOnMoves DEF FindById
  <2> QED
    BY <1>7, <1>9, <1>11, <2>1 DEF FindById
<1> QED
  BY <1>6, <1>10, <1>11

\* No request stores or prepares a row that is only partly ended.
LEMMA StepKeepsCoherent ==
  ASSUME HostedTypeInv, RowsCoherent, NEW c \in Clients, Step(c)
  PROVE  RowsCoherent'
<1>1. ASSUME NEW x \in Clients, pc'[x] = "post_session"
      PROVE  Coherent(got'[x].row)
  <2>1. CASE x = c
    <3>1. Input(c) \in UpsertInputs
      BY <1>1, <2>1, PostIsPrepared, StepFacts, CallFacts DEF HostedTypeInv
    <3>2. Coherent(NewSession(Input(c).occurredAt))
      BY <3>1, NewSessionType DEF UpsertInputs, Coherent
    <3> QED
      BY <1>1, <2>1, <3>2, PostIsPrepared DEF RowsCoherent
  <2>2. CASE x # c
    BY <1>1, <2>2, StepFacts DEF Moves, RowsCoherent
  <2> QED
    BY <2>1, <2>2
<1>2. ASSUME NEW id \in DOMAIN rows'
      PROVE  Coherent(rows'[id])
  <2>1. CASE rows' = rows
    BY <1>2, <2>1 DEF RowsCoherent
  <2>2. CASE PostSession(c)
    <3>1. got[c] \in Finds /\ PostedRow(c) \in SessionRecords /\ Coherent(PostedRow(c))
      BY <2>2, PostedRowFacts DEF PostSession, RowsCoherent
    <3>2. got[c].id \in SessionIds /\ got[c].stored \in BOOLEAN
      BY <3>1 DEF Finds
    <3> DEFINE merged == Merged(got[c].id, PostedRow(c), got[c].stored)
    <3>3. /\ DOMAIN merged = DOMAIN rows \cup {got[c].id}
          /\ \A x \in DOMAIN rows : x # got[c].id => merged[x] = rows[x]
          /\ Coherent(merged[got[c].id])
      BY <3>1, <3>2, MergedFacts DEF HostedTypeInv
    <3>4. rows' = rows \/ rows' = merged
      BY <2>2 DEF PostSession, PostedRow
    <3> HIDE DEF merged
    <3> QED
      BY <1>2, <3>3, <3>4 DEF RowsCoherent
  <2>3. CASE PatchEvaluation(c)
    <3>1. /\ DOMAIN rows' = DOMAIN rows
          /\ \/ rows'[id] = rows[id]
             \/ rows'[id] = [rows[id] EXCEPT !.evaluation = [evidence |-> got[c].keys]]
      BY <1>2, <2>3 DEF PatchEvaluation, HostedTypeInv, TablesTypeOK
    <3>2. rows[id] \in SessionRecords /\ Coherent(rows[id])
      BY <1>2, <3>1 DEF HostedTypeInv, TablesTypeOK, RowsCoherent
    <3> QED
      BY <3>1, <3>2 DEF Coherent, SessionRecords
  <2> QED
    BY <2>1, <2>2, <2>3, TableFacts
<1> QED
  BY <1>1, <1>2 DEF RowsCoherent

-----------------------------------------------------------------------------
(* Acknowledged rows are kept.                                             *)

KeptKeys ==
  KeysOf(turnRows \cup turns) \cup KeysOf(toolRows \cup toolCalls) \cup KeysOf(eventRows \cup events)

\* A recording call returns only once its key is in a table or in memory.
LEMMA RecordedIsKept ==
  ASSUME HostedTypeInv, NEW c \in Clients, Step(c), Op(c) \in Records, at'[c] = at[c] + 1
  PROVE  Input(c).idempotencyKey \in KeptKeys'
<1> USE DEF HostedTypeInv
<1>1. pc[c] # "done" /\ pc[c] \in {"by_key", "siblings", "insert"}
  BY StepFacts DEF ClientsTypeOK, ClientTypeOK, Records
<1>2. \A rs : HasKey(rs, Input(c).idempotencyKey) => Input(c).idempotencyKey \in KeysOf(rs)
  BY DEF HasKey, KeysOf
<1>3. CASE FindByKey(c)
  <2>1. HasKey(Table(c), Input(c).idempotencyKey)
    <3>1. \A request, answer : ~GoOn(c, request, answer)
      <4>1. at[c] \in Nat
        BY DEF ClientsTypeOK, ClientTypeOK
      <4> QED
        BY <4>1, GoOnMoves
    <3> QED
      BY <1>3, <3>1 DEF FindByKey
  <2>2. UNCHANGED <<turnRows, toolRows, eventRows>>
    BY <1>3 DEF FindByKey, tables
  <2> QED
    BY <1>2, <2>1, <2>2 DEF KeptKeys, Table, Records, KeysOf
<1>4. CASE Insert(c) /\ Inserted(c)
  <2>1. TurnRow(c).idempotencyKey = Input(c).idempotencyKey
    BY DEF TurnRow
  <2> QED
    BY <1>4, <2>1 DEF Inserted, KeptKeys, KeysOf
<1>5. CASE FallBack(c)
  BY <1>1, <1>5, FallBackFacts DEF KeptKeys, KeysOf
<1>6. ~CountSiblings(c)
  <2>1. at[c] \in Nat
    BY DEF ClientsTypeOK, ClientTypeOK
  <2> QED
    BY <2>1, GoOnMoves DEF CountSiblings
<1> QED
  BY <1>1, <1>3, <1>4, <1>5, <1>6 DEF Step, Upsert, FindByChannel, FindById, PostSession, Record,
     Insert, Report, ReadSession, ReadTurns, ReadTools, ReadEvents, PatchEvaluation, RequestFails

\* What was recorded stays recorded, and a call that returns is recorded.
LEMMA StepKeepsAcknowledged ==
  ASSUME HostedTypeInv, AcknowledgedRowsAreKept, NEW c \in Clients, Step(c)
  PROVE  AcknowledgedRowsAreKept'
<1>1. KeptKeys \subseteq KeptKeys'
  BY StepFacts DEF KeptKeys, KeysOf
<1>2. ASSUME NEW x \in Clients, NEW i \in 1 .. (at'[x] - 1),
             program'[x][i].op \in Records
      PROVE  program'[x][i].in.idempotencyKey \in KeptKeys'
  <2>1. /\ at[x] \in Nat /\ program' = program
        /\ at'[x] = at[x] \/ (x = c /\ at'[x] = at[x] + 1)
    BY StepFacts DEF Moves, HostedTypeInv, ClientsTypeOK, ClientTypeOK
  <2>2. CASE i \in 1 .. (at[x] - 1)
    BY <1>1, <1>2, <2>1, <2>2 DEF AcknowledgedRowsAreKept, RecordedBy, KeptKeys, Records
  <2>3. CASE i \notin 1 .. (at[x] - 1)
    <3>1. x = c /\ at'[c] = at[c] + 1 /\ i = at[c]
      BY <2>1, <2>3
    <3> QED
      BY <1>2, <2>1, <3>1, RecordedIsKept DEF Op, Input
  <2> QED
    BY <2>2, <2>3
<1> QED
  BY <1>2 DEF AcknowledgedRowsAreKept, RecordedBy, KeptKeys, Records

-----------------------------------------------------------------------------
(* Turn numbers.                                                           *)

Count(id)      == Cardinality(RowsOf(turnRows, id))
CountAfter(id) == Cardinality(RowsOf(turnRows', id))

\* A step leaves the turns alone, or adds one under a new key.
LEMMA TurnTableFacts ==
  ASSUME HostedTypeInv, NEW c \in Clients, Step(c)
  PROVE  /\ \/ turnRows' = turnRows
            \/ /\ pc[c] = "insert" /\ Op(c) = "recordTurn" /\ got[c] \in Nat
               /\ at'[c] = at[c] + 1
               /\ turnRows' = turnRows \cup {TurnRow(c)}
               /\ ~HasKey(turnRows, Input(c).idempotencyKey)
               /\ CountAfter(Input(c).sessionId) = Count(Input(c).sessionId) + 1
         /\ \A id : Count(id) \in Nat /\ CountAfter(id) \in Nat /\ Count(id) <= CountAfter(id)
<1> USE DEF HostedTypeInv
<1>1. \A id : Count(id) \in Nat
  BY RowCountFacts DEF Count, TablesTypeOK
<1>2. CASE turnRows' = turnRows
  <2>1. \A id : CountAfter(id) = Count(id)
    BY <1>2 DEF Count, CountAfter
  <2> QED
    BY <1>1, <1>2, <2>1
<1>3. CASE turnRows' # turnRows
  <2>1. Insert(c) /\ Insertable(c) /\ Inserted(c) /\ Acknowledged(c)
    BY <1>3, TableFacts
  <2>2. pc[c] = "insert" /\ Op(c) = "recordTurn" /\ turnRows' = turnRows \cup {TurnRow(c)}
    BY <1>3, <2>1 DEF Insert, Inserted
  <2>3. ~HasKey(turnRows, Input(c).idempotencyKey)
    BY <2>1, <2>2 DEF Insertable, Table
  <2>4. TurnRow(c) \notin turnRows /\ TurnRow(c).sessionId = Input(c).sessionId
    BY <2>3 DEF HasKey, TurnRow
  <2>5. IsFiniteSet(turnRows)
    BY DEF TablesTypeOK
  <2> DEFINE row == TurnRow(c)
  <2>6. \A id : Cardinality(RowsOf(turnRows \cup {row}, id)) =
                  Cardinality(RowsOf(turnRows, id)) + (IF row.sessionId = id THEN 1 ELSE 0)
    <3> HIDE DEF row
    <3> QED BY <2>4, <2>5, RowCountFacts DEF row
  <2>7. \A id : CountAfter(id) = Count(id) + (IF Input(c).sessionId = id THEN 1 ELSE 0)
    BY <2>2, <2>4, <2>6 DEF Count, CountAfter
  <2>8. got[c] \in Nat /\ at'[c] = at[c] + 1
    BY <2>1, <2>2, InsertFacts, AcknowledgedFacts, ReturnMoves
  <2> QED
    BY <1>1, <2>2, <2>3, <2>7, <2>8
<1> QED
  BY <1>2, <1>3

\* A turn about to be inserted was just counted for.
LEMMA InsertIsCounted ==
  ASSUME HostedTypeInv, NEW c \in Clients, Step(c), pc'[c] = "insert", Op(c)' = "recordTurn"
  PROVE  CountSiblings(c) /\ Op(c) = "recordTurn"
<1> USE DEF HostedTypeInv
<1>1. pc[c] # "done" /\ Moves(c)
  BY StepFacts
<1>2. ~Return(c)
  BY <1>1, ReturnMoves DEF Starts
<1>3. \A request, answer : GoOn(c, request, answer) => request = "insert" /\ Op(c) = "recordTurn"
  <2>1. pc'[c] \notin Starts
    BY DEF Starts
  <2> QED
    BY <1>1, <2>1, GoOnMoves DEF Moves
<1>4. ~FallBack(c)
  BY <1>1, <1>2, <1>3, FallBackFacts
<1>5. ~Acknowledged(c)
  BY <1>2, <1>4 DEF Acknowledged
<1>6. Op(c) = "recordTurn"
  BY <1>1 DEF Moves, Starts
<1>7. pc[c] \in {"by_key", "siblings", "insert"}
  BY <1>1, <1>6 DEF ClientsTypeOK, ClientTypeOK
<1>8. ~FindByKey(c)
  BY <1>2, <1>3 DEF FindByKey
<1>9. CountSiblings(c)
  BY <1>4, <1>5, <1>7, <1>8 DEF Step, Upsert, FindByChannel, FindById, PostSession, Record, Insert,
     Report, ReadSession, ReadTurns, ReadTools, ReadEvents, PatchEvaluation, RequestFails
<1> QED
  BY <1>3, <1>9 DEF CountSiblings

\* No request numbers a turn beyond the turns the session has.
LEMMA StepKeepsNumbers ==
  ASSUME HostedTypeInv, TurnsAreNumbered, NEW c \in Clients, Step(c)
  PROVE  TurnsAreNumbered'
<1> USE DEF HostedTypeInv
<1>1. ASSUME NEW t \in turnRows' PROVE t.index < CountAfter(t.sessionId)
  <2>1. CASE t \in turnRows
    <3>1. t.index < Count(t.sessionId) /\ t.index \in Nat
      BY <2>1 DEF TurnsAreNumbered, Count, TablesTypeOK, TurnRecords
    <3> QED
      BY <3>1, TurnTableFacts
  <2>2. CASE t \notin turnRows
    <3>1. /\ t = TurnRow(c)
          /\ pc[c] = "insert" /\ Op(c) = "recordTurn" /\ got[c] \in Nat
          /\ CountAfter(Input(c).sessionId) = Count(Input(c).sessionId) + 1
      BY <2>2, TurnTableFacts
    <3>2. got[c] <= Count(Input(c).sessionId) /\ t.index = got[c] /\ t.sessionId = Input(c).sessionId
      BY <3>1 DEF TurnsAreNumbered, Count, TurnRow
    <3> QED
      BY <3>1, <3>2, TurnTableFacts
  <2> QED BY <2>1, <2>2
<1>2. ASSUME NEW x \in Clients, pc'[x] = "insert", Op(x)' = "recordTurn"
      PROVE  got'[x] <= CountAfter(Input(x)'.sessionId)
  <2>1. CASE x = c
    <3>1. CountSiblings(c)
      BY <1>2, <2>1, InsertIsCounted
    <3>2. GoOn(c, "insert", Count(Input(c).sessionId)) /\ turnRows' = turnRows
      BY <3>1 DEF CountSiblings, Count, tables
    <3>3. got'[c] = Count(Input(c).sessionId) /\ program' = program /\ at' = at
      BY <3>2, GoOnMoves DEF GoOn
    <3>4. Input(c)' = Input(c)
      BY <3>3 DEF Input
    <3>5. CountAfter(Input(c)'.sessionId) = Count(Input(c).sessionId)
      BY <3>2, <3>4 DEF Count, CountAfter
    <3> QED
      BY <2>1, <3>3, <3>5, TurnTableFacts
  <2>2. CASE x # c
    <3>1. /\ pc[x] = "insert" /\ Op(x) = "recordTurn" /\ got'[x] = got[x] /\ Input(x)' = Input(x)
      BY <1>2, <2>2, StepFacts DEF Moves
    <3>2. got[x] <= Count(Input(x).sessionId) /\ got[x] \in Nat
      BY <3>1, InsertFacts DEF TurnsAreNumbered, Count
    <3> QED
      BY <3>1, <3>2, TurnTableFacts
  <2> QED BY <2>1, <2>2
<1> QED
  BY <1>1, <1>2 DEF TurnsAreNumbered, CountAfter

-----------------------------------------------------------------------------
(* The invariant of single requests.                                       *)

\* Nothing is stored, read or acknowledged at the start.
LEMMA InitHosted == Init => HostedInv
<1> SUFFICES ASSUME Init PROVE HostedInv
  OBVIOUS
<1>1. \A c \in Clients : pc[c] \in Starts
  <2> SUFFICES ASSUME NEW c \in Clients PROVE pc[c] \in Starts
    OBVIOUS
  <2>1. program[c] \in Seq(PortCalls) /\ program[c] # <<>> /\ pc[c] = FirstRequest(program[c][1])
    BY ProgramsAssumption DEF Init
  <2>2. program[c][1] \in PortCalls
    BY <2>1
  <2> QED
    BY <2>1, <2>2, FirstRequestFacts DEF Starts
<1>2. RowsCoherent /\ TurnsAreNumbered
  BY <1>1 DEF Init, RowsCoherent, TurnsAreNumbered, Starts, EmptyMap
<1>3. AcknowledgedRowsAreKept
  BY DEF Init, AcknowledgedRowsAreKept, RecordedBy
<1> QED
  BY <1>2, <1>3, InitTypes DEF HostedInv

\* Every request keeps the invariant.
LEMMA NextHosted == HostedInv /\ [Next]_vars => HostedInv'
<1> SUFFICES ASSUME HostedInv, [Next]_vars PROVE HostedInv'
  OBVIOUS
<1>1. HostedTypeInv'
  BY NextTypes DEF HostedInv
<1>2. ASSUME NEW c \in Clients, Step(c) PROVE HostedInv'
  BY <1>1, <1>2, StepKeepsCoherent, StepKeepsAcknowledged, StepKeepsNumbers DEF HostedInv
<1>3. CASE UNCHANGED vars
  <2>1. UNCHANGED <<rows, turnRows, toolRows, eventRows, turns, toolCalls, events,
                    program, at, pc, got>>
    BY <1>3 DEF vars, tables, storeVars, clientVars
  <2>2. RowsCoherent'
    BY <2>1 DEF HostedInv, RowsCoherent
  <2>3. TurnsAreNumbered'
    BY <2>1 DEF HostedInv, TurnsAreNumbered, Op, Input, RowsOf
  <2>4. AcknowledgedRowsAreKept'
    <3>1. KeptKeys' = KeptKeys
      BY <2>1 DEF KeptKeys
    <3>2. ASSUME NEW c \in Clients PROVE RecordedBy(c)' = RecordedBy(c)
      BY <2>1 DEF RecordedBy
    <3> QED
      BY <3>1, <3>2 DEF HostedInv, AcknowledgedRowsAreKept, KeptKeys
  <2> QED
    BY <1>1, <2>2, <2>3, <2>4 DEF HostedInv
<1> QED
  BY <1>2, <1>3 DEF Next, Step

\* The hosted store keeps its invariant, whichever requests interleave or fail.
THEOREM HostedInvariance == Spec => []HostedInv
BY InitHosted, NextHosted, PTL DEF Spec

\* A stored session is wholly ended or not at all (upsertSession).
THEOREM HostedCallsEndAsOne == Spec => []HostedLifecycleConsistent
<1>1. HostedInv => HostedLifecycleConsistent
  BY DEF HostedInv, RowsCoherent, Coherent, HostedLifecycleConsistent
<1> QED
  BY <1>1, HostedInvariance, PTL

\* A row the port acknowledged is in one of the two stores (withFallback).
THEOREM AcknowledgedIsKept == Spec => []AcknowledgedRowsAreKept
<1>1. HostedInv => AcknowledgedRowsAreKept
  BY DEF HostedInv
<1> QED
  BY <1>1, HostedInvariance, PTL

-----------------------------------------------------------------------------
(* The transcript, as long as no write went to the fallback.               *)

\* Being an answer is a matter of the columns a row shares with its call.
LEMMA AnswerOfColumns ==
  ASSUME NEW a, NEW b, NEW u, NEW v,
         a.sessionId = b.sessionId, a.role = b.role, a.idempotencyKey = b.idempotencyKey,
         u.sessionId = v.sessionId, u.role = v.role, u.idempotencyKey = v.idempotencyKey
  PROVE  AnswerOf(a, u) <=> AnswerOf(b, v)
BY DEF AnswerOf

\* A client recording an answer has recorded its question.
LEMMA QuestionIsRecorded ==
  ASSUME ClientsTypeOK, TurnsAreRecorded, NEW c \in Clients, pc[c] # "done", Op(c) = "recordTurn"
  PROVE  /\ Input(c) \in TurnInputs /\ Input(c) \in TurnCalls
         /\ \A q \in TurnCalls : AnswerOf(Input(c), q) => HasKey(turnRows, q.idempotencyKey)
<1>1. /\ program[c] \in Programs
      /\ at[c] \in 1 .. Len(program[c])
      /\ program[c][at[c]] \in PortCalls
      /\ Input(c) \in TurnInputs
  BY CallFacts DEF ClientsTypeOK
<1>2. program[c][at[c]] = [op |-> "recordTurn", in |-> Input(c)]
  BY <1>1 DEF PortCalls, Op, Input
<1>3. Input(c) \in TurnCalls
  BY <1>1, <1>2 DEF TurnCalls
<1>4. ASSUME NEW q \in TurnCalls, AnswerOf(Input(c), q)
      PROVE  HasKey(turnRows, q.idempotencyKey)
  <2>1. PICK j \in 1 .. (at[c] - 1) : program[c][j] = [op |-> "recordTurn", in |-> q]
    <3>1. program[c][at[c]].op = "recordTurn" /\ program[c][at[c]].in = Input(c)
      BY DEF Op, Input
    <3> QED
      BY <1>1, <1>4, <3>1, QuestionFirstAssumption
  <2> QED
    BY <2>1 DEF TurnsAreRecorded
<1> QED
  BY <1>1, <1>3, <1>4

\* The columns of the row a call of recordTurn inserts.
LEMMA TurnRowColumns ==
  ASSUME NEW c
  PROVE  /\ TurnRow(c).sessionId = Input(c).sessionId
         /\ TurnRow(c).role = Input(c).role
         /\ TurnRow(c).idempotencyKey = Input(c).idempotencyKey
         /\ TurnRow(c).index = got[c]
BY DEF TurnRow

\* As long as there is one history, a turn that was recorded is in the table.
LEMMA TurnIsRecorded ==
  ASSUME HostedTypeInv, NEW c \in Clients, Step(c), OneHistory',
         Op(c) = "recordTurn", at'[c] = at[c] + 1
  PROVE  HasKey(turnRows', Input(c).idempotencyKey)
<1> USE DEF HostedTypeInv
<1>1. pc[c] # "done" /\ pc[c] \in {"by_key", "siblings", "insert"} /\ at[c] \in Nat
  <2> HIDE DEF HostedTypeInv
  <2>1. pc[c] # "done"
    BY StepFacts
  <2>2. ClientTypeOK(c)
    BY DEF HostedTypeInv, ClientsTypeOK
  <2>3. pc[c] \in {"by_key", "siblings", "insert"}
    BY <2>1, <2>2 DEF ClientTypeOK
  <2>4. at[c] \in Nat
    BY <2>2 DEF ClientTypeOK
  <2> QED
    BY <2>1, <2>3, <2>4
<1>2. ~FallBack(c)
  BY <1>1, FallBackFacts
<1>3. ~CountSiblings(c)
  BY <1>1, GoOnMoves DEF CountSiblings
<1>4. CASE FindByKey(c)
  <2>1. \A request, answer : ~GoOn(c, request, answer)
    BY <1>1, GoOnMoves
  <2> QED
    BY <1>4, <2>1 DEF FindByKey, Table, tables
<1>5. CASE Insert(c)
  <2>1. turnRows' = turnRows \cup {TurnRow(c)}
    BY <1>2, <1>5 DEF Insert, Inserted
  <2> QED
    BY <2>1, TurnRowColumns DEF HasKey
<1> QED
  BY <1>1, <1>2, <1>3, <1>4, <1>5 DEF Step, Upsert, FindByChannel, FindById, PostSession, Record,
     Report, ReadSession, ReadTurns, ReadTools, ReadEvents, PatchEvaluation, RequestFails

\* An answer is only numbered, and only stored, after its question.
LEMMA StepKeepsTranscript ==
  ASSUME HostedInv, TranscriptInv, NEW c \in Clients, Step(c)
  PROVE  TranscriptInv'
<1> SUFFICES ASSUME OneHistory'
             PROVE  /\ TurnsAreRecorded' /\ AnswersHaveQuestions' /\ AnswersCountTheirQuestion'
                    /\ \A u, a \in turnRows' : AnswerOf(a, u) => u.index < a.index
  BY DEF TranscriptInv
<1> USE DEF HostedInv, HostedTypeInv
<1>1. /\ TurnsAreRecorded /\ AnswersHaveQuestions /\ AnswersCountTheirQuestion
      /\ \A u, a \in turnRows : AnswerOf(a, u) => u.index < a.index
  BY StepFacts DEF TranscriptInv
<1>2. \A k : HasKey(turnRows, k) => HasKey(turnRows', k)
  BY StepFacts DEF HasKey
<1>3. pc[c] # "done" /\ Moves(c)
  BY StepFacts
<1> DEFINE New(t) == /\ t = TurnRow(c)
                     /\ pc[c] = "insert" /\ Op(c) = "recordTurn"
                     /\ Input(c) \in TurnInputs /\ Input(c) \in TurnCalls
                     /\ ~HasKey(turnRows, Input(c).idempotencyKey)
                     /\ t.sessionId = Input(c).sessionId
                     /\ t.role = Input(c).role
                     /\ t.idempotencyKey = Input(c).idempotencyKey
                     /\ t.index = got[c]
<1>4. \A t \in turnRows' : t \in turnRows \/ New(t)
  BY <1>1, <1>3, TurnTableFacts, TurnRowColumns, QuestionIsRecorded
<1>5. TurnsAreRecorded'
  <2> SUFFICES ASSUME NEW x \in Clients, NEW i \in 1 .. (at'[x] - 1),
                      program[x][i].op = "recordTurn"
               PROVE  HasKey(turnRows', program[x][i].in.idempotencyKey)
    BY <1>3 DEF TurnsAreRecorded, Moves
  <2>1. /\ at[x] \in Nat
        /\ at'[x] = at[x] \/ (x = c /\ at'[x] = at[x] + 1)
    BY <1>3 DEF Moves, ClientsTypeOK, ClientTypeOK
  <2>2. CASE i \in 1 .. (at[x] - 1)
    BY <1>1, <1>2, <2>2 DEF TurnsAreRecorded
  <2>3. CASE i \notin 1 .. (at[x] - 1)
    <3>1. x = c /\ at'[c] = at[c] + 1 /\ i = at[c]
      BY <2>1, <2>3
    <3> QED
      BY <3>1, TurnIsRecorded DEF Op, Input
  <2> QED
    BY <2>2, <2>3
<1>6. AnswersHaveQuestions'
  <2> SUFFICES ASSUME NEW t \in turnRows'
               PROVE  /\ [sessionId |-> t.sessionId, role |-> t.role,
                          idempotencyKey |-> t.idempotencyKey] \in TurnCalls
                      /\ \A q \in TurnCalls : AnswerOf(t, q) => HasKey(turnRows', q.idempotencyKey)
    BY DEF AnswersHaveQuestions
  <2>1. CASE t \in turnRows
    BY <1>1, <1>2, <2>1 DEF AnswersHaveQuestions
  <2>2. CASE New(t)
    <3>1. [sessionId |-> t.sessionId, role |-> t.role, idempotencyKey |-> t.idempotencyKey] = Input(c)
      BY <2>2 DEF TurnInputs
    <3>2. \A q : AnswerOf(t, q) <=> AnswerOf(Input(c), q)
      BY <2>2, AnswerOfColumns
    <3> QED
      BY <1>1, <1>2, <1>3, <2>2, <3>1, <3>2, QuestionIsRecorded
  <2> QED
    BY <1>4, <2>1, <2>2
<1>7. AnswersCountTheirQuestion'
  <2> SUFFICES ASSUME NEW x \in Clients, pc'[x] = "insert", Op(x)' = "recordTurn",
                      NEW u \in turnRows', AnswerOf(Input(x)', u)
               PROVE  u.index < got'[x]
    BY DEF AnswersCountTheirQuestion
  <2>1. CASE x = c
    <3>1. CountSiblings(c)
      BY <2>1, InsertIsCounted
    <3>2. /\ turnRows' = turnRows /\ GoOn(c, "insert", Count(Input(c).sessionId))
      BY <3>1 DEF CountSiblings, Count, tables
    <3>3. got'[c] = Count(Input(c).sessionId) /\ Input(c)' = Input(c)
      BY <3>2, GoOnMoves DEF GoOn, Input
    <3>4. u.sessionId = Input(c).sessionId
      BY <2>1, <3>3 DEF AnswerOf
    <3> QED
      BY <2>1, <3>2, <3>3, <3>4 DEF TurnsAreNumbered, Count
  <2>2. CASE x # c
    <3>1. /\ pc[x] = "insert" /\ Op(x) = "recordTurn" /\ got'[x] = got[x]
          /\ AnswerOf(Input(x), u)
      BY <1>3, <2>2 DEF Moves
    <3>2. CASE u \in turnRows
      BY <1>1, <3>1, <3>2 DEF AnswersCountTheirQuestion
    <3>3. CASE New(u)
      <4>1. AnswerOf(Input(x), Input(c))
        BY <3>1, <3>3, AnswerOfColumns
      <4>2. HasKey(turnRows, Input(c).idempotencyKey)
        BY <1>1, <3>1, <3>3, <4>1, QuestionIsRecorded
      <4> QED
        BY <3>3, <4>2
    <3> QED
      BY <1>4, <3>2, <3>3
  <2> QED
    BY <2>1, <2>2
<1>8. ASSUME NEW u \in turnRows', NEW a \in turnRows', AnswerOf(a, u)
      PROVE  u.index < a.index
  <2>1. CASE u \in turnRows /\ a \in turnRows
    BY <1>1, <1>8, <2>1
  <2>2. CASE u \in turnRows /\ New(a)
    <3>1. AnswerOf(Input(c), u)
      BY <1>8, <2>2, AnswerOfColumns
    <3> QED
      BY <1>1, <2>2, <3>1 DEF AnswersCountTheirQuestion
  <2>3. CASE New(u) /\ a \in turnRows
    <3>1. AnswerOf(a, Input(c))
      BY <1>8, <2>3, AnswerOfColumns
    <3> QED
      BY <1>1, <2>3, <3>1 DEF AnswersHaveQuestions
  <2>4. CASE New(u) /\ New(a)
    BY <1>8, <2>4 DEF AnswerOf
  <2> QED
    BY <1>4, <2>1, <2>2, <2>3, <2>4
<1> QED
  BY <1>5, <1>6, <1>7, <1>8

\* The transcript's invariant holds from the start.
THEOREM HostedTranscriptInvariance == Spec => []TranscriptInv
<1>1. Init => TranscriptInv
  <2> SUFFICES ASSUME Init PROVE TranscriptInv
    OBVIOUS
  <2>1. \A c \in Clients : at[c] = 1 /\ pc[c] # "insert"
    BY DEF Init, FirstRequest
  <2> QED
    BY <2>1 DEF Init, TranscriptInv, TurnsAreRecorded, AnswersHaveQuestions, AnswersCountTheirQuestion
<1>2. HostedInv /\ TranscriptInv /\ [Next]_vars => TranscriptInv'
  <2> SUFFICES ASSUME HostedInv, TranscriptInv, [Next]_vars PROVE TranscriptInv'
    OBVIOUS
  <2>1. CASE UNCHANGED vars
    BY <2>1 DEF vars, tables, storeVars, clientVars, TranscriptInv, OneHistory, TurnsAreRecorded,
       AnswersHaveQuestions, AnswersCountTheirQuestion, Op, Input, HasKey
  <2> QED
    BY <2>1, StepKeepsTranscript DEF Next, Step
<1> QED
  BY <1>1, <1>2, HostedInvariance, PTL DEF Spec

\* As long as no write went to the fallback, the stored transcript has every
\* question before its answer (recordTurn, which counts, then inserts).
THEOREM HostedQuestionsComeFirst == Spec => []QuestionsPrecedeAnswers
<1>1. TranscriptInv => QuestionsPrecedeAnswers
  BY DEF TranscriptInv, QuestionsPrecedeAnswers
<1> QED
  BY <1>1, HostedTranscriptInvariance, PTL

-----------------------------------------------------------------------------
(* Scores, as long as no write went to the fallback.                       *)

SessionKeysAfter(id) ==
  KeysOf(RowsOf(turnRows', id)) \cup KeysOf(RowsOf(toolRows', id)) \cup KeysOf(RowsOf(eventRows', id))

\* No request takes a row's key out of its session.
LEMMA SessionKeysGrow ==
  ASSUME HostedTypeInv, NEW c \in Clients, Step(c), NEW id
  PROVE  SessionKeys(id) \subseteq SessionKeysAfter(id)
BY StepFacts DEF SessionKeys, SessionKeysAfter, KeysOf, RowsOf

\* A row written back carries a score made of rows that are still stored.
LEMMA PostedScoreIsFounded ==
  ASSUME HostedInv, ScoresInv, NEW c \in Clients, Step(c), OneHistory',
         NEW id \in DOMAIN rows'
  PROVE  Founded(rows'[id].evaluation, SessionKeysAfter(id))
<1> USE DEF HostedInv, HostedTypeInv
<1>1. /\ \A x \in DOMAIN rows : Founded(rows[x].evaluation, SessionKeys(x))
      /\ pc[c] = "post_session" => Founded(got[c].row.evaluation, SessionKeys(got[c].id))
      /\ pc[c] \in {"turns", "tools", "events", "patch"} =>
           got[c].keys \subseteq SessionKeys(Input(c).sessionId)
  BY StepFacts DEF ScoresInv
<1>2. \A x : SessionKeys(x) \subseteq SessionKeysAfter(x)
  BY SessionKeysGrow
<1>3. CASE rows' = rows
  BY <1>1, <1>2, <1>3 DEF Founded
<1>4. CASE PostSession(c)
  <2>1. /\ got[c].id \in SessionIds /\ got[c].stored \in BOOLEAN
        /\ PostedRow(c) \in SessionRecords
        /\ PostedRow(c).evaluation = got[c].row.evaluation
    BY <1>4, PostedRowFacts DEF PostSession, Finds
  <2> DEFINE merged == Merged(got[c].id, PostedRow(c), got[c].stored)
  <2>2. /\ DOMAIN merged = DOMAIN rows \cup {got[c].id}
        /\ \A x \in DOMAIN rows : x # got[c].id => merged[x] = rows[x]
        /\ \/ merged[got[c].id].evaluation = got[c].row.evaluation
           \/ /\ got[c].id \in DOMAIN rows
              /\ merged[got[c].id].evaluation = rows[got[c].id].evaluation
    BY <2>1, MergedFacts
  <2>3. pc[c] = "post_session" /\ (rows' = rows \/ rows' = merged)
    BY <1>4 DEF PostSession, PostedRow
  <2> HIDE DEF merged
  <2> QED
    BY <1>1, <1>2, <1>3, <2>2, <2>3 DEF Founded
<1>5. CASE PatchEvaluation(c)
  <2> DEFINE score == [evidence |-> got[c].keys]
  <2>1. /\ pc[c] = "patch"
        /\ rows' = rows \/ rows' = [rows EXCEPT ![Input(c).sessionId].evaluation = score]
    BY <1>5 DEF PatchEvaluation
  <2>2. score.evidence = got[c].keys
    OBVIOUS
  <2> HIDE DEF score
  <2>3. \A x \in DOMAIN rows : rows[x] \in SessionRecords
    BY DEF TablesTypeOK
  <2>4. \/ id \in DOMAIN rows /\ rows'[id].evaluation = rows[id].evaluation
        \/ id = Input(c).sessionId /\ rows'[id].evaluation = score
    BY <2>1, <2>3 DEF SessionRecords, TablesTypeOK
  <2> QED
    BY <1>1, <1>2, <2>1, <2>2, <2>4 DEF Founded
<1> QED
  BY <1>3, <1>4, <1>5, TableFacts

\* The keys a report has and those it has still to read, after each of its reads.
LEMMA ReportStage ==
  ASSUME HostedInv, ScoresInv, NEW c \in Clients, Step(c), OneHistory',
         pc'[c] \in {"turns", "tools", "events", "patch"}
  PROVE  /\ got'[c].keys \subseteq SessionKeys(Input(c).sessionId)
         /\ Founded(got'[c].evaluation, got'[c].keys \cup Unread(c)')
         /\ Input(c)' = Input(c)
         /\ UNCHANGED <<turnRows, toolRows, eventRows>>
<1> USE DEF HostedInv, HostedTypeInv
<1> DEFINE id == Input(c).sessionId
           T == KeysOf(RowsOf(turnRows, id))
           C == KeysOf(RowsOf(toolRows, id))
           E == KeysOf(RowsOf(eventRows, id))
<1>1. /\ \A x \in DOMAIN rows : Founded(rows[x].evaluation, SessionKeys(x))
      /\ pc[c] \in {"turns", "tools", "events", "patch"} =>
           /\ got[c].keys \subseteq SessionKeys(id)
           /\ Founded(got[c].evaluation, got[c].keys \cup Unread(c))
  BY StepFacts DEF ScoresInv
<1>2. pc[c] # "done" /\ Moves(c)
  BY StepFacts
<1>3. ~Return(c)
  BY <1>2, ReturnMoves DEF Starts
<1>4. Op(c) = "ensureSessionEvaluation" /\ Input(c)' = Input(c)
  <2>1. Input(c)' = Input(c) /\ Op(c)' = Op(c)
    BY <1>2 DEF Moves, Starts
  <2>2. ClientTypeOK(c)'
    BY NextHosted DEF Next, Step, ClientsTypeOK
  <2> QED
    BY <2>1, <2>2 DEF ClientTypeOK
<1>5. ~FallBack(c)
  BY <1>2, <1>3, FallBackFacts
<1>6. ~Acknowledged(c)
  BY <1>3, <1>5 DEF Acknowledged
<1>7. ReadSession(c) \/ ReadTurns(c) \/ ReadTools(c) \/ ReadEvents(c)
  <2>1. pc[c] \in {"session", "turns", "tools", "events", "patch"}
    BY <1>2, <1>4 DEF ClientsTypeOK, ClientTypeOK, Records
  <2> QED
    BY <1>5, <1>6, <2>1 DEF Step, Upsert, FindByChannel, FindById, PostSession, Record, FindByKey,
       CountSiblings, Insert, Report, PatchEvaluation, RequestFails
<1>8. UNCHANGED <<turnRows, toolRows, eventRows>>
  BY <1>7 DEF ReadSession, ReadTurns, ReadTools, ReadEvents, tables
<1>9. /\ SessionKeys(id) = (T \cup C) \cup E
      /\ Unread(c) = ((IF pc[c] = "turns" THEN T ELSE {})
                        \cup (IF pc[c] \in {"turns", "tools"} THEN C ELSE {}))
                        \cup (IF pc[c] \in {"turns", "tools", "events"} THEN E ELSE {})
      /\ Unread(c)' = ((IF pc'[c] = "turns" THEN T ELSE {})
                        \cup (IF pc'[c] \in {"turns", "tools"} THEN C ELSE {}))
                        \cup (IF pc'[c] \in {"turns", "tools", "events"} THEN E ELSE {})
  BY <1>4, <1>8 DEF SessionKeys, Unread
<1>10. ASSUME NEW rs, pc[c] \in {"turns", "tools", "events"}
       PROVE  /\ WithRows(c, rs).keys = got[c].keys \cup KeysOf(RowsOf(rs, id))
              /\ WithRows(c, rs).evaluation = got[c].evaluation
  <2>1. got[c] \in Reports
    BY <1>10 DEF ClientsTypeOK, ClientTypeOK, Records
  <2> QED
    BY <2>1 DEF WithRows, Reports
<1> HIDE DEF T, C, E, id
<1>11. CASE ReadSession(c)
  <2> DEFINE report == [terminal |-> rows[id].endedAt # NoValue,
                        evaluation |-> rows[id].evaluation, keys |-> {}]
  <2>1. id \in DOMAIN rows /\ GoOn(c, "turns", report)
    BY <1>3, <1>11 DEF ReadSession, id
  <2>2. pc'[c] = "turns" /\ got'[c] = report
    BY <2>1, GoOnMoves
  <2>3. got'[c].keys = {} /\ got'[c].evaluation = rows[id].evaluation
    BY <2>2
  <2> QED
    BY <1>1, <1>4, <1>8, <1>9, <2>1, <2>2, <2>3 DEF Founded, id
<1>12. CASE ReadTurns(c)
  <2>1. pc[c] = "turns" /\ pc'[c] = "tools" /\ got'[c] = WithRows(c, turnRows)
    BY <1>12, GoOnMoves DEF ReadTurns
  <2>2. got'[c].keys = got[c].keys \cup T /\ got'[c].evaluation = got[c].evaluation
    BY <1>10, <2>1 DEF T, id
  <2> QED
    BY <1>1, <1>4, <1>8, <1>9, <2>1, <2>2 DEF Founded, id
<1>13. CASE ReadTools(c)
  <2>1. pc[c] = "tools" /\ pc'[c] = "events" /\ got'[c] = WithRows(c, toolRows)
    BY <1>13, GoOnMoves DEF ReadTools
  <2>2. got'[c].keys = got[c].keys \cup C /\ got'[c].evaluation = got[c].evaluation
    BY <1>10, <2>1 DEF C, id
  <2> QED
    BY <1>1, <1>4, <1>8, <1>9, <2>1, <2>2 DEF Founded, id
<1>14. CASE ReadEvents(c)
  <2>1. pc[c] = "events" /\ pc'[c] = "patch" /\ got'[c] = WithRows(c, eventRows)
    BY <1>3, <1>14, GoOnMoves DEF ReadEvents, ScoreReport
  <2>2. got'[c].keys = got[c].keys \cup E /\ got'[c].evaluation = got[c].evaluation
    BY <1>10, <2>1 DEF E, id
  <2> QED
    BY <1>1, <1>4, <1>8, <1>9, <2>1, <2>2 DEF Founded, id
<1> QED
  BY <1>7, <1>11, <1>12, <1>13, <1>14

\* A score's evidence stays among the rows a report has or has still to read.
LEMMA StepKeepsScores ==
  ASSUME HostedInv, ScoresInv, NEW c \in Clients, Step(c)
  PROVE  ScoresInv'
<1> SUFFICES ASSUME OneHistory', NEW x \in Clients
             PROVE  /\ pc'[x] = "post_session" =>
                         Founded(got'[x].row.evaluation, SessionKeysAfter(got'[x].id))
                    /\ pc'[x] \in {"turns", "tools", "events", "patch"} =>
                         /\ got'[x].keys \subseteq SessionKeysAfter(Input(x)'.sessionId)
                         /\ Founded(got'[x].evaluation, got'[x].keys \cup Unread(x)')
  BY PostedScoreIsFounded DEF ScoresInv, SessionKeys, SessionKeysAfter
<1> USE DEF HostedInv, HostedTypeInv
<1>1. OneHistory /\ Moves(c)
  BY StepFacts
<1>2. \A id : SessionKeys(id) \subseteq SessionKeysAfter(id)
  BY SessionKeysGrow
<1>3. CASE x = c
  <2>1. ASSUME pc'[c] = "post_session"
        PROVE  Founded(got'[c].row.evaluation, SessionKeysAfter(got'[c].id))
    <3>1. CASE got'[c].id \in DOMAIN rows /\ got'[c].row = rows[got'[c].id]
      BY <1>1, <1>2, <3>1 DEF ScoresInv, Founded
    <3>2. CASE got'[c].row = NewSession(Input(c).occurredAt)
      BY <3>2 DEF NewSession, Founded
    <3> QED
      BY <2>1, <3>1, <3>2, PostIsPrepared
  <2>2. ASSUME pc'[c] \in {"turns", "tools", "events", "patch"}
        PROVE  /\ got'[c].keys \subseteq SessionKeysAfter(Input(c)'.sessionId)
               /\ Founded(got'[c].evaluation, got'[c].keys \cup Unread(c)')
    BY <2>2, ReportStage DEF SessionKeys, SessionKeysAfter
  <2> QED
    BY <1>3, <2>1, <2>2
<1>4. CASE x # c
  <2>1. /\ pc'[x] = pc[x] /\ got'[x] = got[x] /\ Input(x)' = Input(x)
    BY <1>1, <1>4 DEF Moves
  <2>2. Unread(x) \subseteq Unread(x)'
    BY <2>1, StepFacts DEF Unread, KeysOf, RowsOf
  <2> QED
    BY <1>1, <1>2, <2>1, <2>2 DEF ScoresInv, Founded
<1> QED
  BY <1>3, <1>4

\* The scores' invariant holds throughout.
THEOREM HostedScoresInvariance == Spec => []ScoresInv
<1>1. Init => ScoresInv
  <2> SUFFICES ASSUME Init PROVE ScoresInv
    OBVIOUS
  <2>1. \A c \in Clients : pc[c] \notin {"post_session", "turns", "tools", "events", "patch"}
    BY DEF Init, FirstRequest
  <2> QED
    BY <2>1 DEF Init, ScoresInv, EmptyMap
<1>2. HostedInv /\ ScoresInv /\ [Next]_vars => ScoresInv'
  <2> SUFFICES ASSUME HostedInv, ScoresInv, [Next]_vars PROVE ScoresInv'
    OBVIOUS
  <2>1. CASE UNCHANGED vars
    <3>1. UNCHANGED <<rows, turnRows, toolRows, eventRows, program, at, pc, got, OneHistory>>
      BY <2>1 DEF vars, tables, storeVars, clientVars, OneHistory
    <3>2. \A id : SessionKeys(id)' = SessionKeys(id)
      BY <3>1 DEF SessionKeys
    <3>3. \A c : Input(c)' = Input(c) /\ Unread(c)' = Unread(c)
      BY <3>1 DEF Input, Unread
    <3> QED
      BY <3>1, <3>2, <3>3 DEF ScoresInv
  <2> QED
    BY <2>1, StepKeepsScores DEF Next, Step
<1> QED
  BY <1>1, <1>2, HostedInvariance, PTL DEF Spec

\* As long as no write went to the fallback, a report has every row that the
\* score in it was made from (getSessionReport, read in four requests); a score
\* stored after it was read is another matter.
THEOREM ReportsCoverTheirScores == Spec => []ReportCoversItsScore
<1>1. ScoresInv => ReportCoversItsScore
  BY DEF ScoresInv, ReportCoversItsScore, Founded, Unread
<1> QED
  BY <1>1, HostedScoresInvariance, PTL
=============================================================================
