------------------------- MODULE SupabasePersistence -------------------------
(***************************************************************************)
(* The hosted session history                                              *)
(* (src/src/adapters/persistence/supabase-persistence.ts).  A call of the  *)
(* port is a series of REST requests to the hosted tables; between two of  *)
(* them any other call may run.  withFallback answers a call whose request *)
(* fails from a MemoryPersistence of its own, whose variables are those of *)
(* the module extended here.                                               *)
(*                                                                         *)
(* A client makes the port calls of one closure of a handler, one after    *)
(* the other; several clients run at once.  The tables are modelled by the *)
(* constraints of supabase/migrations/20260906120000_session_history.sql:  *)
(* child rows reference a stored session, idempotency keys are unique, and *)
(* so are the external channel ids of sessions.  ensureSessionEvaluation   *)
(* is a call of its own: it reads a report and saves the score of it.      *)
(***************************************************************************)
EXTENDS MemoryPersistence, Sequences

CONSTANTS
  Clients,
  Programs,  \* the series of port calls a client may make
  Faults     \* see FaultsAssumption

\* "request_fails": a request may have no effect and fail.  "reply_lost": a
\* write may take effect and its response be lost.
ASSUME FaultsAssumption == Faults \subseteq {"request_fails", "reply_lost"}

Ensures  == [sessionId : SessionIds, force : BOOLEAN]

PortCalls ==
  [op : {"upsertSession"}, in : UpsertInputs]
    \cup [op : {"recordTurn"}, in : TurnInputs]
    \cup [op : {"recordToolCall"}, in : ToolInputs]
    \cup [op : {"recordExecutionEvent"}, in : EventInputs]
    \cup [op : {"ensureSessionEvaluation"}, in : Ensures]

ASSUME ProgramsAssumption == Programs \subseteq Seq(PortCalls) \ {<<>>}

\* a is the answer to the question u; both are turns, or inputs of recordTurn.
\* An exchange's answer key is its question key and the request.
AnswerOf(a, u) ==
  /\ u.role = "user" /\ a.role = "assistant"
  /\ u.sessionId = a.sessionId
  /\ a.idempotencyKey[1] = u.idempotencyKey

\* The turns the programs record.
TurnCalls ==
  {in \in TurnInputs :
     \E p \in Programs : \E i \in 1 .. Len(p) : p[i] = [op |-> "recordTurn", in |-> in]}

\* The closure of handleVoiceTurn awaits the record of the question before that
\* of its answer.
ASSUME QuestionFirstAssumption ==
  \A p \in Programs : \A i \in 1 .. Len(p) :
    p[i].op = "recordTurn" =>
      \A q \in TurnCalls :
        AnswerOf(p[i].in, q) =>
          \E j \in 1 .. (i - 1) : p[j] = [op |-> "recordTurn", in |-> q]

VARIABLES
  rows,       \* table sessions
  turnRows,   \* table conversation_turns
  toolRows,   \* table tool_calls
  eventRows,  \* table execution_events
  program,    \* the calls of each client
  at,         \* the one in progress
  pc,         \* the request it waits for
  got         \* what its requests have returned

tables     == <<rows, turnRows, toolRows, eventRows>>
clientVars == <<program, at, pc, got>>
vars       == <<tables, storeVars, clientVars>>

-----------------------------------------------------------------------------
(* The progress of a call.                                                 *)

Op(c)    == program[c][at[c]].op
Input(c) == program[c][at[c]].in

FirstRequest(call) ==
  CASE call.op = "upsertSession" ->
         IF call.in.externalChannelId = NoValue THEN "by_id" ELSE "by_channel"
    [] call.op = "ensureSessionEvaluation" -> "session"
    [] OTHER -> "by_key"

Init ==
  /\ StoreInit
  /\ rows = EmptyMap
  /\ turnRows = {} /\ toolRows = {} /\ eventRows = {}
  /\ program \in [Clients -> Programs]
  /\ at = [c \in Clients |-> 1]
  /\ pc = [c \in Clients |-> FirstRequest(program[c][1])]
  /\ got = [c \in Clients |-> NoValue]

GoOn(c, request, answer) ==
  /\ pc' = [pc EXCEPT ![c] = request]
  /\ got' = [got EXCEPT ![c] = answer]
  /\ UNCHANGED <<program, at>>

Return(c) ==
  /\ at' = [at EXCEPT ![c] = @ + 1]
  /\ pc' = [pc EXCEPT ![c] = IF at[c] = Len(program[c]) THEN "done"
                             ELSE FirstRequest(program[c][at[c] + 1])]
  /\ got' = [got EXCEPT ![c] = NoValue]
  /\ UNCHANGED program

\* ensureSessionEvaluation, once it has a report.
ScoreReport(c, report) ==
  IF report.terminal /\ (report.evaluation = NoValue \/ Input(c).force)
  THEN GoOn(c, "patch", report)
  ELSE Return(c)

FallbackReport(id) ==
  [terminal |-> Terminal(id), evaluation |-> sessions[id].evaluation, keys |-> ReportEvidence(id)]

\* Mutant: a failed request is swallowed.
GiveUp(c) == Return(c) /\ UNCHANGED storeVars

\* The catch of withFallback: the call is made again, on the memory store.
FallBack(c) ==
  \/ Op(c) = "upsertSession" /\ UpsertSession(Input(c)) /\ Return(c)
  \/ Op(c) = "recordTurn" /\ RecordTurn(Input(c)) /\ Return(c)
  \/ Op(c) = "recordExecutionEvent" /\ RecordSpan(Input(c)) /\ Return(c)
  \/ /\ Op(c) = "recordToolCall"
     /\ AddToolCall(Input(c))
     /\ Return(c)
     /\ UNCHANGED <<sessions, sessionIdByExternal, sessionIdempotency, turns, events>>
  \/ /\ Op(c) = "ensureSessionEvaluation" /\ pc[c] # "patch"
     /\ IF SessionExists(Input(c).sessionId)
        THEN ScoreReport(c, FallbackReport(Input(c).sessionId))
        ELSE Return(c)
     /\ UNCHANGED storeVars
  \* saveSessionEvaluation of an unknown session throws, to the caller
  \/ /\ Op(c) = "ensureSessionEvaluation" /\ pc[c] = "patch"
     /\ \/ SaveSessionEvaluation(Input(c).sessionId, [evidence |-> got[c].keys])
        \/ ~SessionExists(Input(c).sessionId) /\ UNCHANGED storeVars
     /\ Return(c)

\* A write took effect: the call returns, unless its response is lost.
Acknowledged(c) ==
  \/ Return(c) /\ UNCHANGED storeVars
  \/ "reply_lost" \in Faults /\ FallBack(c)

RequestFails(c) ==
  /\ "request_fails" \in Faults
  /\ pc[c] # "done"
  /\ FallBack(c)
  /\ UNCHANGED tables

-----------------------------------------------------------------------------
(* upsertSession: find the row, compute the next one, write it back whole. *)

RowsOfChannel(channel) == {id \in DOMAIN rows : rows[id].externalChannelId = channel}

FindByChannel(c) ==
  /\ pc[c] = "by_channel"
  /\ \/ /\ RowsOfChannel(Input(c).externalChannelId) = {}
        /\ GoOn(c, "by_id", NoValue)
     \/ \E id \in RowsOfChannel(Input(c).externalChannelId) :
          GoOn(c, "post_session", [id |-> id, row |-> rows[id], stored |-> TRUE])
  /\ UNCHANGED <<tables, storeVars>>

FindById(c) ==
  LET id == Input(c).sessionId
  IN  /\ pc[c] = "by_id"
      /\ GoOn(c, "post_session",
              IF id \in DOMAIN rows
              THEN [id |-> id, row |-> rows[id], stored |-> TRUE]
              ELSE [id |-> id, row |-> NewSession(Input(c).occurredAt), stored |-> FALSE])
      /\ UNCHANGED <<tables, storeVars>>

\* Mutant: the end of a call leaves its media open.
NextRowMediaOpen(s, in) ==
  CASE in.eventType = "call_started" -> Activated([s EXCEPT !.startedAt = in.occurredAt])
    [] in.eventType = "transcript"   -> Activated(s)
    [] in.eventType = "call_ended"   -> [Ended(s, in.occurredAt) EXCEPT !.mediaStatus = s.mediaStatus]

\* A start moves startedAt, whichever way, unlike the memory store's.
NextRow(s, in) ==
  CASE in.eventType = "call_started" -> Activated([s EXCEPT !.startedAt = in.occurredAt])
    [] in.eventType = "transcript"   -> Activated(s)
    [] in.eventType = "call_ended"   -> Ended(s, in.occurredAt)

\* The row a POST stores.  It overwrites every column of the row under its id,
\* but for the evaluation when the caller found no row and has no such column.
Merged(id, next, stored) ==
  [x \in DOMAIN rows \cup {id} |->
     IF x # id THEN rows[x]
     ELSE IF stored \/ id \notin DOMAIN rows THEN next
     ELSE [next EXCEPT !.evaluation = rows[id].evaluation]]

PostSession(c) ==
  LET id    == got[c].id
      next  == NextRow(Linked(got[c].row, Input(c)), Input(c))
      taken == next.externalChannelId # NoValue
                 /\ RowsOfChannel(next.externalChannelId) \ {id} # {}
  IN  /\ pc[c] = "post_session"
      /\ \/ /\ ~taken
            /\ rows' = Merged(id, next, got[c].stored)
            /\ Acknowledged(c)
         \/ /\ taken
            /\ FallBack(c)
            /\ UNCHANGED rows
      /\ UNCHANGED <<turnRows, toolRows, eventRows>>

-----------------------------------------------------------------------------
(* recordTurn, recordToolCall, recordExecutionEvent: look the key up, count *)
(* the turns already there, insert.                                        *)

Table(c) ==
  CASE Op(c) = "recordTurn" -> turnRows
    [] Op(c) = "recordToolCall" -> toolRows
    [] Op(c) = "recordExecutionEvent" -> eventRows

FindByKey(c) ==
  /\ pc[c] = "by_key"
  /\ IF HasKey(Table(c), Input(c).idempotencyKey) THEN Return(c)
     ELSE GoOn(c, IF Op(c) = "recordTurn" THEN "siblings" ELSE "insert", NoValue)
  /\ UNCHANGED <<tables, storeVars>>

\* Mutant: each role has a numbering of its own.
CountTurnsOfRole(c) ==
  /\ pc[c] = "siblings"
  /\ GoOn(c, "insert",
          Cardinality({t \in RowsOf(turnRows, Input(c).sessionId) : t.role = Input(c).role}))
  /\ UNCHANGED <<tables, storeVars>>

\* Mutant: the turn is taken to be among those counted.
CountOthers(c) ==
  /\ pc[c] = "siblings"
  /\ GoOn(c, "insert", Cardinality(RowsOf(turnRows, Input(c).sessionId)) - 1)
  /\ UNCHANGED <<tables, storeVars>>

CountSiblings(c) ==
  /\ pc[c] = "siblings"
  /\ GoOn(c, "insert", Cardinality(RowsOf(turnRows, Input(c).sessionId)))
  /\ UNCHANGED <<tables, storeVars>>

TurnRow(c) ==
  [sessionId |-> Input(c).sessionId, index |-> got[c], role |-> Input(c).role,
   idempotencyKey |-> Input(c).idempotencyKey]

\* Whether the foreign key and the unique key let the row in.
Insertable(c) ==
  /\ Input(c).sessionId \in DOMAIN rows
  /\ ~HasKey(Table(c), Input(c).idempotencyKey)

Inserted(c) ==
  \/ /\ Op(c) = "recordTurn"
     /\ turnRows' = turnRows \cup {TurnRow(c)} /\ UNCHANGED <<toolRows, eventRows>>
  \/ /\ Op(c) = "recordToolCall"
     /\ toolRows' = toolRows \cup {Input(c)} /\ UNCHANGED <<turnRows, eventRows>>
  \/ /\ Op(c) = "recordExecutionEvent"
     /\ eventRows' = eventRows \cup {Input(c)} /\ UNCHANGED <<turnRows, toolRows>>

Insert(c) ==
  /\ pc[c] = "insert"
  /\ \/ Insertable(c) /\ Inserted(c) /\ Acknowledged(c)
     \/ ~Insertable(c) /\ FallBack(c) /\ UNCHANGED <<turnRows, toolRows, eventRows>>
  /\ UNCHANGED rows

-----------------------------------------------------------------------------
(* getSessionReport: the session, then its turns, tool calls and events;   *)
(* and saveSessionEvaluation.                                              *)

\* The report is hydrated from the row's timestamps: ended is completed.
ReadSession(c) ==
  LET id == Input(c).sessionId
  IN  /\ pc[c] = "session"
      /\ IF id \in DOMAIN rows
         THEN GoOn(c, "turns", [terminal |-> rows[id].endedAt # NoValue,
                                evaluation |-> rows[id].evaluation, keys |-> {}])
         ELSE Return(c)
      /\ UNCHANGED <<tables, storeVars>>

WithRows(c, table) ==
  [got[c] EXCEPT !.keys = @ \cup KeysOf(RowsOf(table, Input(c).sessionId))]

\* Mutant: the session's columns are read after its rows.
ReadEventsThenScore(c) ==
  /\ pc[c] = "events"
  /\ ScoreReport(c, [WithRows(c, eventRows) EXCEPT !.evaluation = rows[Input(c).sessionId].evaluation])
  /\ UNCHANGED <<tables, storeVars>>

ReadTurns(c) ==
  /\ pc[c] = "turns"
  /\ GoOn(c, "tools", WithRows(c, turnRows))
  /\ UNCHANGED <<tables, storeVars>>

ReadTools(c) ==
  /\ pc[c] = "tools"
  /\ GoOn(c, "events", WithRows(c, toolRows))
  /\ UNCHANGED <<tables, storeVars>>

ReadEvents(c) ==
  /\ pc[c] = "events"
  /\ ScoreReport(c, WithRows(c, eventRows))
  /\ UNCHANGED <<tables, storeVars>>

\* A PATCH that matches no row succeeds.
PatchEvaluation(c) ==
  LET id == Input(c).sessionId
  IN  /\ pc[c] = "patch"
      /\ rows' = IF id \in DOMAIN rows
                 THEN [rows EXCEPT ![id].evaluation = [evidence |-> got[c].keys]]
                 ELSE rows
      /\ Acknowledged(c)
      /\ UNCHANGED <<turnRows, toolRows, eventRows>>

-----------------------------------------------------------------------------
Upsert(c) == FindByChannel(c) \/ FindById(c) \/ PostSession(c)
Record(c) == FindByKey(c) \/ CountSiblings(c) \/ Insert(c)
Report(c) == ReadSession(c) \/ ReadTurns(c) \/ ReadTools(c) \/ ReadEvents(c) \/ PatchEvaluation(c)

Next == \E c \in Clients : Upsert(c) \/ Record(c) \/ Report(c) \/ RequestFails(c)

Spec == Init /\ [][Next]_vars

-----------------------------------------------------------------------------
(* Properties.                                                             *)

\* Tables and clients keep their types.
HostedTypeOK ==
  /\ StoreTypeOK
  /\ DOMAIN rows \subseteq SessionIds
  /\ rows \in [DOMAIN rows -> SessionRecords]
  /\ turnRows \subseteq TurnRecords
  /\ toolRows \subseteq ToolInputs
  /\ eventRows \subseteq EventInputs
  /\ program \in [Clients -> Programs]
  /\ \A c \in Clients :
       /\ at[c] \in 1 .. (Len(program[c]) + 1)
       /\ pc[c] = "done" <=> at[c] = Len(program[c]) + 1
       /\ pc[c] \in {"by_channel", "by_id", "post_session", "by_key", "siblings", "insert",
                     "session", "turns", "tools", "events", "patch", "done"}

\* Whatever requests interleave, fail or lose their reply, and though whole rows
\* are written back over one another, a stored session is wholly ended or not
\* at all: its report, hydrated from endedAt, agrees with its status.
HostedLifecycleConsistent ==
  \A id \in DOMAIN rows :
    LET s == rows[id]
    IN  /\ s.businessStatus = "completed" <=> s.endedAt # NoValue
        /\ s.businessStatus = "completed" <=> s.durationMs # NoValue
        /\ s.businessStatus = "completed" <=> s.mediaStatus = "ended"

\* "One process uses one history adapter: hosted Supabase when both variables
\* are set" (docs/persistence.md:25): nothing is in the fallback's memory.
OneHistory ==
  sessions = EmptyMap /\ turns = {} /\ toolCalls = {} /\ events = {}

\* "the stored transcript includes a user turn and an assistant turn in order"
\* (openspec/specs/session-persistence/spec.md:30): concurrent calls can give
\* two turns one sequence number, but, as long as no write went to the fallback,
\* never an answer one as low as its question's.
QuestionsPrecedeAnswers ==
  OneHistory => \A u, a \in turnRows : AnswerOf(a, u) => u.index < a.index

\* A report is read in four requests, while others add rows and score.  The
\* score it was read with was made from rows that it has read as well, as long as
\* no write went to the fallback.  This says nothing of a score stored since the
\* read, which the scorer will overwrite unseen: see ScoresNeverShrink.
ReportCoversItsScore ==
  OneHistory =>
    \A c \in Clients :
      pc[c] = "patch" /\ got[c].evaluation # NoValue =>
        got[c].evaluation.evidence \subseteq got[c].keys

\* The keys of the turns, tool calls and events a client was told are recorded.
RecordedBy(c) ==
  {program[c][i].in.idempotencyKey :
     i \in {j \in 1 .. (at[c] - 1) : program[c][j].op \in
              {"recordTurn", "recordToolCall", "recordExecutionEvent"}}}

\* A row the port acknowledged is in one of the two stores, whatever failed.
AcknowledgedRowsAreKept ==
  \A c \in Clients :
    RecordedBy(c) \subseteq
      KeysOf(turnRows \cup turns) \cup KeysOf(toolRows \cup toolCalls) \cup KeysOf(eventRows \cup events)

\* "When an inbound `externalChannelId` is present, at most one Session MAY
\* exist for that identifier" (openspec/specs/session-persistence/spec.md:11).
OneSessionPerChannel ==
  \A channel \in Channels :
    Cardinality(RowsOfChannel(channel)
                  \cup {id \in DOMAIN sessions : sessions[id].externalChannelId = channel}) <= 1

\* "WHEN two inbound events share the same `externalChannelId` THEN they attach
\* to the same Session" (openspec/specs/session-persistence/spec.md:15-16): the
\* session a channel leads to stays the one it leads to.
HostedBindingIsPermanent ==
  [][\A channel \in Channels : RowsOfChannel(channel) \subseteq RowsOfChannel(channel)']_vars

\* "the system MUST re-run the current scorer version over the current persisted
\* evidence" (openspec/changes/evaluation-public-demo/specs/
\* session-call-evaluation/spec.md:51): a stored score is not lost, nor replaced
\* by one made from less.
ScoresNeverShrink ==
  [][OneHistory =>
       \A id \in DOMAIN rows :
         LET score == rows[id].evaluation IN
         score # NoValue =>
           /\ rows'[id].evaluation # NoValue
           /\ score.evidence \subseteq rows'[id].evaluation.evidence]_vars

\* "Call end MUST set end time, duration when both timestamps exist, and a final
\* status" (openspec/specs/session-persistence/spec.md:57): a finished session
\* stays finished.
HostedFinishedIsForever ==
  [][\A id \in DOMAIN rows : rows[id].endedAt # NoValue => rows'[id].endedAt # NoValue]_vars
=============================================================================
