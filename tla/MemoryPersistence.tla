-------------------------- MODULE MemoryPersistence --------------------------
(***************************************************************************)
(* The session history behind PersistencePort, as the in-process adapter   *)
(* keeps it (src/src/adapters/persistence/memory-persistence.ts).  No      *)
(* method of the class awaits anything, so each call is one atomic action. *)
(*                                                                         *)
(* The actions take the caller's input as a parameter: VoiceRuntime EXTENDS*)
(* this module and performs them from the request handlers, and StoreNext  *)
(* at the end lets any caller perform any of them with any input.          *)
(*                                                                         *)
(* Abstraction: ISO timestamps are naturals; the text of a turn, which the *)
(* store never looks at, is part of the idempotency key; a row carries its *)
(* key instead of a random id; columns that are only copied (agent, trace, *)
(* kind, arguments, latency) are left out.  An evaluation is represented   *)
(* by the row keys the scorer saw, which is what tells two scores apart.   *)
(***************************************************************************)
EXTENDS Integers, FiniteSets

CONSTANTS
  SessionIds,    \* internal session identifiers (UUIDs)
  Channels,      \* externalChannelId values
  Times,         \* the instants an event can carry
  UpsertKeys,    \* idempotency keys of session events
  RowKeys,       \* idempotency keys of turns, tool calls and trace events
  ToolStatuses,  \* statuses a tool call is recorded with
  NoValue        \* undefined / null

ASSUME TimesAssumption == Times \subseteq Nat
\* A stored SessionCallEvaluation, known by the rows it was scored from.
Evaluations == [evidence : SUBSET RowKeys]

ASSUME NoValueAssumption == NoValue \notin Channels \cup Nat \cup Evaluations

VARIABLES
  sessions,             \* this.sessions
  sessionIdByExternal,  \* this.sessionIdByExternal
  sessionIdempotency,   \* this.sessionIdempotency
  turns,                \* this.turns (and turnKeys: the keys of its records)
  toolCalls,            \* this.toolCalls (and toolKeys)
  events                \* this.events (and eventKeys)

storeVars ==
  <<sessions, sessionIdByExternal, sessionIdempotency, turns, toolCalls, events>>

EventTypes == {"call_started", "transcript", "call_ended"}
Roles      == {"user", "assistant"}

Optional(S) == S \cup {NoValue}

SessionRecords ==
  [externalChannelId : Optional(Channels),
   businessStatus    : {"initiated", "active", "completed", "failed"},
   mediaStatus       : {"idle", "active", "ended"},
   startedAt         : Nat,
   endedAt           : Optional(Nat),
   durationMs        : Optional(Nat),
   evaluation        : Optional(Evaluations)]

UpsertInputs ==
  [sessionId         : SessionIds,
   externalChannelId : Optional(Channels),
   eventType         : EventTypes,
   occurredAt        : Times,
   idempotencyKey    : UpsertKeys]

TurnInputs  == [sessionId : SessionIds, role : Roles, idempotencyKey : RowKeys]
ToolInputs  == [sessionId : SessionIds, status : ToolStatuses, idempotencyKey : RowKeys]
EventInputs == [sessionId : SessionIds, idempotencyKey : RowKeys]

TurnRecords ==
  [sessionId : SessionIds, index : Nat, role : Roles, idempotencyKey : RowKeys]

-----------------------------------------------------------------------------
(* Lookups.                                                                *)

SessionExists(id) == id \in DOMAIN sessions

Terminal(id) == sessions[id].businessStatus \in {"completed", "failed"}

\* Mutant: a lookup by the caller's sessionId alone.
NamedId(in) == in.sessionId

\* The id upsertSession works on and returns: the session the channel is
\* bound to, else the one the caller named.
ResolvedId(in) ==
  IF in.externalChannelId \in DOMAIN sessionIdByExternal
  THEN sessionIdByExternal[in.externalChannelId]
  ELSE in.sessionId

\* Mutant: replays are not recognised.
HasNoKey(rows, key) == FALSE

HasKey(rows, key) == \E row \in rows : row.idempotencyKey = key

RowsOf(rows, id) == {row \in rows : row.sessionId = id}

KeysOf(rows) == {row.idempotencyKey : row \in rows}

\* The evidence in a session report: every row getSessionReport joins.
ReportEvidence(id) == KeysOf(RowsOf(turns, id) \cup RowsOf(toolCalls, id) \cup RowsOf(events, id))

-----------------------------------------------------------------------------
(* upsertSession.                                                          *)

NewSession(at) ==
  [externalChannelId |-> NoValue, businessStatus |-> "initiated",
   mediaStatus |-> "idle", startedAt |-> at, endedAt |-> NoValue,
   durationMs |-> NoValue, evaluation |-> NoValue]

\* sessions.set(id, record)
Put(id, record) ==
  [x \in DOMAIN sessions \cup {id} |-> IF x = id THEN record ELSE sessions[x]]

\* Mutant: the terminal check is dropped.
ActivatedAlways(s) == [s EXCEPT !.businessStatus = "active", !.mediaStatus = "active"]

\* A start or a transcript activates a session that has not finished.
Activated(s) ==
  IF s.businessStatus \in {"completed", "failed"}
  THEN s
  ELSE [s EXCEPT !.businessStatus = "active", !.mediaStatus = "active"]

StartedNoLaterThan(s, at) == [s EXCEPT !.startedAt = IF @ > at THEN at ELSE @]

\* Mutant: the duration is not clamped at zero.
EndedUnclamped(s, at) ==
  [s EXCEPT !.endedAt = at, !.mediaStatus = "ended", !.businessStatus = "completed",
            !.durationMs = at - s.startedAt]

Ended(s, at) ==
  [s EXCEPT !.endedAt = at,
            !.mediaStatus = "ended",
            !.businessStatus = IF @ = "failed" THEN @ ELSE "completed",
            !.durationMs = IF at > s.startedAt THEN at - s.startedAt ELSE 0]

\* Mutant: the row is written back without its evaluation.
LinkedUnscored(s, in) ==
  [s EXCEPT !.externalChannelId = in.externalChannelId, !.evaluation = NoValue]

Linked(s, in) ==
  IF in.externalChannelId = NoValue
  THEN s
  ELSE [s EXCEPT !.externalChannelId = in.externalChannelId]

\* Mutant: the channel is mapped to the id the caller named.
BoundToCaller(in, id) ==
  [c \in DOMAIN sessionIdByExternal \cup {in.externalChannelId} |->
     IF c = in.externalChannelId THEN in.sessionId ELSE sessionIdByExternal[c]]

\* sessionIdByExternal.set(in.externalChannelId, id)
Bound(in, id) ==
  [c \in DOMAIN sessionIdByExternal \cup {in.externalChannelId} |->
     IF c = in.externalChannelId THEN id ELSE sessionIdByExternal[c]]

AfterEvent(s, in) ==
  CASE in.eventType = "call_started" -> Activated(StartedNoLaterThan(s, in.occurredAt))
    [] in.eventType = "transcript"   -> Activated(s)
    [] in.eventType = "call_ended"   -> Ended(s, in.occurredAt)

\* A key seen before: the session is only looked up (and created bare when
\* the lookup finds none).
ReplayUpsert(in) ==
  /\ in.idempotencyKey \in sessionIdempotency
  /\ sessions' = IF SessionExists(ResolvedId(in)) THEN sessions
                 ELSE Put(in.sessionId, NewSession(in.occurredAt))
  /\ UNCHANGED <<sessionIdByExternal, sessionIdempotency>>

ApplyUpsert(in) ==
  LET id  == ResolvedId(in)
      old == IF SessionExists(id) THEN sessions[id] ELSE NewSession(in.occurredAt)
  IN  /\ in.idempotencyKey \notin sessionIdempotency
      /\ sessions' = Put(id, AfterEvent(Linked(old, in), in))
      /\ sessionIdByExternal' =
           IF in.externalChannelId = NoValue THEN sessionIdByExternal ELSE Bound(in, id)
      /\ sessionIdempotency' = sessionIdempotency \cup {in.idempotencyKey}

UpsertSession(in) ==
  /\ ReplayUpsert(in) \/ ApplyUpsert(in)
  /\ UNCHANGED <<turns, toolCalls, events>>

-----------------------------------------------------------------------------
(* Child rows.  A key seen before returns the stored row; no method checks *)
(* that the parent session exists.                                         *)

\* Mutant: the index counts a session's exchanges.
NextIndexByExchange(id) == Cardinality({t \in RowsOf(turns, id) : t.role = "user"})

NextIndex(id) == Cardinality(RowsOf(turns, id))

AddTurn(in) ==
  turns' = IF HasKey(turns, in.idempotencyKey) THEN turns
           ELSE turns \cup {[sessionId |-> in.sessionId,
                             index |-> NextIndex(in.sessionId),
                             role |-> in.role,
                             idempotencyKey |-> in.idempotencyKey]}

RecordTurn(in) ==
  /\ AddTurn(in)
  /\ UNCHANGED <<sessions, sessionIdByExternal, sessionIdempotency, toolCalls, events>>

\* Mutant: a retry replaces the row it finds under its key.
OverwriteToolCall(in) ==
  toolCalls' = {call \in toolCalls : call.idempotencyKey # in.idempotencyKey} \cup {in}

AddToolCall(in) ==
  toolCalls' = IF HasKey(toolCalls, in.idempotencyKey) THEN toolCalls
               ELSE toolCalls \cup {in}

AddEvent(in) ==
  events' = IF HasKey(events, in.idempotencyKey) THEN events ELSE events \cup {in}

\* persistSpan for a span that is not a runtime tool call.
RecordSpan(event) ==
  /\ AddEvent(event)
  /\ UNCHANGED <<sessions, sessionIdByExternal, sessionIdempotency, turns, toolCalls>>

\* A tool execution: its trace event and its tool call are written by the same
\* synchronous segment, both when persistSpan derives the call from the span
\* and when executeChannelToolInvocation records it itself.
RecordToolSpan(event, call) ==
  /\ AddEvent(event)
  /\ AddToolCall(call)
  /\ UNCHANGED <<sessions, sessionIdByExternal, sessionIdempotency, turns>>

\* saveSessionEvaluation; the code throws when the session is missing.
SaveSessionEvaluation(id, evaluation) ==
  /\ SessionExists(id)
  /\ sessions' = [sessions EXCEPT ![id].evaluation = evaluation]
  /\ UNCHANGED <<sessionIdByExternal, sessionIdempotency, turns, toolCalls, events>>

-----------------------------------------------------------------------------
EmptyMap == [x \in {} |-> NoValue]

StoreInit ==
  /\ sessions = EmptyMap
  /\ sessionIdByExternal = EmptyMap
  /\ sessionIdempotency = {}
  /\ turns = {}
  /\ toolCalls = {}
  /\ events = {}

\* ensureSessionEvaluation is the only caller of saveSessionEvaluation: the
\* session was finished, and the score is made from rows read at or before
\* the save.
ScoreSession ==
  \E id \in DOMAIN sessions :
    /\ Terminal(id)
    /\ \E evidence \in SUBSET ReportEvidence(id) :
         SaveSessionEvaluation(id, [evidence |-> evidence])

StoreNext ==
  \/ \E in \in UpsertInputs : UpsertSession(in)
  \/ \E in \in TurnInputs : RecordTurn(in)
  \/ \E event \in EventInputs : RecordSpan(event)
  \/ \E event \in EventInputs, call \in ToolInputs : RecordToolSpan(event, call)
  \/ ScoreSession

StoreSpec == StoreInit /\ [][StoreNext]_storeVars
-----------------------------------------------------------------------------
(* Properties.                                                             *)

\* The shape of the store, including that durations are never negative.
StoreTypeOK ==
  /\ DOMAIN sessions \subseteq SessionIds
  /\ sessions \in [DOMAIN sessions -> SessionRecords]
  /\ DOMAIN sessionIdByExternal \subseteq Channels
  /\ sessionIdByExternal \in [DOMAIN sessionIdByExternal -> SessionIds]
  /\ sessionIdempotency \subseteq UpsertKeys
  /\ turns \subseteq TurnRecords
  /\ toolCalls \subseteq ToolInputs
  /\ events \subseteq EventInputs

\* A channel always leads to a stored session, and a session that names a
\* channel is the one that channel leads to: "at most one Session MAY exist for
\* that identifier" (openspec/specs/session-persistence/spec.md:11).
ChannelBinding ==
  /\ \A c \in DOMAIN sessionIdByExternal : SessionExists(sessionIdByExternal[c])
  /\ \A id \in DOMAIN sessions :
       LET c == sessions[id].externalChannelId
       IN  c # NoValue => /\ c \in DOMAIN sessionIdByExternal
                          /\ sessionIdByExternal[c] = id

\* The end of a call is recorded as one fact: a session is completed exactly
\* when it has an end time, a duration and ended media, in whatever order its
\* events arrived (a late start or transcript revives nothing).
LifecycleConsistent ==
  \A id \in DOMAIN sessions :
    LET s == sessions[id]
    IN  /\ s.businessStatus # "failed"
        /\ s.businessStatus = "completed" <=> s.endedAt # NoValue
        /\ s.businessStatus = "completed" <=> s.durationMs # NoValue
        /\ s.businessStatus = "completed" <=> s.mediaStatus = "ended"

\* Only a finished call carries a score, and only for evidence that is still in
\* its report (the save comes after an await on the read it was computed from).
EvaluationOnlyWhenFinished ==
  \A id \in DOMAIN sessions :
    sessions[id].evaluation # NoValue =>
      /\ Terminal(id)
      /\ sessions[id].evaluation.evidence \subseteq ReportEvidence(id)

\* The sequence indexes of a session's turns are 0 .. n-1 without gap or
\* repetition, whatever other sessions and replays do in between.
TurnIndexesAreDense ==
  \A id \in SessionIds :
    LET mine == RowsOf(turns, id)
    IN  {t.index : t \in mine} = 0 .. (Cardinality(mine) - 1)

\* A replayed write never leaves a second row.
OneRowPerKey ==
  \A rows \in {turns, toolCalls, events} :
    \A a, b \in rows : a.idempotencyKey = b.idempotencyKey => a = b

\* Once bound, a channel keeps its session, so the events of one call cannot be
\* split between two sessions by a later event naming another session.
BindingIsPermanent ==
  [][\A c \in DOMAIN sessionIdByExternal :
       /\ c \in DOMAIN sessionIdByExternal'
       /\ sessionIdByExternal'[c] = sessionIdByExternal[c]]_storeVars

\* A finished session stays finished and keeps the score it has until another
\* score replaces it: no late event reopens it or drops the score.
FinishedIsForever ==
  [][\A id \in DOMAIN sessions :
       /\ id \in DOMAIN sessions'
       /\ Terminal(id) => Terminal(id)'
       /\ sessions[id].evaluation # NoValue => sessions'[id].evaluation # NoValue]_storeVars

\* "Completed attempts MUST NOT be overwritten by a retry"
\* (openspec/specs/session-persistence/spec.md:34): rows are only ever added.
RowsAreNeverRewritten ==
  [][/\ turns \subseteq turns'
     /\ toolCalls \subseteq toolCalls'
     /\ events \subseteq events']_storeVars

\* "Call end MUST set end time, duration when both timestamps exist"
\* (openspec/specs/session-persistence/spec.md:57), without "a corrupted
\* duration": the stored duration is the one between the stored timestamps.
DurationMatchesTimestamps ==
  \A id \in DOMAIN sessions :
    LET s == sessions[id]
    IN  s.endedAt # NoValue =>
          s.durationMs = IF s.endedAt > s.startedAt THEN s.endedAt - s.startedAt ELSE 0
=============================================================================
