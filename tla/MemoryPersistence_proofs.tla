---------------------- MODULE MemoryPersistence_proofs ----------------------
(***************************************************************************)
(* Theorems about the session history, for any sets of sessions, channels, *)
(* instants and keys, and any sequence of calls.                           *)
(*                                                                         *)
(* The argument is one inductive invariant, StoreInv.  Its parts need one  *)
(* another: an upsert through a channel only finds a stored session by     *)
(* ChannelBinding; an evaluation stays on a finished session because no    *)
(* upsert reopens one, which is LifecycleConsistent's business; and a new  *)
(* turn gets a fresh index because the indexes so far are dense.           *)
(***************************************************************************)
EXTENDS MemoryPersistence, FiniteSetTheorems, TLAPS

StoreInv ==
  /\ StoreTypeOK
  /\ IsFiniteSet(turns)
  /\ ChannelBinding
  /\ LifecycleConsistent
  /\ EvaluationOnlyWhenFinished
  /\ OneRowPerKey
  /\ TurnIndexesAreDense

-----------------------------------------------------------------------------
(* What the operators of upsertSession return.                             *)

\* A bare session is well formed and not finished.
LEMMA NewSessionType ==
  ASSUME NEW at \in Times
  PROVE  /\ NewSession(at) \in SessionRecords
         /\ NewSession(at).businessStatus = "initiated"
         /\ NewSession(at).mediaStatus = "idle"
         /\ NewSession(at).externalChannelId = NoValue
         /\ NewSession(at).endedAt = NoValue
         /\ NewSession(at).durationMs = NoValue
         /\ NewSession(at).evaluation = NoValue
BY TimesAssumption DEF NewSession, SessionRecords, Optional

\* The end of a call is one fact in a record.
Coherent(s) ==
  /\ s.businessStatus # "failed"
  /\ s.businessStatus = "completed" <=> s.endedAt # NoValue
  /\ s.businessStatus = "completed" <=> s.durationMs # NoValue
  /\ s.businessStatus = "completed" <=> s.mediaStatus = "ended"

\* Linking a session to a channel touches nothing else.
LEMMA LinkedFacts ==
  ASSUME NEW in \in UpsertInputs, NEW s \in SessionRecords
  PROVE  /\ Linked(s, in) \in SessionRecords
         /\ Coherent(s) => Coherent(Linked(s, in))
         /\ Linked(s, in).evaluation = s.evaluation
         /\ Linked(s, in).businessStatus = s.businessStatus
         /\ Linked(s, in).externalChannelId =
              IF in.externalChannelId = NoValue THEN s.externalChannelId
              ELSE in.externalChannelId
BY DEF Linked, SessionRecords, UpsertInputs, Optional, Coherent

\* An event keeps a record well formed, coherent and scored as it was, and never
\* takes it out of "completed".
LEMMA AfterEventFacts ==
  ASSUME NEW in \in UpsertInputs, NEW s \in SessionRecords
  PROVE  /\ AfterEvent(s, in) \in SessionRecords
         /\ Coherent(s) => Coherent(AfterEvent(s, in))
         /\ AfterEvent(s, in).externalChannelId = s.externalChannelId
         /\ AfterEvent(s, in).evaluation = s.evaluation
         /\ s.businessStatus \in {"completed", "failed"} =>
              AfterEvent(s, in).businessStatus \in {"completed", "failed"}
<1> USE DEF SessionRecords, Optional, Coherent
<1>1. /\ in.eventType \in {"call_started", "transcript", "call_ended"}
      /\ in.occurredAt \in Nat
  BY TimesAssumption DEF UpsertInputs, EventTypes
<1>2. CASE in.eventType = "call_started"
  <2> DEFINE e == StartedNoLaterThan(s, in.occurredAt)
  <2>1. /\ e \in SessionRecords
        /\ \A f \in {"businessStatus", "mediaStatus", "endedAt", "durationMs",
                     "evaluation", "externalChannelId"} : e[f] = s[f]
    BY <1>1 DEF StartedNoLaterThan
  <2>2. AfterEvent(s, in) = Activated(e)
    BY <1>2 DEF AfterEvent
  <2> HIDE DEF e
  <2> QED
    BY <2>1, <2>2 DEF Activated
<1>3. CASE in.eventType = "transcript"
  BY <1>3 DEF AfterEvent, Activated
<1>4. CASE in.eventType = "call_ended"
  <2> DEFINE at == in.occurredAt
             d == IF at > s.startedAt THEN at - s.startedAt ELSE 0
             e == AfterEvent(s, in)
  <2>1. d \in Nat /\ at \in Nat
    BY <1>1
  <2>2. /\ e = [s EXCEPT !.endedAt = at, !.mediaStatus = "ended",
                       !.businessStatus = IF @ = "failed" THEN @ ELSE "completed",
                       !.durationMs = d]
    BY <1>4 DEF AfterEvent, Ended
  <2> HIDE DEF d, at, e
  <2>3. /\ e.endedAt = at
        /\ e.durationMs = d
        /\ e.mediaStatus = "ended"
        /\ e.businessStatus = IF s.businessStatus = "failed" THEN "failed" ELSE "completed"
        /\ e.externalChannelId = s.externalChannelId
        /\ e.evaluation = s.evaluation
        /\ e \in SessionRecords
    BY <2>1, <2>2
  <2>4. d # NoValue /\ at # NoValue
    BY <2>1, NoValueAssumption
  <2> QED
    BY <2>3, <2>4 DEF e
<1> QED
  BY <1>1, <1>2, <1>3, <1>4

-----------------------------------------------------------------------------
(* Upserts.                                                                *)

\* The lookup always yields a session id, and a stored session when the channel
\* is known.
LEMMA ResolvedIdFacts ==
  ASSUME StoreInv, NEW in \in UpsertInputs
  PROVE  /\ ResolvedId(in) \in SessionIds
         /\ in.externalChannelId \in DOMAIN sessionIdByExternal =>
              SessionExists(ResolvedId(in))
         /\ ~SessionExists(ResolvedId(in)) => ResolvedId(in) = in.sessionId
BY DEF StoreInv, StoreTypeOK, ChannelBinding, ResolvedId, UpsertInputs, SessionExists

\* Storing a well-formed, coherent record whose score is the one the session
\* already had keeps everything but the channel binding.
LEMMA PutKeepsRecords ==
  ASSUME StoreInv,
         NEW id \in SessionIds, NEW rec \in SessionRecords,
         Coherent(rec),
         rec.evaluation # NoValue =>
           /\ rec.businessStatus \in {"completed", "failed"}
           /\ rec.evaluation.evidence \subseteq ReportEvidence(id),
         sessions' = Put(id, rec),
         UNCHANGED <<turns, toolCalls, events>>
  PROVE  /\ DOMAIN sessions' \subseteq SessionIds
         /\ sessions' \in [DOMAIN sessions' -> SessionRecords]
         /\ LifecycleConsistent'
         /\ EvaluationOnlyWhenFinished'
<1>1. /\ DOMAIN sessions' = DOMAIN sessions \cup {id}
      /\ \A x \in DOMAIN sessions' : sessions'[x] = IF x = id THEN rec ELSE sessions[x]
  BY DEF Put
<1>2. \A x \in DOMAIN sessions : sessions[x] \in SessionRecords
  BY DEF StoreInv, StoreTypeOK
<1>3. DOMAIN sessions' \subseteq SessionIds
  BY <1>1 DEF StoreInv, StoreTypeOK
<1>4. sessions' \in [DOMAIN sessions' -> SessionRecords]
  BY <1>1, <1>2 DEF Put
<1>5. LifecycleConsistent'
  BY <1>1 DEF StoreInv, LifecycleConsistent, Coherent
<1>6. \A x : ReportEvidence(x)' = ReportEvidence(x)
  BY DEF ReportEvidence, RowsOf, KeysOf
<1>7. EvaluationOnlyWhenFinished'
  BY <1>1, <1>6 DEF StoreInv, EvaluationOnlyWhenFinished, Terminal
<1> QED
  BY <1>3, <1>4, <1>5, <1>7

\* A replay at most stores a bare session nobody is bound to.
LEMMA ReplayKeepsInv ==
  ASSUME StoreInv, NEW in \in UpsertInputs, UpsertSession(in), ReplayUpsert(in)
  PROVE  StoreInv'
<1> DEFINE new == NewSession(in.occurredAt)
<1>1. UNCHANGED <<sessionIdByExternal, sessionIdempotency, turns, toolCalls, events>>
  BY DEF UpsertSession, ReplayUpsert
<1>2. CASE SessionExists(ResolvedId(in))
  <2>1. sessions' = sessions
    BY <1>2 DEF ReplayUpsert
  <2> QED
    BY <1>1, <2>1 DEF StoreInv, StoreTypeOK, ChannelBinding, LifecycleConsistent,
       EvaluationOnlyWhenFinished, OneRowPerKey, TurnIndexesAreDense, SessionExists,
       Terminal, ReportEvidence, RowsOf, KeysOf
<1>3. CASE ~SessionExists(ResolvedId(in))
  <2>1. sessions' = Put(in.sessionId, new)
    BY <1>3 DEF ReplayUpsert
  <2>2. /\ in.sessionId \in SessionIds
        /\ in.occurredAt \in Times
        /\ ~SessionExists(in.sessionId)
    BY <1>3, ResolvedIdFacts DEF UpsertInputs
  <2>3. /\ new \in SessionRecords
        /\ Coherent(new)
        /\ new.evaluation = NoValue
        /\ new.externalChannelId = NoValue
    BY <2>2, NewSessionType DEF Coherent
  <2> HIDE DEF new
  <2>4. /\ DOMAIN sessions' \subseteq SessionIds
        /\ sessions' \in [DOMAIN sessions' -> SessionRecords]
        /\ LifecycleConsistent'
        /\ EvaluationOnlyWhenFinished'
    BY <1>1, <2>1, <2>2, <2>3, PutKeepsRecords
  <2>5. ChannelBinding'
    BY <1>1, <2>1, <2>2, <2>3 DEF StoreInv, ChannelBinding, Put, SessionExists
  <2> QED
    BY <1>1, <2>4, <2>5 DEF StoreInv, StoreTypeOK, OneRowPerKey, TurnIndexesAreDense, RowsOf
<1> QED
  BY <1>2, <1>3

\* The record an upsert stores.
Upserted(in) ==
  LET id  == ResolvedId(in)
      old == IF SessionExists(id) THEN sessions[id] ELSE NewSession(in.occurredAt)
  IN  AfterEvent(Linked(old, in), in)

\* The record an accepted event writes is well formed, and finished whenever
\* the record it replaces was (upsertSession).
LEMMA UpsertedFacts ==
  ASSUME StoreInv, NEW in \in UpsertInputs
  PROVE  LET id == ResolvedId(in)
         IN  /\ Upserted(in) \in SessionRecords
             /\ Coherent(Upserted(in))
             /\ Upserted(in).externalChannelId =
                  IF in.externalChannelId # NoValue THEN in.externalChannelId
                  ELSE IF SessionExists(id) THEN sessions[id].externalChannelId ELSE NoValue
             /\ Upserted(in).evaluation =
                  IF SessionExists(id) THEN sessions[id].evaluation ELSE NoValue
             /\ SessionExists(id) /\ Terminal(id) =>
                  Upserted(in).businessStatus \in {"completed", "failed"}
<1> DEFINE id  == ResolvedId(in)
           old == IF SessionExists(id) THEN sessions[id] ELSE NewSession(in.occurredAt)
<1>1. in.occurredAt \in Times
  BY DEF UpsertInputs
<1>2. /\ old \in SessionRecords
      /\ Coherent(old)
  BY <1>1, NewSessionType
     DEF StoreInv, StoreTypeOK, LifecycleConsistent, Coherent, SessionExists
<1>3. /\ old.externalChannelId = IF SessionExists(id) THEN sessions[id].externalChannelId ELSE NoValue
      /\ old.evaluation = IF SessionExists(id) THEN sessions[id].evaluation ELSE NoValue
      /\ SessionExists(id) => old.businessStatus = sessions[id].businessStatus
  BY <1>1, NewSessionType
<1>4. Upserted(in) = AfterEvent(Linked(old, in), in)
  BY DEF Upserted
<1> HIDE DEF id, old
<1>5. Linked(old, in) \in SessionRecords
  BY <1>2, LinkedFacts
<1> QED
  BY <1>2, <1>3, <1>4, <1>5, LinkedFacts, AfterEventFacts DEF id, Terminal

\* A new key: the session is resolved, rebound and rewritten as one step.
LEMMA ApplyKeepsInv ==
  ASSUME StoreInv, NEW in \in UpsertInputs, UpsertSession(in), ApplyUpsert(in)
  PROVE  StoreInv'
<1> DEFINE id  == ResolvedId(in)
           rec == Upserted(in)
           ch  == in.externalChannelId
<1>1. /\ sessions' = Put(id, rec)
      /\ sessionIdempotency' = sessionIdempotency \cup {in.idempotencyKey}
      /\ sessionIdByExternal' = IF ch = NoValue THEN sessionIdByExternal ELSE Bound(in, id)
      /\ UNCHANGED <<turns, toolCalls, events>>
  BY DEF UpsertSession, ApplyUpsert, Upserted
<1>2. /\ id \in SessionIds
      /\ ch \in Channels \cup {NoValue}
      /\ in.idempotencyKey \in UpsertKeys
      /\ ch \in DOMAIN sessionIdByExternal => SessionExists(id) /\ sessionIdByExternal[ch] = id
  BY ResolvedIdFacts DEF UpsertInputs, Optional, ResolvedId
<1>3. /\ rec \in SessionRecords
      /\ Coherent(rec)
      /\ rec.externalChannelId = IF ch # NoValue THEN ch
                                 ELSE IF SessionExists(id) THEN sessions[id].externalChannelId
                                 ELSE NoValue
      /\ rec.evaluation = IF SessionExists(id) THEN sessions[id].evaluation ELSE NoValue
      /\ SessionExists(id) /\ Terminal(id) => rec.businessStatus \in {"completed", "failed"}
  BY UpsertedFacts
<1> HIDE DEF id, rec, ch
<1>4. rec.evaluation # NoValue =>
        /\ rec.businessStatus \in {"completed", "failed"}
        /\ rec.evaluation.evidence \subseteq ReportEvidence(id)
  BY <1>3 DEF StoreInv, EvaluationOnlyWhenFinished, SessionExists
<1>5. /\ DOMAIN sessions' \subseteq SessionIds
      /\ sessions' \in [DOMAIN sessions' -> SessionRecords]
      /\ LifecycleConsistent'
      /\ EvaluationOnlyWhenFinished'
  BY <1>1, <1>2, <1>3, <1>4, PutKeepsRecords
<1>6. /\ DOMAIN sessions' = DOMAIN sessions \cup {id}
      /\ \A x \in DOMAIN sessions' : sessions'[x] = IF x = id THEN rec ELSE sessions[x]
  BY <1>1 DEF Put
<1>7. /\ DOMAIN sessionIdByExternal' =
           IF ch = NoValue THEN DOMAIN sessionIdByExternal ELSE DOMAIN sessionIdByExternal \cup {ch}
      /\ \A c \in DOMAIN sessionIdByExternal' :
           sessionIdByExternal'[c] =
             IF ch # NoValue /\ c = ch THEN id ELSE sessionIdByExternal[c]
  BY <1>1 DEF Bound, ch
<1>8. /\ DOMAIN sessionIdByExternal' \subseteq Channels
      /\ sessionIdByExternal' \in [DOMAIN sessionIdByExternal' -> SessionIds]
  <2>1. DOMAIN sessionIdByExternal' \subseteq Channels
    BY <1>2, <1>7 DEF StoreInv, StoreTypeOK
  <2>2. \A c \in DOMAIN sessionIdByExternal' : sessionIdByExternal'[c] \in SessionIds
    BY <1>2, <1>7 DEF StoreInv, StoreTypeOK
  <2>3. sessionIdByExternal' = [c \in DOMAIN sessionIdByExternal' |-> sessionIdByExternal'[c]]
    BY <1>1 DEF Bound, ch, StoreInv, StoreTypeOK
  <2> QED
    BY <2>1, <2>2, <2>3
<1>9. ChannelBinding'
  <2>1. ASSUME NEW c \in DOMAIN sessionIdByExternal'
        PROVE  sessionIdByExternal'[c] \in DOMAIN sessions'
    BY <1>6, <1>7 DEF StoreInv, ChannelBinding, SessionExists
  <2>2. ASSUME NEW x \in DOMAIN sessions', sessions'[x].externalChannelId # NoValue
        PROVE  /\ sessions'[x].externalChannelId \in DOMAIN sessionIdByExternal'
               /\ sessionIdByExternal'[sessions'[x].externalChannelId] = x
    <3>1. CASE x = id /\ ch # NoValue
      BY <1>3, <1>6, <1>7, <3>1
    <3>2. CASE x = id /\ ch = NoValue
      BY <1>3, <1>6, <1>7, <2>2, <3>2 DEF StoreInv, ChannelBinding, SessionExists
    <3>3. CASE x # id
      BY <1>2, <1>6, <1>7, <2>2, <3>3 DEF StoreInv, ChannelBinding, SessionExists
    <3> QED
      BY <3>1, <3>2, <3>3
  <2> QED
    BY <2>1, <2>2 DEF ChannelBinding, SessionExists
<1> QED
  BY <1>1, <1>2, <1>5, <1>8, <1>9
     DEF StoreInv, StoreTypeOK, OneRowPerKey, TurnIndexesAreDense, RowsOf

-----------------------------------------------------------------------------
(* Rows and scores.                                                        *)

\* Rows are only added, so the evidence of a score stays in the report.
LEMMA EvidenceGrows ==
  ASSUME turns \subseteq turns', toolCalls \subseteq toolCalls', events \subseteq events',
         EvaluationOnlyWhenFinished, UNCHANGED sessions
  PROVE  EvaluationOnlyWhenFinished'
<1>1. \A id : ReportEvidence(id) \subseteq ReportEvidence(id)'
  BY DEF ReportEvidence, KeysOf, RowsOf
<1> QED
  BY <1>1 DEF EvaluationOnlyWhenFinished, Terminal

\* A turn gets the next index of its session, or its key is a replay.
LEMMA RecordTurnKeepsInv ==
  ASSUME StoreInv, NEW in \in TurnInputs, RecordTurn(in)
  PROVE  StoreInv' /\ turns \subseteq turns'
<1>1. UNCHANGED <<sessions, sessionIdByExternal, sessionIdempotency, toolCalls, events>>
  BY DEF RecordTurn
<1>2. CASE HasKey(turns, in.idempotencyKey)
  <2>1. turns' = turns
    BY <1>2 DEF RecordTurn, AddTurn
  <2> QED
    BY <1>1, <2>1 DEF StoreInv, StoreTypeOK, ChannelBinding, LifecycleConsistent,
       EvaluationOnlyWhenFinished, OneRowPerKey, TurnIndexesAreDense, SessionExists,
       Terminal, ReportEvidence, RowsOf, KeysOf
<1>3. CASE ~HasKey(turns, in.idempotencyKey)
  <2> DEFINE n   == NextIndex(in.sessionId)
             new == [sessionId |-> in.sessionId, index |-> n, role |-> in.role,
                     idempotencyKey |-> in.idempotencyKey]
             mine(id) == RowsOf(turns, id)
  <2>1. turns' = turns \cup {new}
    BY <1>3 DEF RecordTurn, AddTurn
  <2>2. \A id : /\ IsFiniteSet(mine(id))
                /\ Cardinality(mine(id)) \in Nat
    <3>1. ASSUME NEW id PROVE mine(id) \subseteq turns
      BY DEF RowsOf
    <3> QED
      BY <3>1, FS_Subset, FS_CardinalityType DEF StoreInv
  <2>3. n \in Nat /\ n = Cardinality(mine(in.sessionId))
    BY <2>2 DEF NextIndex
  <2>4. new \in TurnRecords
    BY <2>3 DEF TurnRecords, TurnInputs
  <2>5. OneRowPerKey'
    BY <1>1, <1>3, <2>1 DEF StoreInv, OneRowPerKey, HasKey
  <2>6. EvaluationOnlyWhenFinished'
    BY <1>1, <2>1, EvidenceGrows DEF StoreInv
  <2>7. TurnIndexesAreDense'
    <3>1. SUFFICES ASSUME NEW id \in SessionIds
                   PROVE  {t.index : t \in RowsOf(turns', id)} =
                            0 .. (Cardinality(RowsOf(turns', id)) - 1)
      BY DEF TurnIndexesAreDense
    <3>2. {t.index : t \in mine(id)} = 0 .. (Cardinality(mine(id)) - 1)
      BY DEF StoreInv, TurnIndexesAreDense
    <3>3. CASE id = in.sessionId
      <4>1. RowsOf(turns', id) = mine(id) \cup {new}
        BY <2>1, <3>3 DEF RowsOf
      <4>2. new \notin mine(id)
        BY <2>3, <3>2, <3>3
      <4>3. Cardinality(RowsOf(turns', id)) = n + 1
        <5>1. IsFiniteSet(mine(id)) /\ Cardinality(mine(id)) = n
          BY <2>2, <2>3, <3>3
        <5> HIDE DEF new, n, mine
        <5> QED
          BY <4>1, <4>2, <5>1, FS_AddElement
      <4>4. {t.index : t \in RowsOf(turns', id)} = {t.index : t \in mine(id)} \cup {n}
        <5>1. new.index = n
          OBVIOUS
        <5>2. \A t : t \in RowsOf(turns', id) <=> t \in mine(id) \/ t = new
          BY <4>1
        <5> HIDE DEF new, n, mine
        <5> QED
          BY <5>1, <5>2
      <4>5. 0 .. n = (0 .. (n - 1)) \cup {n}
        <5> HIDE DEF n, mine
        <5> QED
          BY <2>3
      <4> QED
        BY <2>3, <3>2, <3>3, <4>3, <4>4, <4>5
    <3>4. CASE id # in.sessionId
      <4>1. RowsOf(turns', id) = mine(id)
        BY <2>1, <3>4 DEF RowsOf
      <4> QED
        BY <3>2, <4>1
    <3> QED
      BY <3>3, <3>4
  <2>8. IsFiniteSet(turns')
    BY <2>1, FS_AddElement DEF StoreInv
  <2> QED
    BY <1>1, <2>1, <2>4, <2>5, <2>6, <2>7, <2>8
       DEF StoreInv, StoreTypeOK, ChannelBinding, LifecycleConsistent, SessionExists
<1> QED
  BY <1>2, <1>3 DEF RecordTurn, AddTurn

\* A tool span adds at most one tool call and one event.
LEMMA RecordToolSpanKeepsInv ==
  ASSUME StoreInv, NEW event \in EventInputs,
         \/ RecordSpan(event)
         \/ \E call \in ToolInputs : RecordToolSpan(event, call)
  PROVE  StoreInv' /\ toolCalls \subseteq toolCalls' /\ events \subseteq events'
<1>1. /\ UNCHANGED <<sessions, sessionIdByExternal, sessionIdempotency, turns>>
      /\ events' = IF HasKey(events, event.idempotencyKey) THEN events ELSE events \cup {event}
      /\ \/ toolCalls' = toolCalls
         \/ \E call \in ToolInputs :
              toolCalls' = IF HasKey(toolCalls, call.idempotencyKey) THEN toolCalls
                           ELSE toolCalls \cup {call}
  BY DEF RecordSpan, RecordToolSpan, AddEvent, AddToolCall
<1>2. toolCalls \subseteq toolCalls' /\ events \subseteq events'
  BY <1>1
<1>3. toolCalls' \subseteq ToolInputs /\ events' \subseteq EventInputs
  BY <1>1 DEF StoreInv, StoreTypeOK
<1>4. \A a, b \in events' : a.idempotencyKey = b.idempotencyKey => a = b
  BY <1>1 DEF StoreInv, OneRowPerKey, HasKey
<1>5. \A a, b \in toolCalls' : a.idempotencyKey = b.idempotencyKey => a = b
  BY <1>1 DEF StoreInv, OneRowPerKey, HasKey
<1>6. \A a, b \in turns' : a.idempotencyKey = b.idempotencyKey => a = b
  BY <1>1 DEF StoreInv, OneRowPerKey
<1>7. OneRowPerKey'
  BY <1>4, <1>5, <1>6 DEF OneRowPerKey
<1>8. EvaluationOnlyWhenFinished'
  BY <1>1, <1>2, EvidenceGrows DEF StoreInv
<1> QED
  BY <1>1, <1>2, <1>3, <1>7, <1>8
     DEF StoreInv, StoreTypeOK, ChannelBinding, LifecycleConsistent, SessionExists,
         TurnIndexesAreDense, RowsOf

\* Only a finished session is scored, against the report it has then.
LEMMA ScoreSessionKeepsInv ==
  ASSUME StoreInv, ScoreSession
  PROVE  StoreInv'
<1>1. PICK id \in DOMAIN sessions :
        /\ Terminal(id)
        /\ \E evidence \in SUBSET ReportEvidence(id) :
             SaveSessionEvaluation(id, [evidence |-> evidence])
  BY DEF ScoreSession
<1>2. PICK evidence \in SUBSET ReportEvidence(id) :
        SaveSessionEvaluation(id, [evidence |-> evidence])
  BY <1>1
<1> DEFINE score == [evidence |-> evidence]
<1>3. /\ sessions' = [sessions EXCEPT ![id].evaluation = score]
      /\ UNCHANGED <<sessionIdByExternal, sessionIdempotency, turns, toolCalls, events>>
  BY <1>2 DEF SaveSessionEvaluation
<1>4. ReportEvidence(id) \subseteq RowKeys
  BY DEF StoreInv, StoreTypeOK, ReportEvidence, KeysOf, RowsOf,
         TurnRecords, ToolInputs, EventInputs
<1>5. score \in Evaluations
  BY <1>4 DEF Evaluations
<1>6. score.evidence \subseteq ReportEvidence(id)
  OBVIOUS
<1> HIDE DEF score
<1> DEFINE rec == [sessions[id] EXCEPT !.evaluation = score]
<1>7. sessions[id] \in SessionRecords
  BY DEF StoreInv, StoreTypeOK
<1>8. /\ rec \in SessionRecords
      /\ rec.evaluation = score
      /\ rec.businessStatus = sessions[id].businessStatus
      /\ rec.externalChannelId = sessions[id].externalChannelId
      /\ Coherent(rec)
  <2>1. Coherent(sessions[id])
    BY DEF StoreInv, LifecycleConsistent, Coherent
  <2> QED
    BY <1>5, <1>7, <2>1 DEF SessionRecords, Optional, Coherent
<1>9. sessions' = Put(id, rec)
  BY <1>3, <1>7 DEF Put, StoreInv, StoreTypeOK
<1> HIDE DEF rec
<1>10. /\ DOMAIN sessions' \subseteq SessionIds
       /\ sessions' \in [DOMAIN sessions' -> SessionRecords]
       /\ LifecycleConsistent'
       /\ EvaluationOnlyWhenFinished'
  <2>1. id \in SessionIds
    BY DEF StoreInv, StoreTypeOK
  <2>2. UNCHANGED <<turns, toolCalls, events>>
    BY <1>3
  <2>3. rec.evaluation # NoValue =>
          /\ rec.businessStatus \in {"completed", "failed"}
          /\ rec.evaluation.evidence \subseteq ReportEvidence(id)
    BY <1>1, <1>6, <1>8 DEF Terminal
  <2> QED
    BY <1>8, <1>9, <2>1, <2>2, <2>3, PutKeepsRecords
<1>11. ChannelBinding'
  BY <1>3, <1>8, <1>9 DEF StoreInv, ChannelBinding, Put, SessionExists
<1> QED
  BY <1>3, <1>10, <1>11
     DEF StoreInv, StoreTypeOK, OneRowPerKey, TurnIndexesAreDense, RowsOf

-----------------------------------------------------------------------------
(* The invariant, and what follows from it.                                *)

\* The empty store is consistent.
LEMMA InitInv == StoreInit => StoreInv
<1> SUFFICES ASSUME StoreInit PROVE StoreInv
  OBVIOUS
<1>1. /\ DOMAIN sessions = {} /\ DOMAIN sessionIdByExternal = {}
      /\ turns = {} /\ toolCalls = {} /\ events = {} /\ sessionIdempotency = {}
      /\ sessions = [x \in {} |-> NoValue] /\ sessionIdByExternal = [x \in {} |-> NoValue]
  BY DEF StoreInit, EmptyMap
<1>2. TurnIndexesAreDense
  <2>1. \A id : RowsOf(turns, id) = {}
    BY <1>1 DEF RowsOf
  <2>2. 0 .. (0 - 1) = {}
    OBVIOUS
  <2> QED
    BY <2>1, <2>2, FS_EmptySet DEF TurnIndexesAreDense
<1> QED
  BY <1>1, <1>2, FS_EmptySet
     DEF StoreInv, StoreTypeOK, ChannelBinding, LifecycleConsistent,
         EvaluationOnlyWhenFinished, OneRowPerKey

\* Every step of the store keeps the invariant.
LEMMA NextInv == StoreInv /\ [StoreNext]_storeVars => StoreInv'
<1> SUFFICES ASSUME StoreInv, [StoreNext]_storeVars PROVE StoreInv'
  OBVIOUS
<1>1. CASE \E in \in UpsertInputs : UpsertSession(in)
  BY <1>1, ReplayKeepsInv, ApplyKeepsInv DEF UpsertSession
<1>2. CASE \E in \in TurnInputs : RecordTurn(in)
  BY <1>2, RecordTurnKeepsInv
<1>3. CASE \E event \in EventInputs : RecordSpan(event)
  BY <1>3, RecordToolSpanKeepsInv
<1>4. CASE \E event \in EventInputs, call \in ToolInputs : RecordToolSpan(event, call)
  BY <1>4, RecordToolSpanKeepsInv
<1>5. CASE ScoreSession
  BY <1>5, ScoreSessionKeepsInv
<1>6. CASE UNCHANGED storeVars
  BY <1>6 DEF storeVars, StoreInv, StoreTypeOK, ChannelBinding, LifecycleConsistent,
     EvaluationOnlyWhenFinished, OneRowPerKey, TurnIndexesAreDense, SessionExists,
     Terminal, ReportEvidence, RowsOf, KeysOf
<1> QED
  BY <1>1, <1>2, <1>3, <1>4, <1>5, <1>6 DEF StoreNext

\* The strengthened invariant holds of every store (MemoryPersistence).
THEOREM StoreInvariance == StoreSpec => []StoreInv
<1> QED
  BY InitInv, NextInv, PTL DEF StoreSpec

\* Every record of the store has its type; no duration is negative.
THEOREM StoreTypeCorrect == StoreSpec => []StoreTypeOK
<1>1. StoreInv => StoreTypeOK
  BY DEF StoreInv
<1> QED
  BY <1>1, StoreInvariance, PTL

\* A channel and its session always name each other (resolveExisting).
THEOREM ChannelsAreBound == StoreSpec => []ChannelBinding
<1>1. StoreInv => ChannelBinding
  BY DEF StoreInv
<1> QED
  BY <1>1, StoreInvariance, PTL

\* Out of order and repeated events never leave a half-ended call
\* (upsertSession).
THEOREM CallsEndAsOne == StoreSpec => []LifecycleConsistent
<1>1. StoreInv => LifecycleConsistent
  BY DEF StoreInv
<1> QED
  BY <1>1, StoreInvariance, PTL

\* Scores are only on finished calls and of evidence still in the report
\* (saveSessionEvaluation).
THEOREM ScoresAreFounded == StoreSpec => []EvaluationOnlyWhenFinished
<1>1. StoreInv => EvaluationOnlyWhenFinished
  BY DEF StoreInv
<1> QED
  BY <1>1, StoreInvariance, PTL

\* The turns of each session are numbered 0 .. n-1 (recordTurn).
THEOREM TurnsAreDense == StoreSpec => []TurnIndexesAreDense
<1>1. StoreInv => TurnIndexesAreDense
  BY DEF StoreInv
<1> QED
  BY <1>1, StoreInvariance, PTL

\* A key has one row (turnKeys, toolKeys, eventKeys).
THEOREM KeysAreUnique == StoreSpec => []OneRowPerKey
<1>1. StoreInv => OneRowPerKey
  BY DEF StoreInv
<1> QED
  BY <1>1, StoreInvariance, PTL

-----------------------------------------------------------------------------
(* What no step may do.                                                    *)

\* An upsert through a bound channel resolves to the session the channel has,
\* so rebinding it changes nothing.
LEMMA StepKeepsBinding ==
  StoreInv /\ [StoreNext]_storeVars =>
    \A c \in DOMAIN sessionIdByExternal :
      /\ c \in DOMAIN sessionIdByExternal'
      /\ sessionIdByExternal'[c] = sessionIdByExternal[c]
<1> SUFFICES ASSUME StoreInv, [StoreNext]_storeVars,
                    NEW c \in DOMAIN sessionIdByExternal
             PROVE  /\ c \in DOMAIN sessionIdByExternal'
                    /\ sessionIdByExternal'[c] = sessionIdByExternal[c]
  OBVIOUS
<1>1. CASE UNCHANGED sessionIdByExternal
  BY <1>1
<1>2. ASSUME NEW in \in UpsertInputs, UpsertSession(in)
      PROVE  \/ UNCHANGED sessionIdByExternal
             \/ sessionIdByExternal' = Bound(in, ResolvedId(in))
  BY <1>2 DEF UpsertSession, ReplayUpsert, ApplyUpsert
<1>3. CASE \E in \in UpsertInputs : sessionIdByExternal' = Bound(in, ResolvedId(in))
  BY <1>3 DEF Bound, ResolvedId
<1>4. \/ UNCHANGED sessionIdByExternal
      \/ \E in \in UpsertInputs : sessionIdByExternal' = Bound(in, ResolvedId(in))
  BY <1>2 DEF StoreNext, storeVars, RecordTurn, RecordSpan, RecordToolSpan,
     ScoreSession, SaveSessionEvaluation
<1> QED
  BY <1>1, <1>3, <1>4

\* The events of a call are never split between two sessions
\* (sessionIdByExternal).
THEOREM BindingsArePermanent == StoreSpec => BindingIsPermanent
<1> QED
  BY StoreInvariance, StepKeepsBinding, PTL DEF StoreSpec, BindingIsPermanent

\* The record an upsert writes keeps a finished session finished and scored.
LEMMA StepKeepsFinished ==
  StoreInv /\ [StoreNext]_storeVars =>
    \A id \in DOMAIN sessions :
      /\ id \in DOMAIN sessions'
      /\ Terminal(id) => Terminal(id)'
      /\ sessions[id].evaluation # NoValue => sessions'[id].evaluation # NoValue
<1> SUFFICES ASSUME StoreInv, [StoreNext]_storeVars, NEW id \in DOMAIN sessions
             PROVE  /\ id \in DOMAIN sessions'
                    /\ Terminal(id) => Terminal(id)'
                    /\ sessions[id].evaluation # NoValue => sessions'[id].evaluation # NoValue
  OBVIOUS
<1>1. CASE UNCHANGED sessions
  BY <1>1 DEF Terminal
<1>2. ASSUME NEW in \in UpsertInputs, UpsertSession(in)
      PROVE  \/ UNCHANGED sessions
             \/ /\ ~SessionExists(ResolvedId(in))
                /\ sessions' = Put(in.sessionId, NewSession(in.occurredAt))
             \/ sessions' = Put(ResolvedId(in), Upserted(in))
  BY <1>2 DEF UpsertSession, ReplayUpsert, ApplyUpsert, Upserted
<1>3. ASSUME NEW in \in UpsertInputs, ~SessionExists(ResolvedId(in)),
             sessions' = Put(in.sessionId, NewSession(in.occurredAt))
      PROVE  /\ id \in DOMAIN sessions'
             /\ sessions'[id] = sessions[id]
  <2>1. ResolvedId(in) = in.sessionId
    BY <1>3 DEF ResolvedId, StoreInv, ChannelBinding
  <2> QED
    BY <1>3, <2>1 DEF Put, SessionExists
<1>4. ASSUME NEW in \in UpsertInputs, sessions' = Put(ResolvedId(in), Upserted(in))
      PROVE  /\ id \in DOMAIN sessions'
             /\ Terminal(id) => Terminal(id)'
             /\ sessions[id].evaluation # NoValue => sessions'[id].evaluation # NoValue
  <2>1. CASE id = ResolvedId(in)
    <3>1. id \in DOMAIN sessions' /\ sessions'[id] = Upserted(in)
      BY <1>4, <2>1 DEF Put
    <3>2. /\ Terminal(id) => Upserted(in).businessStatus \in {"completed", "failed"}
          /\ Upserted(in).evaluation = sessions[id].evaluation
      BY <2>1, UpsertedFacts DEF SessionExists
    <3> QED
      BY <3>1, <3>2 DEF Terminal
  <2>2. CASE id # ResolvedId(in)
    BY <1>4, <2>2 DEF Put, Terminal
  <2> QED
    BY <2>1, <2>2
<1>5. CASE ScoreSession
  <2>0. PICK x \in DOMAIN sessions :
          \E evidence \in SUBSET ReportEvidence(x) :
            sessions' = [sessions EXCEPT ![x].evaluation = [evidence |-> evidence]]
    BY <1>5 DEF ScoreSession, SaveSessionEvaluation
  <2>1. PICK evidence \in SUBSET ReportEvidence(x) :
          sessions' = [sessions EXCEPT ![x].evaluation = [evidence |-> evidence]]
    BY <2>0
  <2>2. [evidence |-> evidence] # NoValue
    <3>1. ReportEvidence(x) \subseteq RowKeys
      BY DEF StoreInv, StoreTypeOK, ReportEvidence, KeysOf, RowsOf,
             TurnRecords, ToolInputs, EventInputs
    <3> QED
      BY <3>1, NoValueAssumption DEF Evaluations
  <2>3. sessions[id] \in SessionRecords
    BY DEF StoreInv, StoreTypeOK
  <2> DEFINE score == [evidence |-> evidence]
  <2> HIDE DEF score
  <2> QED
    BY <2>1, <2>2, <2>3 DEF Terminal, SessionRecords, score
<1>6. CASE \E in \in UpsertInputs : UpsertSession(in)
  BY <1>1, <1>2, <1>3, <1>4, <1>6 DEF Terminal
<1>7. \/ UNCHANGED sessions
      \/ \E in \in UpsertInputs : UpsertSession(in)
      \/ ScoreSession
  BY DEF StoreNext, storeVars, RecordTurn, RecordSpan, RecordToolSpan
<1> QED
  BY <1>1, <1>5, <1>6, <1>7

\* No late event reopens a finished call or drops its score (upsertSession).
THEOREM FinishedStaysFinished == StoreSpec => FinishedIsForever
<1> QED
  BY StoreInvariance, StepKeepsFinished, PTL DEF StoreSpec, FinishedIsForever

\* No call of the store drops a row.
LEMMA StepKeepsRows ==
  StoreInv /\ [StoreNext]_storeVars =>
    turns \subseteq turns' /\ toolCalls \subseteq toolCalls' /\ events \subseteq events'
  BY DEF StoreNext, storeVars, UpsertSession, RecordTurn, RecordSpan, RecordToolSpan,
     ScoreSession, SaveSessionEvaluation, AddTurn, AddToolCall, AddEvent

\* Rows are only added (recordTurn, recordToolCall, recordExecutionEvent).
THEOREM RowsAreKept == StoreSpec => RowsAreNeverRewritten
<1> QED
  BY StepKeepsRows, StoreInvariance, PTL DEF StoreSpec, RowsAreNeverRewritten
=============================================================================
