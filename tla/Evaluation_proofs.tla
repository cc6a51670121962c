------------------------- MODULE Evaluation_proofs -------------------------
(***************************************************************************)
(* Theorems about the two judges of the system: the scorer of finished     *)
(* calls, for any tools, results, texts and rows of either store, and the  *)
(* offline quality gate, for any suites, any membership list, any baseline *)
(* and any edits of them.                                                  *)
(***************************************************************************)
EXTENDS QualityGate, SessionCallScore, FiniteSetTheorems, TLAPS

(***************************************************************************)
(* The scorer of calls.                                                    *)
(***************************************************************************)

\* A finite set of integers has a least member.
LEMMA MinFacts ==
  ASSUME NEW S \in SUBSET Int, IsFiniteSet(S), S # {}
  PROVE  Min(S) \in S /\ \A y \in S : Min(S) <= y
<1> DEFINE Below(x) == {y \in S : y <= x}
           belows == {Below(x) : x \in S}
<1>1. belows # {} /\ belows \subseteq FiniteSubsetsOf(S)
  <2>1. \A x \in S : Below(x) \in SUBSET S /\ IsFiniteSet(Below(x))
    BY FS_Subset
  <2> HIDE DEF Below
  <2> QED
    BY <2>1 DEF FiniteSubsetsOf
<1>2. IsWellFoundedOn(StrictSubsetOrdering(S), FiniteSubsetsOf(S))
  BY FS_StrictSubsetOrderingWellFounded
<1>3. \E b \in belows : \A c \in belows : <<c, b>> \notin StrictSubsetOrdering(S)
  <2> HIDE DEF belows
  <2> QED
    BY <1>1, <1>2, WFMin
<1>4. PICK x \in S : \A y \in S : <<Below(y), Below(x)>> \notin StrictSubsetOrdering(S)
  BY <1>3
<1>5. ASSUME NEW y \in S PROVE x <= y
  <2> SUFFICES ASSUME y < x PROVE FALSE
    OBVIOUS
  <2>1. x \in Int /\ y \in Int
    OBVIOUS
  <2>2. Below(y) \subseteq Below(x) /\ x \in Below(x) /\ x \notin Below(y)
    <3>1. ASSUME NEW z \in S, z <= y PROVE z <= x
      <4>1. z \in Int
        OBVIOUS
      <4> QED
        BY <2>1, <3>1, <4>1
    <3>2. x <= x /\ ~(x <= y)
      BY <2>1
    <3> QED
      BY <3>1, <3>2
  <2>3. Below(x) \in SUBSET S /\ Below(y) \in SUBSET S
    OBVIOUS
  <2> HIDE DEF Below
  <2> QED
    BY <1>4, <2>2, <2>3 DEF StrictSubsetOrdering
<1> QED
  BY <1>5 DEF Min

\* And a greatest one.
LEMMA MaxFacts ==
  ASSUME NEW S \in SUBSET Int, IsFiniteSet(S), S # {}
  PROVE  Max(S) \in S /\ \A y \in S : Max(S) >= y
<1> DEFINE Above(x) == {y \in S : y >= x}
           aboves == {Above(x) : x \in S}
<1>1. aboves # {} /\ aboves \subseteq FiniteSubsetsOf(S)
  <2>1. \A x \in S : Above(x) \in SUBSET S /\ IsFiniteSet(Above(x))
    BY FS_Subset
  <2> HIDE DEF Above
  <2> QED
    BY <2>1 DEF FiniteSubsetsOf
<1>2. IsWellFoundedOn(StrictSubsetOrdering(S), FiniteSubsetsOf(S))
  BY FS_StrictSubsetOrderingWellFounded
<1>3. \E b \in aboves : \A c \in aboves : <<c, b>> \notin StrictSubsetOrdering(S)
  <2> HIDE DEF aboves
  <2> QED
    BY <1>1, <1>2, WFMin
<1>4. PICK x \in S : \A y \in S : <<Above(y), Above(x)>> \notin StrictSubsetOrdering(S)
  BY <1>3
<1>5. ASSUME NEW y \in S PROVE x >= y
  <2> SUFFICES ASSUME y > x PROVE FALSE
    OBVIOUS
  <2>1. x \in Int /\ y \in Int
    OBVIOUS
  <2>2. Above(y) \subseteq Above(x) /\ x \in Above(x) /\ x \notin Above(y)
    <3>1. ASSUME NEW z \in S, z >= y PROVE z >= x
      <4>1. z \in Int
        OBVIOUS
      <4> QED
        BY <2>1, <3>1, <4>1
    <3>2. x >= x /\ ~(x >= y)
      BY <2>1
    <3> QED
      BY <3>1, <3>2
  <2>3. Above(x) \in SUBSET S /\ Above(y) \in SUBSET S
    OBVIOUS
  <2> HIDE DEF Above
  <2> QED
    BY <1>4, <2>2, <2>3 DEF StrictSubsetOrdering
<1> QED
  BY <1>5 DEF Max

CallRecords ==
  [id : Nat, source : {"channel", "agent"}, toolName : DemoTools \cup OtherTools,
   status : Statuses, result : Seq(Leaves), brought : Seq(Leaves)]
TurnRecords == [id : Nat, role : {"user", "assistant"}, text : Texts]

\* Some demo tool succeeded.
Selected ==
  \E i \in DOMAIN toolCalls : toolCalls[i].toolName \in DemoTools /\ toolCalls[i].status = "succeeded"

\* What turns, and tool calls, a scorer has read tell it.
SawBreach(turns) == \E i \in DOMAIN turns : turns[i].text.breach
SawSuccess(calls) ==
  \E i \in DOMAIN calls : calls[i].toolName \in DemoTools /\ calls[i].status = "succeeded"

\* Rows are numbered as they come.
RowsInv ==
  /\ toolCalls \in Seq(CallRecords) /\ transcript \in Seq(TurnRecords)
  /\ \A i \in DOMAIN toolCalls : toolCalls[i].id = i
  /\ \A i \in DOMAIN transcript : transcript[i].id = i
  /\ finished \in BOOLEAN

\* What an evaluation says of the rows is still true of them: they only grow.
Founded(verdicts) ==
  /\ verdicts.policy_compliance = "unmet" => Breached
  /\ verdicts.tool_selection = "met" => Selected

EvaluationFounded == evaluation # NoValue => Founded(evaluation)

\* What a scorer has read is true of the rows, and what it read after the
\* session's own row bears out the evaluation found there.
ScorerInv(s) ==
  /\ stage[s] \in {"idle", "turns", "tools", "save"}
  /\ stage[s] # "idle" =>
       /\ finished
       /\ read[s] = [toolCalls  |-> read[s].toolCalls, transcript |-> read[s].transcript,
                     evaluation |-> read[s].evaluation]
       /\ read[s].evaluation # NoValue => Founded(read[s].evaluation)
  /\ stage[s] \in {"tools", "save"} =>
       /\ SawBreach(read[s].transcript) => Breached
       /\ read[s].evaluation # NoValue /\ read[s].evaluation.policy_compliance = "unmet"
            => SawBreach(read[s].transcript)
  /\ stage[s] = "save" =>
       /\ SawSuccess(read[s].toolCalls) => Selected
       /\ read[s].evaluation # NoValue /\ read[s].evaluation.tool_selection = "met"
            => SawSuccess(read[s].toolCalls)

ScoreInv ==
  /\ RowsInv
  /\ ScoreTypeOK
  /\ EvaluationFounded
  /\ DOMAIN stage = Scorers /\ DOMAIN read = Scorers
  /\ \A s \in Scorers : ScorerInv(s)

\* The turns are handed out as they are stored, under some ids.
LEMMA TurnRowsFacts ==
  ASSUME RowsInv
  PROVE  /\ SawBreach(TurnRows) <=> Breached
         /\ (\E i \in DOMAIN TurnRows : TurnRows[i].role = "assistant")
              <=> \E i \in DOMAIN transcript : transcript[i].role = "assistant"
<1>1. CASE ~Hosted
  BY <1>1 DEF TurnRows, SawBreach, Breached
<1>2. CASE Hosted
  <2>1. \A i \in DOMAIN transcript : transcript[i] \in TurnRecords
    BY DEF RowsInv
  <2>2. /\ DOMAIN TurnRows = DOMAIN transcript
        /\ \A i \in DOMAIN transcript :
             /\ TurnRows[i].role = transcript[i].role
             /\ TurnRows[i].text = transcript[i].text
    BY <1>2, <2>1 DEF TurnRows, TurnRecords
  <2> QED
    BY <2>2 DEF SawBreach, Breached
<1> QED
  BY <1>1, <1>2

\* The tool calls come in some order, none left out.
LEMMA ToolRowsFacts ==
  ASSUME RowsInv, NEW calls \in ToolRows
  PROVE  SawSuccess(calls) <=> Selected
<1>1. CASE ~Hosted
  BY <1>1 DEF ToolRows, SawSuccess, Selected
<1>2. CASE Hosted
  <2>1. PICK order \in Bijection(DOMAIN toolCalls, DOMAIN toolCalls) :
          calls = [i \in DOMAIN toolCalls |->
                     [toolCalls[order[i]] EXCEPT !.id = CopyId(order[i])]]
    BY <1>2 DEF ToolRows
  <2>2. /\ \A i \in DOMAIN toolCalls : order[i] \in DOMAIN toolCalls
        /\ \A j \in DOMAIN toolCalls : \E i \in DOMAIN toolCalls : order[i] = j
    BY DEF Bijection, Injection, Surjection
  <2> DEFINE Good(call) == call.toolName \in DemoTools /\ call.status = "succeeded"
  <2>3. ASSUME NEW i \in DOMAIN toolCalls PROVE Good(calls[i]) <=> Good(toolCalls[order[i]])
    <3>1. calls[i] = [toolCalls[order[i]] EXCEPT !.id = CopyId(order[i])]
      BY <2>1
    <3>2. toolCalls[order[i]] \in CallRecords
      <4>1. order[i] \in DOMAIN toolCalls
        BY <2>2
      <4>2. toolCalls \in Seq(CallRecords)
        BY DEF RowsInv
      <4> QED
        BY <4>1, <4>2
    <3> QED
      BY <3>1, <3>2 DEF CallRecords
  <2>4. DOMAIN calls = DOMAIN toolCalls
    BY <2>1
  <2>5. /\ SawSuccess(calls) <=> \E i \in DOMAIN toolCalls : Good(calls[i])
        /\ Selected <=> \E i \in DOMAIN toolCalls : Good(toolCalls[i])
    BY <2>4 DEF SawSuccess, Selected
  <2> HIDE DEF Good
  <2> QED
    BY <2>2, <2>3, <2>5
<1> QED
  BY <1>1, <1>2

\* A report has the rows that are stored.
LEMMA ReportFacts ==
  ASSUME RowsInv, NEW report \in Reports
  PROVE  /\ Succeeded(report) # {} <=> Selected
         /\ AssistantTurns(report) # {} <=> \E i \in DOMAIN transcript : transcript[i].role = "assistant"
         /\ SawBreach(report.transcript) <=> Breached
<1>1. PICK calls \in ToolRows : report = [toolCalls |-> calls, transcript |-> TurnRows]
  BY DEF Reports
<1>2. report.toolCalls = calls /\ report.transcript = TurnRows
  BY <1>1
<1>3. Succeeded(report) # {} <=> SawSuccess(calls)
  BY <1>2 DEF Succeeded, CallsOf, SawSuccess
<1>4. AssistantTurns(report) # {} <=> \E i \in DOMAIN TurnRows : TurnRows[i].role = "assistant"
  BY <1>2 DEF AssistantTurns
<1> QED
  BY <1>2, <1>3, <1>4, ToolRowsFacts, TurnRowsFacts

\* The verdicts, dimension by dimension, without the rows they are read from.
LEMMA VerdictFacts ==
  ASSUME NEW report
  PROVE  LET score == ScoreSessionCall(report)
             breach == \E i \in DOMAIN report.transcript : report.transcript[i].text.breach IN
         /\ score.tool_selection = IF Succeeded(report) # {} THEN "met" ELSE "unmet"
         /\ score.grounded_answer \in Verdicts
         /\ score.grounded_answer = "unmet"
              <=> Succeeded(report) = {} \/ AssistantTurns(report) = {}
         /\ score.goal_achieved = IF Succeeded(report) # {} THEN score.grounded_answer ELSE "unmet"
         /\ score.policy_compliance \in Verdicts
         /\ score.policy_compliance = "unmet" <=> breach
         /\ score.overallStatus =
              DeriveOverall({score.goal_achieved, score.tool_selection, score.grounded_answer,
                             score.policy_compliance})
<1> DEFINE selection == ScoreToolSelection(report)
           grounded  == ScoreGroundedAnswer(report)
           goal      == ScoreGoalAchieved(selection, grounded)
           policy    == ScorePolicyCompliance(report)
           score     == ScoreSessionCall(report)
<1>1. /\ score.tool_selection = selection.verdict /\ score.grounded_answer = grounded.verdict
      /\ score.goal_achieved = goal /\ score.policy_compliance = policy.verdict
      /\ score.overallStatus = DeriveOverall({goal, selection.verdict, grounded.verdict, policy.verdict})
  <2> HIDE DEF selection, grounded, goal, policy
  <2>1. score = [overallStatus |-> DeriveOverall({goal, selection.verdict, grounded.verdict, policy.verdict}),
                 goal_achieved |-> goal, tool_selection |-> selection.verdict,
                 grounded_answer |-> grounded.verdict, policy_compliance |-> policy.verdict,
                 evidence |-> selection.evidence \cup grounded.evidence \cup policy.evidence]
    BY DEF ScoreSessionCall, selection, grounded, goal, policy
  <2> HIDE DEF score
  <2> QED
    BY <2>1
<1>2. selection.verdict = IF Succeeded(report) # {} THEN "met" ELSE "unmet"
  BY DEF ScoreToolSelection
<1>3. /\ grounded.verdict \in Verdicts
      /\ grounded.verdict = "unmet" <=> Succeeded(report) = {} \/ AssistantTurns(report) = {}
  BY DEF ScoreGroundedAnswer, Verdicts
<1>4. goal = IF Succeeded(report) # {} THEN grounded.verdict ELSE "unmet"
  BY <1>2 DEF ScoreGoalAchieved
<1>5. /\ policy.verdict \in Verdicts
      /\ policy.verdict = "unmet" <=>
           \E i \in DOMAIN report.transcript : report.transcript[i].text.breach
  BY DEF ScorePolicyCompliance, Verdicts
<1> HIDE DEF selection, grounded, goal, policy, score
<1> QED
  BY <1>1, <1>2, <1>3, <1>4, <1>5 DEF score

\* Nothing is stored, and nobody scores, at first.
LEMMA ScoreStarts == ScoreInit => ScoreInv
<1> SUFFICES ASSUME ScoreInit PROVE ScoreInv
  OBVIOUS
<1>1. /\ toolCalls = <<>> /\ transcript = <<>> /\ finished = FALSE /\ evaluation = NoValue
      /\ stage = [s \in Scorers |-> "idle"] /\ read = [s \in Scorers |-> NoValue]
  BY DEF ScoreInit
<1>2. <<>> \in Seq(CallRecords) /\ <<>> \in Seq(TurnRecords)
  OBVIOUS
<1>3. DOMAIN toolCalls = {} /\ DOMAIN transcript = {}
  BY <1>1
<1>4. RowsInv
  BY <1>1, <1>2, <1>3 DEF RowsInv
<1>5. \A s \in Scorers : ScorerInv(s)
  BY <1>1 DEF ScorerInv
<1> QED
  BY <1>1, <1>4, <1>5 DEF ScoreInv, ScoreTypeOK, EvaluationFounded

\* A call's row is appended.
LEMMA ToolCallFacts ==
  ASSUME RowsInv, NEW source \in {"channel", "agent"}, NEW toolName \in DemoTools \cup OtherTools,
         NEW status \in Statuses, NEW result \in Results \cup {<<>>},
         RecordToolCall(source, toolName, status, result)
  PROVE  /\ RowsInv'
         /\ \A i \in DOMAIN toolCalls : i \in DOMAIN toolCalls' /\ toolCalls'[i] = toolCalls[i]
<1>1. PICK stored \in IF status = "succeeded" THEN Stored(source, result) ELSE {<<>>} :
        toolCalls' = Append(toolCalls,
          [id |-> Len(toolCalls) + 1, source |-> source, toolName |-> toolName,
           status |-> status, result |-> stored, brought |-> result])
  BY DEF RecordToolCall
<1> DEFINE call == [id |-> Len(toolCalls) + 1, source |-> source, toolName |-> toolName,
                    status |-> status, result |-> stored, brought |-> result]
<1>2. toolCalls \in Seq(CallRecords) /\ UNCHANGED <<transcript, finished>>
  BY DEF RecordToolCall, RowsInv
<1>3. <<>> \in Seq(Leaves) /\ result \in Seq(Leaves)
  <2>1. <<>> \in Seq(Leaves)
    OBVIOUS
  <2>2. \A r \in Results : r \in Seq(Leaves)
    BY RowsAssumption
  <2> QED
    BY <2>1, <2>2
<1>4. stored \in Seq(Leaves)
  <2>1. Flag \in Leaves
    BY RowsAssumption
  <2>2. <<Flag>> \in Seq(Leaves)
    BY <2>1
  <2>3. stored \in {result, <<Flag>>, <<>>}
    BY <1>1 DEF Stored
  <2> QED
    BY <1>3, <2>2, <2>3
<1>5. call \in CallRecords /\ call.id = Len(toolCalls) + 1
  BY <1>2, <1>3, <1>4 DEF CallRecords
<1> HIDE DEF call
<1>6. /\ toolCalls' \in Seq(CallRecords) /\ Len(toolCalls') = Len(toolCalls) + 1
      /\ \A i \in DOMAIN toolCalls : i \in DOMAIN toolCalls' /\ toolCalls'[i] = toolCalls[i]
      /\ toolCalls'[Len(toolCalls) + 1] = call
  BY <1>1, <1>2, <1>5 DEF call
<1>7. \A i \in DOMAIN toolCalls' : toolCalls'[i].id = i
  <2> SUFFICES ASSUME NEW i \in DOMAIN toolCalls' PROVE toolCalls'[i].id = i
    OBVIOUS
  <2>1. i \in DOMAIN toolCalls \/ i = Len(toolCalls) + 1
    BY <1>2, <1>6
  <2> QED
    BY <1>5, <1>6, <2>1 DEF RowsInv
<1> QED
  BY <1>2, <1>6, <1>7 DEF RowsInv

\* A turn is appended.
LEMMA TurnFacts ==
  ASSUME RowsInv, NEW role \in {"user", "assistant"}, NEW text \in Texts, RecordTurn(role, text)
  PROVE  /\ RowsInv'
         /\ \A i \in DOMAIN transcript : i \in DOMAIN transcript' /\ transcript'[i] = transcript[i]
<1> DEFINE turn == [id |-> Len(transcript) + 1, role |-> role, text |-> text]
<1>1. /\ transcript \in Seq(TurnRecords) /\ transcript' = Append(transcript, turn)
      /\ UNCHANGED <<toolCalls, finished>>
  BY DEF RecordTurn, RowsInv
<1>2. turn \in TurnRecords /\ turn.id = Len(transcript) + 1
  BY <1>1 DEF TurnRecords
<1> HIDE DEF turn
<1>3. /\ transcript' \in Seq(TurnRecords) /\ Len(transcript') = Len(transcript) + 1
      /\ \A i \in DOMAIN transcript : i \in DOMAIN transcript' /\ transcript'[i] = transcript[i]
      /\ transcript'[Len(transcript) + 1] = turn
  BY <1>1, <1>2
<1>4. \A i \in DOMAIN transcript' : transcript'[i].id = i
  <2> SUFFICES ASSUME NEW i \in DOMAIN transcript' PROVE transcript'[i].id = i
    OBVIOUS
  <2>1. i \in DOMAIN transcript \/ i = Len(transcript) + 1
    BY <1>1, <1>3
  <2> QED
    BY <1>2, <1>3, <2>1 DEF RowsInv
<1> QED
  BY <1>1, <1>3, <1>4 DEF RowsInv

\* Rows come in, or the call ends: no row is lost, and no scorer notices.
RowsStep ==
  \/ \E source \in {"channel", "agent"}, toolName \in DemoTools \cup OtherTools,
        status \in Statuses, result \in Results \cup {<<>>} :
       RecordToolCall(source, toolName, status, result)
  \/ \E role \in {"user", "assistant"}, text \in Texts : RecordTurn(role, text)
  \/ CallEnds
  \/ UNCHANGED scoreVars

\* The session's rows are only added to, beside its evaluation and its scorers
\* (recordToolCall, recordTurn).
LEMMA RowsStepFacts ==
  ASSUME RowsInv, RowsStep
  PROVE  /\ RowsInv'
         /\ \A i \in DOMAIN toolCalls : i \in DOMAIN toolCalls' /\ toolCalls'[i] = toolCalls[i]
         /\ \A i \in DOMAIN transcript : i \in DOMAIN transcript' /\ transcript'[i] = transcript[i]
         /\ finished => finished'
         /\ UNCHANGED <<evaluation, stage, read>>
<1>1. CASE UNCHANGED scoreVars
  BY <1>1 DEF scoreVars, RowsInv
<1>2. CASE CallEnds
  BY <1>2 DEF CallEnds, RowsInv
<1>3. ASSUME NEW role \in {"user", "assistant"}, NEW text \in Texts, RecordTurn(role, text)
      PROVE  /\ RowsInv'
             /\ \A i \in DOMAIN transcript : i \in DOMAIN transcript' /\ transcript'[i] = transcript[i]
             /\ UNCHANGED <<toolCalls, finished, evaluation, stage, read>>
  BY <1>3, TurnFacts DEF RecordTurn
<1>4. ASSUME NEW source \in {"channel", "agent"}, NEW toolName \in DemoTools \cup OtherTools,
             NEW status \in Statuses, NEW result \in Results \cup {<<>>},
             RecordToolCall(source, toolName, status, result)
      PROVE  /\ RowsInv'
             /\ \A i \in DOMAIN toolCalls : i \in DOMAIN toolCalls' /\ toolCalls'[i] = toolCalls[i]
             /\ UNCHANGED <<transcript, finished, evaluation, stage, read>>
  BY <1>4, ToolCallFacts DEF RecordToolCall
<1> QED
  BY <1>1, <1>2, <1>3, <1>4 DEF RowsStep

\* So rows that come in disturb no verdict, stored or read.
LEMMA RowsKeepInv ==
  ASSUME ScoreInv, RowsStep
  PROVE  ScoreInv'
<1>1. RowsInv
  BY DEF ScoreInv
<1>2. /\ RowsInv'
      /\ finished => finished'
      /\ UNCHANGED <<evaluation, stage, read>>
  BY <1>1, RowsStepFacts
<1>3. (Breached => Breached') /\ (Selected => Selected')
  BY <1>1, RowsStepFacts DEF Breached, Selected
<1>5. EvaluationFounded'
  BY <1>2, <1>3 DEF ScoreInv, EvaluationFounded, Founded
<1>6. ScoreTypeOK'
  BY <1>1, <1>2, RowsStepFacts DEF ScoreInv, ScoreTypeOK
<1>7. ASSUME NEW s \in Scorers PROVE ScorerInv(s)'
  <2>1. ScorerInv(s)
    BY DEF ScoreInv
  <2>2. stage'[s] = stage[s] /\ read'[s] = read[s]
    BY <1>2
  <2>3. stage[s] # "idle" => finished'
    BY <1>1, <2>1, RowsStepFacts DEF ScorerInv
  <2>4. stage[s] # "idle" /\ read[s].evaluation # NoValue => Founded(read[s].evaluation)'
    BY <1>3, <2>1, <2>2 DEF ScorerInv, Founded
  <2>5. (SawBreach(read[s].transcript) = SawBreach(read'[s].transcript))
        /\ (SawSuccess(read[s].toolCalls) = SawSuccess(read'[s].toolCalls))
    BY <2>2
  <2> QED
    BY <1>3, <2>1, <2>2, <2>3, <2>4 DEF ScorerInv, SawBreach, SawSuccess
<1>8. DOMAIN stage' = Scorers /\ DOMAIN read' = Scorers
  BY <1>2 DEF ScoreInv
<1> QED
  BY <1>2, <1>5, <1>6, <1>7, <1>8 DEF ScoreInv

\* A new evaluation says of the rows what its report says.
LEMMA SavedFacts ==
  ASSUME ScoreInv, NEW s \in Scorers, SaveEvaluation(s)
  PROVE  /\ ScoreTypeOK'
         /\ evaluation'.policy_compliance = "unmet" <=> SawBreach(read[s].transcript)
         /\ evaluation'.tool_selection = IF SawSuccess(read[s].toolCalls) THEN "met" ELSE "unmet"
<1> DEFINE score == ScoreSessionCall(read[s])
<1>1. evaluation' = score /\ finished' = finished /\ finished
  BY DEF SaveEvaluation, rowVars, ScoreInv, ScorerInv
<1>2. {score.goal_achieved, score.tool_selection, score.grounded_answer, score.policy_compliance}
        \subseteq Verdicts
  BY VerdictFacts DEF Verdicts
<1>3. score.overallStatus \in {"passed", "partial", "failed"}
  BY VerdictFacts DEF DeriveOverall
<1>4. score.policy_compliance = "unmet" <=> SawBreach(read[s].transcript)
  BY VerdictFacts DEF SawBreach
<1>5. Succeeded(read[s]) # {} <=> SawSuccess(read[s].toolCalls)
  BY DEF Succeeded, CallsOf, SawSuccess
<1>6. score.tool_selection = IF SawSuccess(read[s].toolCalls) THEN "met" ELSE "unmet"
  BY <1>5, VerdictFacts
<1> HIDE DEF score
<1> QED
  BY <1>1, <1>2, <1>3, <1>4, <1>6 DEF ScoreTypeOK

\* A scorer's step keeps what is known of every scorer, once it does of its own.
LEMMA OthersUndisturbed ==
  ASSUME ScoreInv, NEW s \in Scorers, NEW next, NEW rows, UNCHANGED rowVars,
         stage' = [stage EXCEPT ![s] = next], read' = [read EXCEPT ![s] = rows],
         ScorerInv(s)'
  PROVE  /\ RowsInv'
         /\ DOMAIN stage' = Scorers /\ DOMAIN read' = Scorers
         /\ \A t \in Scorers : ScorerInv(t)'
         /\ Breached' = Breached /\ Selected' = Selected
<1>1. RowsInv'
  BY DEF ScoreInv, RowsInv, rowVars
<1>2. Breached' = Breached /\ Selected' = Selected /\ finished' = finished
  BY DEF rowVars, Breached, Selected
<1>3. DOMAIN stage' = Scorers /\ DOMAIN read' = Scorers
  BY DEF ScoreInv
<1>4. ASSUME NEW t \in Scorers PROVE ScorerInv(t)'
  <2>1. CASE t = s
    BY <2>1
  <2>2. CASE t # s
    <3>1. stage'[t] = stage[t] /\ read'[t] = read[t]
      BY <2>2 DEF ScoreInv
    <3>2. ScorerInv(t)
      BY DEF ScoreInv
    <3> QED
      BY <1>2, <3>1, <3>2 DEF ScorerInv, Founded, SawBreach, SawSuccess
  <2> QED
    BY <2>1, <2>2
<1> QED
  BY <1>1, <1>2, <1>3, <1>4

\* Reading, one table after another, and storing keep the invariant.
LEMMA ScoringKeepsInv ==
  ASSUME ScoreInv, NEW s \in Scorers, EnsureSessionEvaluation(s)
  PROVE  ScoreInv'
<1>1. UNCHANGED rowVars /\ s \in DOMAIN stage /\ s \in DOMAIN read
  BY DEF EnsureSessionEvaluation, ReadSession, ReadTurns, ReadTools, SaveEvaluation, ScoreInv
<1>2. RowsInv /\ ScorerInv(s)
  BY DEF ScoreInv
<1>3. Breached' = Breached /\ Selected' = Selected /\ finished' = finished
  BY <1>1 DEF rowVars, Breached, Selected
<1>4. ASSUME evaluation' = evaluation PROVE ScoreTypeOK' /\ EvaluationFounded'
  BY <1>3, <1>4 DEF ScoreInv, ScoreTypeOK, EvaluationFounded, Founded
<1>5. ASSUME NEW force \in BOOLEAN, ReadSession(s, force) PROVE ScoreInv'
  <2> DEFINE rows == [toolCalls  |-> IF Hosted THEN <<>> ELSE toolCalls,
                      transcript |-> IF Hosted THEN <<>> ELSE TurnRows,
                      evaluation |-> evaluation]
             next == IF Hosted THEN "turns" ELSE "save"
  <2>1. /\ finished /\ evaluation' = evaluation
        /\ stage' = [stage EXCEPT ![s] = next] /\ read' = [read EXCEPT ![s] = rows]
    BY <1>5 DEF ReadSession
  <2>2. /\ rows = [toolCalls |-> rows.toolCalls, transcript |-> rows.transcript,
                   evaluation |-> rows.evaluation]
        /\ rows.evaluation = evaluation
        /\ ~Hosted => rows.toolCalls = toolCalls /\ rows.transcript = transcript
    BY DEF TurnRows
  <2>3. /\ next \in {"turns", "save"}
        /\ next = "save" => ~Hosted
    OBVIOUS
  <2>4. /\ SawBreach(transcript) <=> Breached
        /\ SawSuccess(toolCalls) <=> Selected
    BY DEF SawBreach, Breached, SawSuccess, Selected
  <2>5. evaluation # NoValue => Founded(evaluation)
    BY DEF ScoreInv, EvaluationFounded
  <2> HIDE DEF rows, next
  <2>6. stage'[s] = next /\ read'[s] = rows
    BY <1>1, <2>1
  <2>7. rows.evaluation # NoValue =>
          /\ rows.evaluation.policy_compliance = "unmet" => Breached
          /\ rows.evaluation.tool_selection = "met" => Selected
    BY <2>2, <2>5 DEF Founded
  <2>8. next = "save" =>
          /\ SawBreach(rows.transcript) <=> Breached
          /\ SawSuccess(rows.toolCalls) <=> Selected
    BY <2>2, <2>3, <2>4
  <2>9. next = "save" /\ evaluation # NoValue =>
          /\ evaluation.policy_compliance = "unmet" => SawBreach(rows.transcript)
          /\ evaluation.tool_selection = "met" => SawSuccess(rows.toolCalls)
    BY <2>5, <2>8 DEF Founded
  <2>10. /\ finished'
         /\ read'[s] = [toolCalls  |-> read'[s].toolCalls, transcript |-> read'[s].transcript,
                        evaluation |-> read'[s].evaluation]
         /\ read'[s].evaluation # NoValue => Founded(read[s].evaluation)'
    BY <1>3, <2>1, <2>2, <2>6, <2>7 DEF Founded
  <2>11. next = "save" =>
          /\ SawBreach(read[s].transcript)' => Breached'
          /\ SawSuccess(read[s].toolCalls)' => Selected'
          /\ read'[s].evaluation # NoValue =>
               /\ read'[s].evaluation.policy_compliance = "unmet" => SawBreach(read[s].transcript)'
               /\ read'[s].evaluation.tool_selection = "met" => SawSuccess(read[s].toolCalls)'
    BY <1>3, <2>2, <2>6, <2>8, <2>9 DEF SawBreach, SawSuccess
  <2>12. /\ stage'[s] \in {"turns", "save"}
         /\ stage'[s] = "save" => next = "save"
    BY <2>3, <2>6
  <2>13. ScorerInv(s)'
    BY <2>10, <2>11, <2>12 DEF ScorerInv
  <2> QED
    BY <1>1, <1>4, <2>1, <2>13, OthersUndisturbed DEF ScoreInv
<1>6. ASSUME ReadTurns(s) PROVE ScoreInv'
  <2> DEFINE rows == [read[s] EXCEPT !.transcript = TurnRows]
  <2>1. /\ stage[s] = "turns" /\ evaluation' = evaluation
        /\ stage' = [stage EXCEPT ![s] = "tools"] /\ read' = [read EXCEPT ![s] = rows]
    BY <1>1, <1>6 DEF ReadTurns
  <2>2. /\ finished
        /\ read[s] = [toolCalls  |-> read[s].toolCalls, transcript |-> read[s].transcript,
                      evaluation |-> read[s].evaluation]
        /\ read[s].evaluation # NoValue => Founded(read[s].evaluation)
    BY <1>2, <2>1 DEF ScorerInv
  <2>3. /\ rows = [toolCalls |-> rows.toolCalls, transcript |-> rows.transcript,
                   evaluation |-> rows.evaluation]
        /\ rows.evaluation = read[s].evaluation /\ rows.transcript = TurnRows
    BY <2>2
  <2> HIDE DEF rows
  <2>4. stage'[s] = "tools" /\ read'[s] = rows
    BY <1>1, <2>1
  <2>5. SawBreach(rows.transcript) <=> Breached
    BY <1>2, <2>3, TurnRowsFacts
  <2>6. ScorerInv(s)'
    BY <1>3, <2>2, <2>3, <2>4, <2>5 DEF ScorerInv, Founded, SawBreach, SawSuccess
  <2> QED
    BY <1>1, <1>4, <2>1, <2>6, OthersUndisturbed DEF ScoreInv
<1>7. ASSUME ReadTools(s) PROVE ScoreInv'
  <2>1. PICK calls \in ToolRows : read' = [read EXCEPT ![s].toolCalls = calls]
    BY <1>7 DEF ReadTools
  <2> DEFINE rows == [read[s] EXCEPT !.toolCalls = calls]
  <2>2. /\ stage[s] = "tools" /\ evaluation' = evaluation
        /\ stage' = [stage EXCEPT ![s] = "save"] /\ read' = [read EXCEPT ![s] = rows]
    BY <1>1, <1>7, <2>1 DEF ReadTools
  <2>3. /\ finished
        /\ read[s] = [toolCalls  |-> read[s].toolCalls, transcript |-> read[s].transcript,
                      evaluation |-> read[s].evaluation]
        /\ read[s].evaluation # NoValue => Founded(read[s].evaluation)
        /\ SawBreach(read[s].transcript) => Breached
        /\ read[s].evaluation # NoValue /\ read[s].evaluation.policy_compliance = "unmet"
             => SawBreach(read[s].transcript)
    BY <1>2, <2>2 DEF ScorerInv
  <2>4. /\ rows = [toolCalls |-> rows.toolCalls, transcript |-> rows.transcript,
                   evaluation |-> rows.evaluation]
        /\ rows.evaluation = read[s].evaluation /\ rows.transcript = read[s].transcript
        /\ rows.toolCalls = calls
    BY <2>3
  <2> HIDE DEF rows
  <2>5. stage'[s] = "save" /\ read'[s] = rows
    BY <1>1, <2>2
  <2>6. SawSuccess(rows.toolCalls) <=> Selected
    BY <1>2, <2>4, ToolRowsFacts
  <2>7. ScorerInv(s)'
    BY <1>3, <2>3, <2>4, <2>5, <2>6 DEF ScorerInv, Founded, SawBreach, SawSuccess
  <2> QED
    BY <1>1, <1>4, <2>2, <2>7, OthersUndisturbed DEF ScoreInv
<1>8. ASSUME SaveEvaluation(s) PROVE ScoreInv'
  <2>1. /\ stage[s] = "save"
        /\ stage' = [stage EXCEPT ![s] = "idle"] /\ read' = [read EXCEPT ![s] = NoValue]
    BY <1>8 DEF SaveEvaluation
  <2>2. /\ ScoreTypeOK'
        /\ evaluation'.policy_compliance = "unmet" <=> SawBreach(read[s].transcript)
        /\ evaluation'.tool_selection = IF SawSuccess(read[s].toolCalls) THEN "met" ELSE "unmet"
    BY <1>8, SavedFacts
  <2>3. /\ SawBreach(read[s].transcript) => Breached
        /\ SawSuccess(read[s].toolCalls) => Selected
    BY <1>2, <2>1 DEF ScorerInv
  <2>4. EvaluationFounded'
    BY <1>3, <2>2, <2>3 DEF EvaluationFounded, Founded
  <2>5. stage'[s] = "idle"
    BY <1>1, <2>1
  <2>6. ScorerInv(s)'
    BY <2>5 DEF ScorerInv
  <2> QED
    BY <1>1, <2>1, <2>2, <2>4, <2>6, OthersUndisturbed DEF ScoreInv
<1> QED
  BY <1>5, <1>6, <1>7, <1>8 DEF EnsureSessionEvaluation

\* Every step keeps the invariant.
LEMMA ScoreSteps == ScoreInv /\ [ScoreNext]_scoreVars => ScoreInv'
<1> SUFFICES ASSUME ScoreInv, [ScoreNext]_scoreVars PROVE ScoreInv'
  OBVIOUS
<1>1. RowsStep \/ \E s \in Scorers : EnsureSessionEvaluation(s)
  BY DEF ScoreNext, RowsStep
<1> QED
  BY <1>1, RowsKeepInv, ScoringKeepsInv

\* The verdicts of the domain, and only of finished sessions.
THEOREM ScoresAreTyped == ScoreSpec => []ScoreTypeOK
<1>1. ScoreInv => ScoreTypeOK
  BY DEF ScoreInv
<1> QED
  BY <1>1, ScoreStarts, ScoreSteps, PTL DEF ScoreSpec

\* Whatever order the rows are reported in, a call fails exactly when no demo tool
\* succeeded, nobody answered, or somebody breached the policy.
THEOREM CallsFailForAReason == ScoreSpec => []FailedForAReason
<1>1. ScoreInv => FailedForAReason
  <2> SUFFICES ASSUME ScoreInv, NEW report \in Reports
               PROVE  (ScoreSessionCall(report).overallStatus = "failed") = (~Answered \/ Breached)
    BY DEF FailedForAReason
  <2> DEFINE score == ScoreSessionCall(report)
             verdicts == {score.goal_achieved, score.tool_selection, score.grounded_answer,
                          score.policy_compliance}
  <2>1. score.overallStatus = DeriveOverall(verdicts)
    BY VerdictFacts
  <2>2. DeriveOverall(verdicts) = "failed" <=> "unmet" \in verdicts
    BY DEF DeriveOverall
  <2>3. RowsInv
    BY DEF ScoreInv
  <2>4. "unmet" \in verdicts
          <=> Succeeded(report) = {} \/ AssistantTurns(report) = {} \/ Breached
    BY <2>3, VerdictFacts, ReportFacts DEF SawBreach
  <2>5. Answered <=> Succeeded(report) # {} /\ AssistantTurns(report) # {}
    BY <2>3, ReportFacts DEF Answered, Selected
  <2>6. Breached \in BOOLEAN /\ Answered \in BOOLEAN
    BY DEF Breached, Answered
  <2> HIDE DEF score, verdicts
  <2> QED
    BY <2>1, <2>2, <2>4, <2>5, <2>6 DEF score
<1> QED
  BY <1>1, ScoreStarts, ScoreSteps, PTL DEF ScoreSpec

\* A scorer that replaces the evaluation it found keeps its verdicts of breach and
\* of success, whatever rows and scorers came in between: only one that found
\* another evaluation can lose them.
THEOREM RescoresKeepVerdicts == ScoreSpec => RescoringKeepsVerdicts
<1>1. ScoreInv /\ [ScoreNext]_scoreVars =>
        [\A s \in Scorers :
           /\ stage[s] = "save" /\ stage'[s] = "idle"
           /\ evaluation # NoValue /\ read[s].evaluation = evaluation
           => ~Lost(evaluation, evaluation')]_scoreVars
  <2> SUFFICES ASSUME ScoreInv, [ScoreNext]_scoreVars, NEW s \in Scorers,
                      stage[s] = "save", stage'[s] = "idle",
                      evaluation # NoValue, read[s].evaluation = evaluation
               PROVE  ~Lost(evaluation, evaluation')
    OBVIOUS
  <2>1. SaveEvaluation(s)
    <3>1. CASE RowsStep
      BY <3>1, RowsStepFacts DEF ScoreInv
    <3>2. ASSUME NEW t \in Scorers, EnsureSessionEvaluation(t) PROVE SaveEvaluation(s)
      <4>1. CASE t # s
        <5>1. stage'[s] = stage[s]
          BY <3>2, <4>1 DEF EnsureSessionEvaluation, ReadSession, ReadTurns, ReadTools,
             SaveEvaluation, ScoreInv
        <5> QED
          BY <5>1
      <4>2. CASE t = s
        BY <3>2, <4>2 DEF EnsureSessionEvaluation, ReadSession, ReadTurns, ReadTools
      <4> QED
        BY <4>1, <4>2
    <3> QED
      BY <3>1, <3>2 DEF ScoreNext, RowsStep
  <2>2. /\ evaluation.policy_compliance = "unmet" => SawBreach(read[s].transcript)
        /\ evaluation.tool_selection = "met" => SawSuccess(read[s].toolCalls)
    <3>1. ScorerInv(s)
      BY DEF ScoreInv
    <3> QED
      BY <3>1 DEF ScorerInv
  <2>3. /\ evaluation'.policy_compliance = "unmet" <=> SawBreach(read[s].transcript)
        /\ evaluation'.tool_selection = IF SawSuccess(read[s].toolCalls) THEN "met" ELSE "unmet"
    BY <2>1, SavedFacts
  <2> QED
    BY <2>2, <2>3 DEF Lost
<1> QED
  BY <1>1, ScoreStarts, ScoreSteps, PTL DEF ScoreSpec, RescoringKeepsVerdicts

\* A reference that names one of these rows.
RefersTo(ref, calls, turns) ==
  \/ ref.kind = "tool_call" /\ \E i \in DOMAIN calls : calls[i].id = ref.id
  \/ ref.kind = "turn" /\ \E i \in DOMAIN turns : turns[i].id = ref.id

\* A score refers to the rows of its report.
LEMMA EvidenceFacts ==
  ASSUME NEW report, report.toolCalls \in Seq(CallRecords), report.transcript \in Seq(TurnRecords),
         NEW ref \in ScoreSessionCall(report).evidence
  PROVE  RefersTo(ref, report.toolCalls, report.transcript)
<1> DEFINE Named(r) == RefersTo(r, report.toolCalls, report.transcript)
<1>1. IsFiniteSet(DOMAIN report.toolCalls) /\ IsFiniteSet(DOMAIN report.transcript)
  <2>1. /\ DOMAIN report.toolCalls = 1 .. Len(report.toolCalls) /\ Len(report.toolCalls) \in Int
        /\ DOMAIN report.transcript = 1 .. Len(report.transcript) /\ Len(report.transcript) \in Int
    OBVIOUS
  <2> QED
    BY <2>1, FS_Interval
<1>2. DOMAIN report.toolCalls \in SUBSET Int /\ DOMAIN report.transcript \in SUBSET Int
  OBVIOUS
<1>3. ASSUME NEW calls \in SUBSET DOMAIN report.toolCalls, calls # {}
      PROVE  Named(ToolRef(FirstCall(report, calls)))
  <2>1. Min(calls) \in calls
    <3>1. IsFiniteSet(calls) /\ calls \in SUBSET Int
      BY <1>1, <1>2, <1>3, FS_Subset
    <3> QED
      BY <1>3, <3>1, MinFacts
  <2> QED
    BY <2>1 DEF RefersTo, ToolRef, FirstCall
<1>4. ASSUME NEW turns \in SUBSET DOMAIN report.transcript, turns # {}
      PROVE  /\ Named(TurnRef(report.transcript[Min(turns)]))
             /\ Named(TurnRef(report.transcript[Max(turns)]))
  <2>1. Min(turns) \in turns /\ Max(turns) \in turns
    <3>1. IsFiniteSet(turns) /\ turns \in SUBSET Int
      BY <1>1, <1>2, <1>4, FS_Subset
    <3> QED
      BY <1>4, <3>1, MinFacts, MaxFacts
  <2> QED
    BY <2>1 DEF RefersTo, TurnRef
<1>5. /\ Succeeded(report) \in SUBSET DOMAIN report.toolCalls
      /\ Failed(report) \in SUBSET DOMAIN report.toolCalls
      /\ AssistantTurns(report) \in SUBSET DOMAIN report.transcript
  BY DEF Succeeded, Failed, CallsOf, AssistantTurns
<1> HIDE DEF Named
<1> DEFINE selection == ScoreToolSelection(report)
           grounded  == ScoreGroundedAnswer(report)
           policy    == ScorePolicyCompliance(report)
<1>6. ASSUME NEW r \in selection.evidence PROVE Named(r)
  BY <1>3, <1>5, <1>6 DEF ScoreToolSelection
<1>7. ASSUME NEW r \in grounded.evidence PROVE Named(r)
  BY <1>3, <1>4, <1>5, <1>7 DEF ScoreGroundedAnswer, FinalAssistant
<1>8. ASSUME NEW r \in policy.evidence PROVE Named(r)
  <2> DEFINE breaches == {i \in DOMAIN report.transcript : report.transcript[i].text.breach}
  <2>1. breaches \in SUBSET DOMAIN report.transcript
    OBVIOUS
  <2>2. breaches # {} /\ r = TurnRef(report.transcript[Min(breaches)])
    BY <1>8 DEF ScorePolicyCompliance
  <2> HIDE DEF breaches
  <2> QED
    BY <1>4, <2>1, <2>2
<1>9. ScoreSessionCall(report).evidence
        = selection.evidence \cup grounded.evidence \cup policy.evidence
  BY DEF ScoreSessionCall
<1> HIDE DEF selection, grounded, policy
<1> QED
  BY <1>6, <1>7, <1>8, <1>9 DEF Named

\* These rows are the first of those stored.
Begins(rows, stored) == \A i \in DOMAIN rows : i \in DOMAIN stored /\ rows[i] = stored[i]

\* A scorer of the memory adapter's report has read rows that are stored.
MemoryScorerInv(s) ==
  /\ stage[s] \in {"idle", "save"}
  /\ stage[s] = "save" =>
       /\ read[s].toolCalls \in Seq(CallRecords) /\ read[s].transcript \in Seq(TurnRecords)
       /\ Begins(read[s].toolCalls, toolCalls) /\ Begins(read[s].transcript, transcript)

MemoryScoresInv ==
  /\ \A s \in Scorers : MemoryScorerInv(s)
  /\ EvidenceIsStored

\* From memory a scorer reads the stored rows themselves, with the ids they keep.
LEMMA MemoryScoresSteps ==
  ASSUME ~Hosted, ScoreInv, MemoryScoresInv, [ScoreNext]_scoreVars
  PROVE  MemoryScoresInv'
<1>1. RowsInv
  BY DEF ScoreInv
<1>2. CASE RowsStep
  <2>1. /\ Begins(toolCalls, toolCalls') /\ Begins(transcript, transcript')
        /\ UNCHANGED <<evaluation, stage, read>>
    BY <1>1, <1>2, RowsStepFacts DEF Begins
  <2>2. \A s \in Scorers : MemoryScorerInv(s)'
    BY <2>1 DEF MemoryScoresInv, MemoryScorerInv, Begins
  <2>3. EvidenceIsStored'
    BY <2>1 DEF MemoryScoresInv, EvidenceIsStored, Begins
  <2> QED
    BY <2>2, <2>3 DEF MemoryScoresInv
<1>3. ASSUME NEW s \in Scorers, EnsureSessionEvaluation(s) PROVE MemoryScoresInv'
  <2>1. UNCHANGED rowVars /\ DOMAIN stage = Scorers /\ DOMAIN read = Scorers
    BY <1>3 DEF EnsureSessionEvaluation, ReadSession, ReadTurns, ReadTools, SaveEvaluation, ScoreInv
  <2>2. MemoryScorerInv(s)
    BY DEF MemoryScoresInv
  <2>3. ~ReadTurns(s) /\ ~ReadTools(s)
    BY <2>2 DEF MemoryScorerInv, ReadTurns, ReadTools
  <2>4. ASSUME NEW t \in Scorers, t # s PROVE MemoryScorerInv(t)'
    <3>1. stage'[t] = stage[t] /\ read'[t] = read[t]
      BY <1>3, <2>1, <2>3, <2>4 DEF EnsureSessionEvaluation, ReadSession, SaveEvaluation
    <3> QED
      BY <2>1, <3>1 DEF MemoryScoresInv, MemoryScorerInv, Begins, rowVars
  <2>5. ASSUME NEW force \in BOOLEAN, ReadSession(s, force) PROVE MemoryScoresInv'
    <3>1. /\ stage'[s] = "save" /\ evaluation' = evaluation
          /\ read'[s].toolCalls = toolCalls /\ read'[s].transcript = transcript
      BY <2>1, <2>5 DEF ReadSession, TurnRows
    <3>2. MemoryScorerInv(s)'
      BY <1>1, <2>1, <3>1 DEF MemoryScorerInv, RowsInv, Begins, rowVars
    <3>3. EvidenceIsStored'
      BY <2>1, <3>1 DEF MemoryScoresInv, EvidenceIsStored, rowVars
    <3> QED
      BY <2>4, <3>2, <3>3 DEF MemoryScoresInv
  <2>6. ASSUME SaveEvaluation(s) PROVE MemoryScoresInv'
    <3>1. stage'[s] = "idle" /\ stage[s] = "save" /\ evaluation' = ScoreSessionCall(read[s])
      BY <2>1, <2>6 DEF SaveEvaluation
    <3>2. MemoryScorerInv(s)'
      BY <3>1 DEF MemoryScorerInv
    <3>3. ASSUME NEW ref \in evaluation'.evidence PROVE RefersTo(ref, toolCalls, transcript)
      <4>1. RefersTo(ref, read[s].toolCalls, read[s].transcript)
        BY <2>2, <3>1, <3>3, EvidenceFacts DEF MemoryScorerInv
      <4> QED
        BY <2>2, <3>1, <4>1 DEF MemoryScorerInv, RefersTo, Begins
    <3>4. EvidenceIsStored'
      BY <2>1, <3>3 DEF EvidenceIsStored, RefersTo, rowVars
    <3> QED
      BY <2>4, <3>2, <3>4 DEF MemoryScoresInv
  <2> QED
    BY <1>3, <2>3, <2>5, <2>6 DEF EnsureSessionEvaluation
<1> QED
  BY <1>2, <1>3 DEF ScoreNext, RowsStep

\* The evidence of a call scored from memory names rows that are stored, whatever
\* came after it: only the hosted adapter's copies give the scorer other ids.
THEOREM MemoryEvidenceIsStored ==
  ASSUME ~Hosted
  PROVE  ScoreSpec => []EvidenceIsStored
<1>1. ScoreInit => MemoryScoresInv
  BY DEF ScoreInit, EvidenceIsStored, MemoryScoresInv, MemoryScorerInv
<1>2. ScoreInv /\ MemoryScoresInv /\ [ScoreNext]_scoreVars => MemoryScoresInv'
  BY MemoryScoresSteps
<1>3. MemoryScoresInv => EvidenceIsStored
  BY DEF MemoryScoresInv
<1> QED
  BY <1>1, <1>2, <1>3, ScoreStarts, ScoreSteps, PTL DEF ScoreSpec

(***************************************************************************)
(* The offline quality gate.                                               *)
(***************************************************************************)

(* A passed conclusion has a score of every security case, and no score    *)
(* that fails; and a conclusion is recorded as passed exactly when it is.   *)
LEMMA PassedConclusion ==
    ASSUME NEW g, Conclusion(g).passed
    PROVE  /\ \A i \in DOMAIN Conclusion(g).scores : Conclusion(g).scores[i].pass
           /\ \A id \in Security : \E i \in DOMAIN Conclusion(g).scores :
                Conclusion(g).scores[i].caseId = id
<1> DEFINE given == AllScores(g)
<1>1. ~Incomplete(g, given)
  BY DEF Conclusion
<1>2. Conclusion(g).scores = given
  BY <1>1 DEF Conclusion
<1>3. StatusFromScores(given) = "passed"
  BY <1>1 DEF Conclusion
<1>4. \A i \in DOMAIN given : given[i].pass
  BY <1>3 DEF StatusFromScores
<1>5. \A id \in Security : \E i \in DOMAIN given : given[i].caseId = id
  BY <1>1 DEF Incomplete
<1> QED
  BY <1>2, <1>4, <1>5

\* The status reported is that of the verdict.
LEMMA StatusIsTheVerdict ==
    ASSUME NEW g
    PROVE  (Conclusion(g).status = "passed") = Conclusion(g).passed
<1>1. BaselineOk(g, Conclusion(g).scores) \in BOOLEAN
  BY DEF BaselineOk
<1> QED
  BY <1>1 DEF Conclusion

(* However the baseline is edited, a gate that ends with 0 executed and    *)
(* passed every security case.                                             *)
THEOREM SecurityStaysRequired == Spec => []SecurityIsNeverWaived
<1>1. Init => SecurityIsNeverWaived
  BY DEF Init, SecurityIsNeverWaived, Decided, None
<1>2. SecurityIsNeverWaived /\ [Next]_vars => SecurityIsNeverWaived'
  <2> SUFFICES ASSUME SecurityIsNeverWaived, [Next]_vars
               PROVE  SecurityIsNeverWaived'
    OBVIOUS
  <2>1. ASSUME UNCHANGED verdict PROVE SecurityIsNeverWaived'
    BY <2>1 DEF SecurityIsNeverWaived, Decided
  <2>2. CASE Edit
    <3>1. UNCHANGED verdict
      BY <2>2 DEF Edit, Edited, RenameSuite, RedateSuite, RepromptSuite, AddCase, DropCase,
                  ChangePrompt, DropSuite, WaiveCase, WaivePin
    <3> QED BY <2>1, <3>1
  <2>3. CASE StartGate
    BY <2>1, <2>3 DEF StartGate
  <2>4. ASSUME NEW k, NEW pass, RunCase(k, pass) PROVE SecurityIsNeverWaived'
    BY <2>1, <2>4 DEF RunCase
  <2>5. CASE ExecutorThrows
    BY <2>5 DEF ExecutorThrows, SecurityIsNeverWaived, Decided
  <2>6. ASSUME NEW written \in BOOLEAN, Decide(written) PROVE SecurityIsNeverWaived'
    <3>1. verdict' = [state |-> "decided", run |-> runs, saw |-> gate,
                      scores |-> Conclusion(gate).scores, written |-> written,
                      exit |-> IF written /\ Conclusion(gate).passed THEN 0 ELSE 1]
      BY <2>6 DEF Decide
    <3>2. SUFFICES ASSUME verdict'.exit = 0
                   PROVE  SecurityIsNeverWaived'
      BY DEF SecurityIsNeverWaived
    <3>3. Conclusion(gate).passed
      BY <3>1, <3>2
    <3> QED
      BY <3>1, <3>3, PassedConclusion DEF SecurityIsNeverWaived
  <2>7. CASE UNCHANGED vars
    BY <2>1, <2>7 DEF vars
  <2> QED
    BY <2>2, <2>3, <2>4, <2>5, <2>6, <2>7 DEF Next
<1> QED
  BY <1>1, <1>2, PTL DEF Spec

-----------------------------------------------------------------------------
(* The verdict against the rules.  The scores of a run are a fold over the *)
(* suites that were executed, and what a fold returns is known by          *)
(* induction over its places, on sets: an operator cannot be a parameter.  *)

\* A set of naturals that holds 0 and the successor of each member holds them all.
LEMMA NatSets ==
  ASSUME NEW G, 0 \in G, \A n \in Nat : n \in G => n + 1 \in G
  PROVE  Nat \subseteq G
<1> SUFFICES ASSUME NEW m \in Nat, m \notin G PROVE FALSE
  OBVIOUS
<1> DEFINE S == {x \in 0 .. m : x \notin G}
<1>1. IsFiniteSet(S) /\ S # {} /\ S \in SUBSET Int
  <2>1. IsFiniteSet(0 .. m)
    BY FS_Interval
  <2>2. m \in S /\ S \subseteq 0 .. m /\ 0 .. m \subseteq Int
    OBVIOUS
  <2> HIDE DEF S
  <2> QED
    BY <2>1, <2>2, FS_Subset
<1>2. Min(S) \in S /\ \A y \in S : Min(S) <= y
  <2> HIDE DEF S
  <2> QED
    BY <1>1, MinFacts
<1>3. PICK k \in S : \A y \in S : k <= y
  BY <1>2
<1>4. k \in Nat /\ k # 0 /\ k - 1 \in 0 .. m /\ k \notin G
  OBVIOUS
<1>5. k - 1 \in G
  BY <1>3, <1>4
<1>6. k - 1 + 1 = k
  BY <1>4
<1> QED
  BY <1>4, <1>5, <1>6

\* What holds of the empty set, and of a set if of the set without its greatest
\* member, holds of every set of integers that is finite.
LEMMA SubsetsByGreatest ==
  ASSUME NEW D \in SUBSET Int, IsFiniteSet(D), NEW G, {} \in G,
         \A s \in SUBSET D : s # {} /\ s \ {Max(s)} \in G => s \in G
  PROVE  SUBSET D \subseteq G
<1> DEFINE N == {n \in Nat : \A s \in SUBSET D : Cardinality(s) <= n => s \in G}
<1>1. \A s \in SUBSET D : IsFiniteSet(s) /\ Cardinality(s) \in Nat /\ s \in SUBSET Int
  BY FS_Subset, FS_CardinalityType
<1>2. 0 \in N
  <2> SUFFICES ASSUME NEW s \in SUBSET D, Cardinality(s) <= 0 PROVE s \in G
    OBVIOUS
  <2>1. Cardinality(s) = 0
    BY <1>1
  <2>2. s = {}
    BY <1>1, <2>1, FS_EmptySet
  <2> QED
    BY <2>2
<1>3. ASSUME NEW n \in Nat, n \in N PROVE n + 1 \in N
  <2>1. ASSUME NEW s \in SUBSET D, Cardinality(s) <= n + 1, s # {} PROVE s \in G
    <3>1. Max(s) \in s
      BY <1>1, <2>1, MaxFacts
    <3>2. Cardinality(s \ {Max(s)}) = Cardinality(s) - 1
      BY <1>1, <3>1, FS_RemoveElement
    <3>3. Cardinality(s) \in Nat /\ s \ {Max(s)} \in SUBSET D
      BY <1>1
    <3>4. Cardinality(s \ {Max(s)}) <= n
      BY <2>1, <3>2, <3>3
    <3>5. s \ {Max(s)} \in G
      BY <1>3, <3>3, <3>4
    <3> QED
      BY <2>1, <3>5
  <2>2. \A s \in SUBSET D : Cardinality(s) <= n + 1 => s \in G
    BY <2>1
  <2>3. n + 1 \in Nat
    OBVIOUS
  <2> QED
    BY <2>2, <2>3
<1>4. Nat \subseteq N
  <2> HIDE DEF N
  <2> QED
    BY <1>2, <1>3, NatSets
<1> QED
  BY <1>1, <1>4

\* A fold over the places D, the last place outermost: MapThenFoldSet's iter.
IsFold(f, D, base, step) ==
  \A s \in SUBSET D :
    /\ s = {} => f[s] = base
    /\ s # {} => f[s] = step[f[s \ {Max(s)}]][Max(s)]

\* Every set of integers that is finite can be folded over.
LEMMA FoldDefined ==
  ASSUME NEW D \in SUBSET Int, IsFiniteSet(D), NEW X, NEW base \in X, NEW step \in [X -> [D -> X]]
  PROVE  \E f \in [SUBSET D -> X] : IsFold(f, D, base, step)
<1> DEFINE After(f, s) == IF s = {} THEN base ELSE step[f[s \ {Max(s)}]][Max(s)]
           N == {n \in Nat : \E f \in [SUBSET D -> X] :
                   \A s \in SUBSET D : Cardinality(s) <= n => f[s] = After(f, s)}
<1>1. \A s \in SUBSET D : IsFiniteSet(s) /\ Cardinality(s) \in Nat /\ s \in SUBSET Int
  BY FS_Subset, FS_CardinalityType
<1>2. ASSUME NEW s \in SUBSET D, s # {}
      PROVE  /\ Max(s) \in D
             /\ s \ {Max(s)} \in SUBSET D
             /\ Cardinality(s \ {Max(s)}) = Cardinality(s) - 1
  <2>1. Max(s) \in s
    BY <1>1, <1>2, MaxFacts
  <2> QED
    BY <1>1, <2>1, FS_RemoveElement
<1>3. 0 \in N
  <2> DEFINE f == [s \in SUBSET D |-> base]
  <2>1. f \in [SUBSET D -> X]
    OBVIOUS
  <2>2. ASSUME NEW s \in SUBSET D, Cardinality(s) <= 0 PROVE f[s] = After(f, s)
    <3>1. Cardinality(s) = 0
      BY <1>1, <2>2
    <3>2. s = {}
      BY <1>1, <3>1, FS_EmptySet
    <3> QED
      BY <3>2
  <2> HIDE DEF f, After
  <2> QED
    BY <2>1, <2>2
<1>4. ASSUME NEW n \in Nat, n \in N PROVE n + 1 \in N
  <2>1. PICK f \in [SUBSET D -> X] :
          \A s \in SUBSET D : Cardinality(s) <= n => f[s] = After(f, s)
    BY <1>4
  <2> DEFINE h == [s \in SUBSET D |-> IF Cardinality(s) <= n THEN f[s] ELSE After(f, s)]
  <2>2. ASSUME NEW s \in SUBSET D PROVE After(f, s) \in X
    <3>1. CASE s = {}
      BY <3>1
    <3>2. CASE s # {}
      <4>1. s \ {Max(s)} \in SUBSET D /\ Max(s) \in D
        BY <1>2, <3>2
      <4>2. f[s \ {Max(s)}] \in X
        BY <4>1
      <4>3. step[f[s \ {Max(s)}]] \in [D -> X]
        BY <4>2
      <4> QED
        BY <3>2, <4>1, <4>3
    <3> QED
      BY <3>1, <3>2
  <2>3. h \in [SUBSET D -> X]
    <3> HIDE DEF After
    <3> QED
      BY <2>2
  <2>4. ASSUME NEW s \in SUBSET D, Cardinality(s) <= n + 1 PROVE h[s] = After(h, s)
    <3>1. h[s] = After(f, s)
      <4> HIDE DEF After
      <4> QED
        BY <2>1
    <3>2. CASE s = {}
      BY <3>1, <3>2
    <3>3. CASE s # {}
      <4>1. s \ {Max(s)} \in SUBSET D /\ Cardinality(s \ {Max(s)}) = Cardinality(s) - 1
        BY <1>2, <3>3
      <4>4. Cardinality(s) \in Nat
        BY <1>1
      <4>3. Cardinality(s \ {Max(s)}) <= n
        BY <2>4, <4>1, <4>4
      <4>2. h[s \ {Max(s)}] = f[s \ {Max(s)}]
        <5> HIDE DEF After
        <5> QED
          BY <4>1, <4>3
      <4> HIDE DEF h
      <4> QED
        BY <3>1, <3>3, <4>2
    <3> QED
      BY <3>2, <3>3
  <2>5. n + 1 \in Nat
    OBVIOUS
  <2> HIDE DEF h, After
  <2> QED
    BY <2>3, <2>4, <2>5
<1>5. Cardinality(D) \in N
  <2>1. Nat \subseteq N
    <3> HIDE DEF N
    <3> QED
      BY <1>3, <1>4, NatSets
  <2> QED
    BY <1>1, <2>1
<1>6. \A s \in SUBSET D : Cardinality(s) <= Cardinality(D)
  BY FS_Subset
<1> QED
  BY <1>5, <1>6 DEF IsFold

\* The scores a gate judges are a sequence of them.
LEMMA ScoresAreASequence ==
  ASSUME NEW g \in Gates
  PROVE  AllScores(g) \in Seq(Scores)
<1> DEFINE D == DOMAIN g.keys
           X == Seq(Scores)
           step == [a \in X |-> [i \in D |-> a \o g.scores[g.keys[i]]]]
           After(f, s) == IF s = {} THEN <<>> ELSE f[s \ {Max(s)}] \o g.scores[g.keys[Max(s)]]
           Fold(f) == f = [s \in SUBSET D |-> After(f, s)]
           iter == CHOOSE f : Fold(f)
<1>1. D \in SUBSET Int /\ IsFiniteSet(D)
  <2>1. D = 1 .. Len(g.keys) /\ Len(g.keys) \in Nat
    BY DEF Gates
  <2> QED
    BY <2>1, FS_Interval
<1>2. \A i \in D : g.scores[g.keys[i]] \in X
  BY DEF Gates
<1>3. \A s \in SUBSET D : s # {} => Max(s) \in D
  <2>1. \A s \in SUBSET D : IsFiniteSet(s) /\ s \in SUBSET Int
    BY <1>1, FS_Subset
  <2> HIDE DEF D
  <2> QED
    BY <2>1, MaxFacts
<1>4. step \in [X -> [D -> X]]
  <2>1. \A a \in X, b \in X : a \o b \in X
    OBVIOUS
  <2> HIDE DEF X, D
  <2> QED
    BY <1>2, <2>1
<1>5. \E f : Fold(f)
  <2> DEFINE base == <<>>
  <2>1. base \in X
    OBVIOUS
  <2>2. PICK f \in [SUBSET D -> X] : IsFold(f, D, base, step)
    <3> HIDE DEF X, D, step, base
    <3> QED
      BY <1>1, <1>4, <2>1, FoldDefined
  <2>3. ASSUME NEW s \in SUBSET D, s # {} PROVE f[s] = f[s \ {Max(s)}] \o g.scores[g.keys[Max(s)]]
    <3>1. f[s \ {Max(s)}] \in X
      OBVIOUS
    <3>2. Max(s) \in D
      BY <1>3, <2>3
    <3> HIDE DEF X, D
    <3>3. step[f[s \ {Max(s)}]][Max(s)] = f[s \ {Max(s)}] \o g.scores[g.keys[Max(s)]]
      BY <3>1, <3>2
    <3> QED
      BY <2>2, <2>3, <3>3 DEF IsFold
  <2>4. \A s \in SUBSET D : f[s] = After(f, s)
    BY <2>2, <2>3 DEF IsFold
  <2> HIDE DEF X, D, step, After
  <2> QED
    BY <2>4
<1>6. Fold(iter)
  <2> HIDE DEF Fold
  <2> QED
    BY <1>5
<1>7. ASSUME NEW s \in SUBSET D, s # {}, iter[s \ {Max(s)}] \in X PROVE iter[s] \in X
  <2>1. iter[s] = iter[s \ {Max(s)}] \o g.scores[g.keys[Max(s)]]
    <3> HIDE DEF iter, D
    <3> QED
      BY <1>6, <1>7
  <2> HIDE DEF iter, D
  <2>2. g.scores[g.keys[Max(s)]] \in X
    BY <1>2, <1>3, <1>7
  <2> QED
    BY <1>7, <2>1, <2>2
<1>8. iter[{}] \in X
  <2> HIDE DEF iter, D
  <2> QED
    BY <1>6
<1>9. iter[D] \in X
  <2> DEFINE G == {s \in SUBSET D : iter[s] \in X}
  <2>1. {} \in G
    BY <1>8
  <2>2. \A s \in SUBSET D : s # {} /\ s \ {Max(s)} \in G => s \in G
    BY <1>7
  <2>3. SUBSET D \subseteq G
    <3> HIDE DEF G, D
    <3> QED
      BY <1>1, <2>1, <2>2, SubsetsByGreatest
  <2> QED
    BY <2>3
<1>10. AllScores(g) = iter[D]
  BY DEF AllScores, FoldLeft, MapThenFoldSet
<1> QED
  BY <1>9, <1>10

\* A set of places in a sequence has a first one.
LEMMA FirstPlace ==
  ASSUME NEW n \in Nat, NEW found \in SUBSET (1 .. n), found # {}
  PROVE  \E i \in found : IsFirst(i, found)
<1>1. IsFiniteSet(1 .. n)
  BY FS_Interval
<1>2. IsFiniteSet(found)
  BY <1>1, FS_Subset
<1>3. found \in SUBSET Int
  OBVIOUS
<1> QED
  BY <1>2, <1>3, MinFacts DEF IsFirst

\* Each pinned suite was executed, and every suite of its name carries the pin.
PinsAreCarried(g) ==
  LET suites == {g.suites[k] : k \in Executed(g)}
  IN \A name \in DOMAIN g.baseline.pins :
       /\ \E s \in suites : s.name = name
       /\ \A s \in suites : s.name = name =>
            /\ s.dataset = g.baseline.pins[name].dataset
            /\ g.baseline.pins[name].prompt \in {NoVersion, s.prompt}

\* The first suite of a name carries its pin if all of that name do, and where
\* suites are named apart it is the only one.
LEMMA PinFacts ==
  ASSUME NEW g \in Gates
  PROVE  /\ PinsAreCarried(g) => PinsMatch(g)
         /\ NamedApart(g) /\ PinsMatch(g) => PinsAreCarried(g)
<1> DEFINE suites == {g.suites[k] : k \in Executed(g)}
           pins == g.baseline.pins
<1>0. g.keys \in Seq(KeySet) /\ Executed(g) \subseteq KeySet
  BY DEF Gates, Executed
<1>1. ASSUME NEW i \in DOMAIN g.keys
      PROVE  g.keys[i] \in Executed(g) /\ g.suites[g.keys[i]] \in suites
  BY DEF Executed
<1>2. ASSUME NamedApart(g), PinsMatch(g), NEW name \in DOMAIN pins
      PROVE  /\ \E s \in suites : s.name = name
             /\ \A s \in suites : s.name = name =>
                  s.dataset = pins[name].dataset /\ pins[name].prompt \in {NoVersion, s.prompt}
  <2>1. PICK i \in DOMAIN g.keys :
          /\ g.suites[g.keys[i]].name = name
          /\ g.suites[g.keys[i]].dataset = pins[name].dataset
          /\ pins[name].prompt # NoVersion => g.suites[g.keys[i]].prompt = pins[name].prompt
    BY <1>2 DEF PinsMatch, IsFirst
  <2>2. ASSUME NEW s \in suites, s.name = name PROVE s = g.suites[g.keys[i]]
    <3>1. PICK k \in Executed(g) : s = g.suites[k]
      OBVIOUS
    <3>2. k = g.keys[i]
      BY <1>1, <1>2, <2>1, <2>2, <3>1 DEF NamedApart
    <3> QED
      BY <3>1, <3>2
  <2> QED
    BY <1>1, <2>1, <2>2
<1>3. ASSUME NEW name \in DOMAIN pins,
             NEW s \in suites, s.name = name,
             \A t \in suites : t.name = name =>
               t.dataset = pins[name].dataset /\ pins[name].prompt \in {NoVersion, t.prompt}
      PROVE  \E i \in DOMAIN g.keys :
               LET suite == g.suites[g.keys[i]]
                   pin == g.baseline.pins[name]
               IN /\ IsFirst(i, {n \in DOMAIN g.keys : g.suites[g.keys[n]].name = name})
                  /\ suite.dataset = pin.dataset
                  /\ pin.prompt # NoVersion => suite.prompt = pin.prompt
  <2> DEFINE found == {n \in DOMAIN g.keys : g.suites[g.keys[n]].name = name}
  <2>1. found # {} /\ found \subseteq 1 .. Len(g.keys) /\ Len(g.keys) \in Nat
    BY <1>0, <1>3 DEF Executed
  <2>2. PICK i \in found : IsFirst(i, found)
    <3> HIDE DEF found
    <3> QED
      BY <2>1, FirstPlace
  <2>3. i \in DOMAIN g.keys /\ g.suites[g.keys[i]] \in suites /\ g.suites[g.keys[i]].name = name
    BY <1>1
  <2>4. /\ g.suites[g.keys[i]].dataset = pins[name].dataset
        /\ pins[name].prompt \in {NoVersion, g.suites[g.keys[i]].prompt}
    <3> HIDE DEF suites
    <3> QED
      BY <1>3, <2>3
  <2> QED
    BY <2>2, <2>3, <2>4
<1>4. PinsAreCarried(g) <=>
        \A name \in DOMAIN pins :
          /\ \E s \in suites : s.name = name
          /\ \A s \in suites : s.name = name =>
               s.dataset = pins[name].dataset /\ pins[name].prompt \in {NoVersion, s.prompt}
  BY DEF PinsAreCarried
<1> HIDE DEF suites
<1>5. ASSUME PinsAreCarried(g) PROVE PinsMatch(g)
  BY <1>3, <1>4, <1>5 DEF PinsMatch
<1>6. ASSUME NamedApart(g), PinsMatch(g) PROVE PinsAreCarried(g)
  BY <1>2, <1>4, <1>6
<1> QED
  BY <1>5, <1>6

\* What a complete run passes by: every score, no shared suffix, the baseline's
\* cases and the pins.
LEMMA PassFacts ==
  ASSUME NEW g \in Gates, ~Incomplete(g, AllScores(g))
  PROVE  LET given == AllScores(g)
             ids == {s.caseId : s \in Range(given)} IN
         /\ Conclusion(g).scores = given
         /\ Executed(g) = KeySet /\ Security \subseteq ids
         /\ Conclusion(g).passed <=>
              /\ \A s \in Range(given) : s.pass
              /\ SuffixesAreUnique(given)
              /\ g.baseline.required \subseteq ids
              /\ PinsMatch(g)
<1> DEFINE given == AllScores(g)
           ids == {s.caseId : s \in Range(given)}
<1>1. given \in Seq(Scores)
  BY ScoresAreASequence
<1>2. Executed(g) \subseteq KeySet
  BY DEF Gates, Executed
<1> HIDE DEF given
<1>3. ~Incomplete(g, given)
  BY DEF given
<1>4. Conclusion(g).scores = given
  BY <1>3 DEF Conclusion, given
<1>5. Conclusion(g).passed <=> StatusFromScores(given) = "passed" /\ BaselineOk(g, given)
  BY <1>3 DEF Conclusion, given
<1>6. StatusFromScores(given) = "passed" <=> \A s \in Range(given) : s.pass
  BY DEF StatusFromScores, Range
<1>7. \A id : id \in ids <=> \E i \in DOMAIN given : given[i].caseId = id
  BY DEF Range
<1>8. ASSUME \A s \in Range(given) : s.pass
      PROVE  RequiredCasesPass(given, g.baseline.required) <=> g.baseline.required \subseteq ids
  <2>1. ASSUME NEW id \in ids
        PROVE  \E i \in DOMAIN given :
                 /\ IsFirst(i, {n \in DOMAIN given : given[n].caseId = id})
                 /\ given[i].pass
    <3> DEFINE found == {n \in DOMAIN given : given[n].caseId = id}
    <3>1. found # {} /\ found \subseteq 1 .. Len(given) /\ Len(given) \in Nat
      <4> HIDE DEF ids
      <4>1. PICK m \in DOMAIN given : given[m].caseId = id
        BY <1>7
      <4>2. DOMAIN given = 1 .. Len(given) /\ Len(given) \in Nat
        BY <1>1
      <4>3. m \in found /\ found \subseteq DOMAIN given
        BY <4>1
      <4> HIDE DEF found
      <4> QED
        BY <4>2, <4>3
    <3>2. PICK i \in found : IsFirst(i, found)
      <4> HIDE DEF found
      <4> QED
        BY <3>1, FirstPlace
    <3>3. i \in DOMAIN given /\ given[i] \in Range(given)
      BY DEF Range
    <3> QED
      BY <1>8, <3>2, <3>3
  <2> HIDE DEF ids
  <2>2. ASSUME g.baseline.required \subseteq ids PROVE RequiredCasesPass(given, g.baseline.required)
    BY <2>1, <2>2 DEF RequiredCasesPass
  <2>3. ASSUME RequiredCasesPass(given, g.baseline.required) PROVE g.baseline.required \subseteq ids
    BY <1>7, <2>3 DEF RequiredCasesPass, IsFirst
  <2> QED
    BY <2>2, <2>3
<1>9. Executed(g) = KeySet /\ Security \subseteq ids
  BY <1>2, <1>3, <1>7 DEF Incomplete
<1> HIDE DEF ids
<1>10. Conclusion(g).passed <=>
         /\ \A s \in Range(given) : s.pass
         /\ SuffixesAreUnique(given)
         /\ g.baseline.required \subseteq ids
         /\ PinsMatch(g)
  BY <1>5, <1>6, <1>8 DEF BaselineOk
<1> QED
  BY <1>4, <1>9, <1>10 DEF given, ids

\* An incomplete run is not passed, and no published rule accepts it.
LEMMA IncompleteFails ==
  ASSUME NEW g \in Gates, Incomplete(g, AllScores(g)), NEW v,
         v.saw = g, v.scores = Conclusion(g).scores
  PROVE  ~Conclusion(g).passed /\ ~Acceptable(v)
<1> DEFINE given == AllScores(g)
           failure == [caseId |-> MembershipId, pass |-> FALSE, ranWith |-> NoVersion]
<1>1. given \in Seq(Scores) /\ Executed(g) \subseteq KeySet
  BY ScoresAreASequence DEF Gates, Executed
<1> HIDE DEF given
<1>2. ~Conclusion(g).passed /\ v.scores = Append(given, failure)
  BY DEF Conclusion, given
<1>3. failure.caseId = MembershipId /\ failure.pass = FALSE
  OBVIOUS
<1> HIDE DEF failure
<1>4. /\ DOMAIN Append(given, failure) = 1 .. Len(given) + 1 /\ Len(given) \in Nat
      /\ DOMAIN given = 1 .. Len(given)
      /\ Append(given, failure)[Len(given) + 1] = failure
      /\ \A i \in DOMAIN given : Append(given, failure)[i] = given[i]
  BY <1>1
<1>5. ASSUME NEW id \in Security, \A i \in DOMAIN given : given[i].caseId # id
      PROVE  ~Acceptable(v)
  <2>1. ASSUME NEW s \in Range(v.scores), s.caseId = id PROVE ~s.pass
    <3>1. PICK i \in DOMAIN Append(given, failure) : s = Append(given, failure)[i]
      BY <1>2 DEF Range
    <3>2. i \in DOMAIN given \/ i = Len(given) + 1
      BY <1>4
    <3> QED
      BY <1>3, <1>4, <1>5, <2>1, <3>1, <3>2
  <2> QED
    BY <2>1 DEF Acceptable, RequiredIds
<1>6. ASSUME KeySet \ Executed(g) # {} PROVE ~Acceptable(v)
  BY <1>6 DEF Acceptable
<1> QED
  BY <1>2, <1>5, <1>6 DEF Incomplete, given

\* A verdict and the published rule, where the code does not depart from it.
LEMMA PassesTheAcceptable ==
  ASSUME NEW g \in Gates, NEW v, v.saw = g, v.scores = Conclusion(g).scores
  PROVE  /\ Conclusion(g).passed /\ NamedApart(g) /\ ScoredOnce(v) => Acceptable(v)
         /\ Acceptable(v) /\ ~ExtraCaseFails(v) => Conclusion(g).passed
<1>1. CASE Incomplete(g, AllScores(g))
  BY <1>1, IncompleteFails
<1>2. CASE ~Incomplete(g, AllScores(g))
  <2> DEFINE given == AllScores(g)
             ids == {s.caseId : s \in Range(given)}
  <2>1. /\ v.scores = given /\ Executed(g) = KeySet /\ Security \subseteq ids
        /\ Conclusion(g).passed <=>
             /\ \A s \in Range(given) : s.pass
             /\ SuffixesAreUnique(given)
             /\ g.baseline.required \subseteq ids
             /\ PinsMatch(g)
    BY <1>2, PassFacts
  <2> HIDE DEF given
  <2>2. Acceptable(v) <=>
          /\ \A id \in RequiredIds(v) :
               /\ \E s \in Range(given) : s.caseId = id
               /\ \A s \in Range(given) : s.caseId = id => s.pass
          /\ \A i, j \in DOMAIN given :
               FinalSegment(given[i].caseId) = FinalSegment(given[j].caseId) => i = j
          /\ PinsAreCarried(g)
    BY <2>1 DEF Acceptable, PinsAreCarried
  <2>3. RequiredIds(v) = Security \cup g.baseline.required
    BY DEF RequiredIds
  <2>4. ASSUME Conclusion(g).passed, NamedApart(g), ScoredOnce(v) PROVE Acceptable(v)
    <3>1. \A s \in Range(given) : s.pass
      BY <2>1, <2>4
    <3>2. RequiredIds(v) \subseteq ids
      BY <2>1, <2>3, <2>4
    <3>3. \A i, j \in DOMAIN given :
            FinalSegment(given[i].caseId) = FinalSegment(given[j].caseId) => i = j
      BY <2>1, <2>4 DEF SuffixesAreUnique, ScoredOnce
    <3>4. PinsAreCarried(g)
      BY <2>1, <2>4, PinFacts
    <3> QED
      BY <2>2, <3>1, <3>2, <3>3, <3>4
  <2>5. ASSUME Acceptable(v), ~ExtraCaseFails(v) PROVE Conclusion(g).passed
    <3>1. \A s \in Range(given) : s.pass
      BY <2>1, <2>2, <2>5 DEF ExtraCaseFails
    <3>2. SuffixesAreUnique(given)
      BY <2>2, <2>5 DEF SuffixesAreUnique
    <3>3. g.baseline.required \subseteq ids
      BY <2>2, <2>3, <2>5
    <3>4. PinsMatch(g)
      BY <2>2, <2>5, PinFacts
    <3> QED
      BY <2>1, <3>1, <3>2, <3>3, <3>4
  <2> QED
    BY <2>4, <2>5
<1> QED
  BY <1>1, <1>2

\* What gates and editors leave behind is well typed, and the last verdict follows
\* the rules of what it saw.
GateInv == TypeOK /\ ExitFollowsThePassRules

\* An edit changes the repository within its types.
LEMMA EditsAreTyped ==
  ASSUME TypeOK, Edit
  PROVE  TypeOK'
<1>1. UNCHANGED <<gate, verdict, lastRun, runs>> /\ edits' \in 0 .. MaxEdits
  <2>1. Edited
    BY DEF Edit, RenameSuite, RedateSuite, RepromptSuite, AddCase, DropCase, ChangePrompt, DropSuite,
           WaiveCase, WaivePin
  <2> QED
    BY <2>1, BoundsAssumption DEF Edited, TypeOK
<1>2. files' \in [KeySet -> Suites]
  <2>1. ASSUME NEW k \in KeySet, NEW name \in Names, RenameSuite(k, name) PROVE files' \in [KeySet -> Suites]
    BY <2>1 DEF RenameSuite, TypeOK, Suites
  <2>2. ASSUME NEW k \in KeySet, NEW version \in Versions, RedateSuite(k, version) \/ RepromptSuite(k, version)
        PROVE  files' \in [KeySet -> Suites]
    BY <2>2 DEF RedateSuite, RepromptSuite, TypeOK, Suites, PromptVersions
  <2>3. ASSUME NEW k \in KeySet, NEW segment \in Segments, AddCase(k, segment) PROVE files' \in [KeySet -> Suites]
    <3>1. Append(files[k].cases, segment) \in Seq(Segments)
      BY DEF TypeOK, Suites
    <3> QED
      BY <2>3, <3>1 DEF AddCase, TypeOK, Suites
  <2>4. ASSUME NEW k \in KeySet, DropCase(k) PROVE files' \in [KeySet -> Suites]
    <3>1. files[k].cases \in Seq(Segments) /\ files[k].cases # <<>>
      BY <2>4 DEF DropCase, TypeOK, Suites
    <3>2. Tail(files[k].cases) \in Seq(Segments)
      BY <3>1
    <3> QED
      BY <2>4, <3>2 DEF DropCase, TypeOK, Suites
  <2> QED
    BY <2>1, <2>2, <2>3, <2>4 DEF Edit, ChangePrompt, DropSuite, WaiveCase, WaivePin, TypeOK
<1>3. baseline' \in Baselines
  <2>1. ASSUME NEW id \in CaseIds, WaiveCase(id) PROVE baseline' \in Baselines
    BY <2>1 DEF WaiveCase, TypeOK, Baselines
  <2>2. ASSUME NEW name \in Names, WaivePin(name) PROVE baseline' \in Baselines
    <3>1. PICK ns \in SUBSET Names : baseline.pins \in [ns -> Pins]
      BY DEF TypeOK, Baselines
    <3> DEFINE rest == [n \in DOMAIN baseline.pins \ {name} |-> baseline.pins[n]]
    <3>2. rest \in [ns \ {name} -> Pins] /\ ns \ {name} \in SUBSET Names
      BY <3>1
    <3>3. rest \in UNION {[ms -> Pins] : ms \in SUBSET Names}
      <4> HIDE DEF rest
      <4> QED
        BY <3>2
    <3>4. baseline' = [baseline EXCEPT !.pins = rest]
      BY <2>2 DEF WaivePin
    <3> HIDE DEF rest
    <3> QED
      BY <3>3, <3>4 DEF TypeOK, Baselines
  <2> QED
    BY <2>1, <2>2 DEF Edit, RenameSuite, RedateSuite, RepromptSuite, AddCase, DropCase, ChangePrompt,
                      DropSuite, TypeOK
<1>4. prompts' \in [KeySet -> PromptVersions]
  BY DEF Edit, RenameSuite, RedateSuite, RepromptSuite, AddCase, DropCase, ChangePrompt, DropSuite,
         WaiveCase, WaivePin, TypeOK, PromptVersions
<1>5. listed' \in Seq(KeySet)
  <2>1. ASSUME NEW i \in DOMAIN listed, DropSuite(i) PROVE listed' \in Seq(KeySet)
    <3>1. listed \in Seq(KeySet) /\ i \in 1 .. Len(listed)
      BY DEF TypeOK
    <3>2. SubSeq(listed, 1, i - 1) \in Seq(KeySet) /\ SubSeq(listed, i + 1, Len(listed)) \in Seq(KeySet)
      BY <3>1, Len(listed) \in Nat
    <3> QED
      BY <2>1, <3>2 DEF DropSuite, RemoveAt
  <2> QED
    BY <2>1 DEF Edit, RenameSuite, RedateSuite, RepromptSuite, AddCase, DropCase, ChangePrompt,
                WaiveCase, WaivePin, TypeOK
<1> QED
  BY <1>1, <1>2, <1>3, <1>4, <1>5 DEF TypeOK

\* A score joins those of its suite.
LEMMA CasesAreTyped ==
  ASSUME TypeOK, gate # None, NEW k \in Executed(gate), NEW pass \in BOOLEAN, RunCase(k, pass)
  PROVE  TypeOK'
<1> DEFINE suite == gate.suites[k]
           score == [caseId |-> <<suite.name, suite.cases[Len(gate.scores[k]) + 1]>>, pass |-> pass,
                     ranWith |-> prompts[k]]
<1>1. gate \in Gates /\ k \in KeySet
  BY DEF TypeOK, Executed, Gates
<1>2. gate.scores[k] \in Seq(Scores) /\ suite \in Suites /\ prompts[k] \in PromptVersions
  BY <1>1 DEF Gates, TypeOK
<1>3. Len(gate.scores[k]) < Len(suite.cases)
  BY DEF RunCase
<1>4. suite.cases[Len(gate.scores[k]) + 1] \in Segments
  <2>1. suite.cases \in Seq(Segments) /\ Len(gate.scores[k]) \in Nat
    BY <1>2 DEF Suites
  <2> HIDE DEF suite
  <2> QED
    BY <1>3, <2>1
<1>5. score \in Scores
  BY <1>2, <1>4 DEF Scores, CaseIds, Suites
<1>6. gate' = [gate EXCEPT !.scores[k] = Append(@, score)]
  BY DEF RunCase
<1> HIDE DEF score, suite
<1>7. Append(gate.scores[k], score) \in Seq(Scores)
  BY <1>2, <1>5
<1>8. gate' \in Gates
  BY <1>1, <1>6, <1>7 DEF Gates
<1> QED
  BY <1>8 DEF RunCase, repository, TypeOK

\* A verdict agrees with the published rule.
LEMMA VerdictsAreRight ==
  ASSUME TypeOK, gate # None, NEW written \in BOOLEAN, Decide(written)
  PROVE  ExitFollowsThePassRules'
<1>1. gate \in Gates
  BY DEF TypeOK
<1>2. /\ verdict'.saw = gate
      /\ verdict'.scores = Conclusion(gate).scores
      /\ verdict'.written = written
      /\ verdict'.exit = IF written /\ Conclusion(gate).passed THEN 0 ELSE 1
  BY DEF Decide
<1>3. /\ Conclusion(gate).passed /\ NamedApart(gate) /\ ScoredOnce(verdict') => Acceptable(verdict')
      /\ Acceptable(verdict') /\ ~ExtraCaseFails(verdict') => Conclusion(gate).passed
  BY <1>1, <1>2, PassesTheAcceptable
<1>4. /\ Acceptable(verdict)' <=> Acceptable(verdict')
      /\ ScoredOnce(verdict)' <=> ScoredOnce(verdict')
      /\ ExtraCaseFails(verdict)' <=> ExtraCaseFails(verdict')
  BY DEF Acceptable, Executed, RequiredIds, ScoredOnce, ExtraCaseFails
<1>5. NamedApart(verdict.saw)' <=> NamedApart(gate)
  BY <1>2 DEF NamedApart, Executed
<1>6. Conclusion(gate).passed \in BOOLEAN
  BY DEF Conclusion, BaselineOk
<1> QED
  BY <1>2, <1>3, <1>4, <1>5, <1>6 DEF ExitFollowsThePassRules

\* Initially.
LEMMA GateStarts == Init => GateInv
<1> SUFFICES ASSUME Init PROVE GateInv
  OBVIOUS
<1>1. listed \in Seq(KeySet)
  <2>1. Keys \in Seq(KeySet)
    BY KeysAssumption DEF KeySet, Range
  <2> QED
    BY <2>1 DEF Init
<1>2. prompts \in [KeySet -> PromptVersions]
  BY FilesAssumption DEF Init, Suites
<1> QED
  BY <1>1, <1>2, FilesAssumption, BoundsAssumption
  DEF Init, GateInv, TypeOK, ExitFollowsThePassRules, Decided, None

\* By cases on the next-state relation.
LEMMA GateSteps == GateInv /\ [Next]_vars => GateInv'
<1> SUFFICES ASSUME GateInv, [Next]_vars
             PROVE  GateInv'
  OBVIOUS
<1> USE DEF GateInv
<1>1. ASSUME UNCHANGED verdict PROVE ExitFollowsThePassRules'
  BY <1>1 DEF ExitFollowsThePassRules, Decided, NamedApart, Acceptable, Executed, RequiredIds,
     ScoredOnce, ExtraCaseFails
<1>2. CASE Edit
  <2>1. UNCHANGED verdict
    BY <1>2 DEF Edit, Edited, RenameSuite, RedateSuite, RepromptSuite, AddCase, DropCase, ChangePrompt,
                DropSuite, WaiveCase, WaivePin
  <2> QED
    BY <1>1, <1>2, <2>1, EditsAreTyped
<1>3. CASE StartGate
  <2>1. [k \in KeySet |-> <<>>] \in [KeySet -> Seq(Scores)]
    OBVIOUS
  <2>2. gate' \in Gates
    BY <1>3, <2>1 DEF StartGate, Gates, TypeOK
  <2>3. runs' \in 0 .. MaxRuns
    BY <1>3, BoundsAssumption DEF StartGate, TypeOK
  <2> QED
    BY <1>1, <1>3, <2>2, <2>3 DEF StartGate, repository, TypeOK
<1>4. ASSUME gate # None, NEW k \in Executed(gate), NEW pass \in BOOLEAN, RunCase(k, pass)
      PROVE  GateInv'
  BY <1>1, <1>4, CasesAreTyped DEF RunCase
<1>5. CASE gate # None /\ ExecutorThrows
  BY <1>5 DEF ExecutorThrows, repository, TypeOK, ExitFollowsThePassRules, Decided
<1>6. ASSUME gate # None, NEW written \in BOOLEAN, Decide(written) PROVE GateInv'
  BY <1>6, VerdictsAreRight DEF Decide, repository, TypeOK
<1>7. CASE UNCHANGED vars
  BY <1>1, <1>7 DEF vars, repository, TypeOK
<1> QED
  BY <1>2, <1>3, <1>4, <1>5, <1>6, <1>7 DEF Next

\* Every variable of the gate has a value of its type.
THEOREM GateTypeCorrect == Spec => []TypeOK
<1>1. GateInv => TypeOK
  BY DEF GateInv
<1> QED
  BY <1>1, GateStarts, GateSteps, PTL DEF Spec

\* CI is told 0 for no run the published rule refuses, unless suites share a name or a
\* case is scored twice, and for every recorded run it accepts, unless an extra case
\* fails: whatever the suites, the membership, the baseline and the edits.
THEOREM ExitTellsTheRules == Spec => []ExitFollowsThePassRules
<1>1. GateInv => ExitFollowsThePassRules
  BY DEF GateInv
<1> QED
  BY <1>1, GateStarts, GateSteps, PTL DEF Spec

-----------------------------------------------------------------------------
(* The record is of the run it names: while a gate runs, the file is an    *)
(* earlier gate's.                                                         *)
RecordInv ==
    /\ runs \in Nat
    /\ lastRun.state = "written" =>
         /\ lastRun.run \in Nat
         /\ lastRun.run <= runs
         /\ gate # None => lastRun.run < runs
    /\ RecordAgreesWithExit

\* By cases on the next-state relation.
LEMMA RecordStep == RecordInv /\ [Next]_vars => RecordInv'
<1> SUFFICES ASSUME RecordInv, [Next]_vars
             PROVE  RecordInv'
  OBVIOUS
<1> USE DEF RecordInv
<1>1. ASSUME UNCHANGED <<gate, verdict, lastRun, runs>> PROVE RecordInv'
  BY <1>1 DEF RecordAgreesWithExit, Decided
<1>2. CASE Edit
  <2>1. UNCHANGED <<gate, verdict, lastRun, runs>>
    BY <1>2 DEF Edit, Edited, RenameSuite, RedateSuite, RepromptSuite, AddCase, DropCase,
                ChangePrompt, DropSuite, WaiveCase, WaivePin
  <2> QED BY <1>1, <2>1
<1>3. CASE StartGate
  BY <1>3 DEF StartGate, RecordAgreesWithExit, Decided, None
<1>4. ASSUME gate # None, NEW k, NEW pass, RunCase(k, pass) PROVE RecordInv'
  BY <1>4 DEF RunCase, RecordAgreesWithExit, Decided
<1>5. CASE gate # None /\ ExecutorThrows
  BY <1>5 DEF ExecutorThrows, RecordAgreesWithExit, Decided, None
<1>6. ASSUME gate # None, NEW written \in BOOLEAN, Decide(written) PROVE RecordInv'
  <2>1. /\ verdict'.run = runs
        /\ verdict'.exit = IF written /\ Conclusion(gate).passed THEN 0 ELSE 1
        /\ gate' = None
        /\ runs' = runs
    BY <1>6 DEF Decide, repository
  <2>2. CASE written
    <3>1. /\ lastRun'.state = "written"
          /\ lastRun'.run = runs
          /\ lastRun'.status = Conclusion(gate).status
      BY <1>6, <2>2 DEF Decide
    <3>2. (lastRun'.status = "passed") = (verdict'.exit = 0)
      <4>1. (Conclusion(gate).status = "passed") = Conclusion(gate).passed
        BY StatusIsTheVerdict
      <4>2. CASE Conclusion(gate).passed
        BY <2>1, <2>2, <3>1, <4>1, <4>2
      <4>3. CASE ~Conclusion(gate).passed
        <5>1. verdict'.exit = 1
          BY <2>1, <4>3
        <5>2. lastRun'.status # "passed"
          BY <3>1, <4>1, <4>3
        <5> QED
          BY <5>1, <5>2
      <4> QED
        BY <4>2, <4>3
    <3> QED
      BY <2>1, <3>1, <3>2 DEF RecordAgreesWithExit
  <2>3. CASE ~written
    <3>1. lastRun' = lastRun
      BY <1>6, <2>3 DEF Decide
    <3>2. lastRun'.state = "written" => lastRun'.run # verdict'.run
      BY <1>6, <2>1, <3>1
    <3> QED
      BY <2>1, <3>1, <3>2 DEF RecordAgreesWithExit
  <2> QED
    BY <2>2, <2>3
<1>7. CASE UNCHANGED vars
  BY <1>1, <1>7 DEF vars
<1> QED
  BY <1>2, <1>3, <1>4, <1>5, <1>6, <1>7 DEF Next

(* last-run.json and the exit code never tell two stories of one run.      *)
THEOREM RecordTellsTheExit == Spec => []RecordAgreesWithExit
<1>1. Init => RecordInv
  BY DEF Init, RecordInv, RecordAgreesWithExit, Decided, None
<1>2. RecordInv => RecordAgreesWithExit
  BY DEF RecordInv
<1> QED
  BY <1>1, <1>2, RecordStep, PTL DEF Spec
=============================================================================
