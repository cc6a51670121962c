-------------------------- MODULE SessionCallScore --------------------------
(***************************************************************************)
(* The score of a finished call: scoreSessionCall                          *)
(* (src/src/application/score-session-call.ts), computed by                *)
(* ensureSessionEvaluation from the report of one session, stored with it, *)
(* and recomputed when an operator asks.                                   *)
(*                                                                         *)
(* Scoring is not one step.  The rows are read first, by the hosted        *)
(* adapter one table after another, and the score is stored by a later     *)
(* request: rows and other scorers' evaluations come in between.  Requests *)
(* that fail, and sessions written back as they were, are                  *)
(* SupabasePersistence's.                                                  *)
(*                                                                         *)
(* One session's rows grow while it lives and after it ended.  A text is   *)
(* what the scorer sees in it: which result leaves it contains, whether it *)
(* holds a forbidden or secret-shaped phrase, whether it has a Spanish     *)
(* cue.  A result is the sequence of its leaves in the order they are      *)
(* collected, without repetition.                                          *)
(***************************************************************************)
EXTENDS Integers, SequencesExt

CONSTANTS
  DemoTools,     \* DEMO_TOOL_NAMES
  OtherTools,    \* the names of other tools
  Leaves,        \* strings, numbers and booleans of results
  ShortLeaves,   \* those of fewer than two characters
  MaxTokens,     \* the number of tokens kept, 24 in the code
  Flag,          \* the leaf of {ok: true} and of {truncated: true}
  Results,       \* results a call may bring
  Texts,         \* texts a turn may have
  Hosted,        \* whether reports come from the hosted adapter
  Scorers,       \* calls of ensureSessionEvaluation that may be under way at once
  MaxToolCalls,  \* bound on the tool call rows
  MaxTurns,      \* bound on the turn rows
  NoValue

ASSUME RowsAssumption ==
  /\ DemoTools \cap OtherTools = {}
  /\ \A result \in Results : result \in Seq(Leaves)
  /\ Flag \in Leaves \ ShortLeaves
  /\ Texts \subseteq [contains : SUBSET Leaves, breach : BOOLEAN, spanish : BOOLEAN]
  /\ MaxTokens \in Nat \ {0}
  /\ Hosted \in BOOLEAN

VARIABLES
  toolCalls,   \* the session's tool call rows, in the order they were stored;
               \* brought is the tool's whole result, which no row keeps
  transcript,  \* its turn rows, by index
  finished,    \* whether the session is completed or failed
  evaluation,  \* the evaluation stored with the session
  stage,       \* what each scorer does next: it is idle, reads turns, reads
               \* tool calls or saves
  read         \* what each scorer has read, and the evaluation it found

rowVars == <<toolCalls, transcript, finished>>
scoreVars == <<toolCalls, transcript, finished, evaluation, stage, read>>

Verdicts == {"met", "partial", "unmet"}
Statuses == {"succeeded", "failed", "timed_out", "denied"}

-----------------------------------------------------------------------------
(* The report the scorer reads.                                            *)

\* The id of a copy of stored row n, made anew: no stored row has it.
CopyId(n) == -n

\* The turns as the adapter hands them out: its own rows, or the copies the
\* hosted adapter makes through a MemoryPersistence, by sequence number.
TurnRows ==
  IF Hosted
  THEN [i \in DOMAIN transcript |-> [transcript[i] EXCEPT !.id = CopyId(i)]]
  ELSE transcript

\* The tool calls likewise: the hosted adapter selects them without an order, so
\* they come in any.
ToolRows ==
  IF Hosted
  THEN {[i \in DOMAIN toolCalls |->
           [toolCalls[order[i]] EXCEPT !.id = CopyId(order[i])]] :
          order \in Bijection(DOMAIN toolCalls, DOMAIN toolCalls)}
  ELSE {toolCalls}

\* What a scorer reads of the session as it stands.
Reports == {[toolCalls |-> calls, transcript |-> TurnRows] : calls \in ToolRows}

-----------------------------------------------------------------------------
(* scoreSessionCall.                                                       *)

\* Where the report has calls of demo tools that ended so.
CallsOf(report, statuses) ==
  {i \in DOMAIN report.toolCalls :
     report.toolCalls[i].toolName \in DemoTools /\ report.toolCalls[i].status \in statuses}

Succeeded(report) == CallsOf(report, {"succeeded"})
Failed(report)    == CallsOf(report, {"failed", "timed_out", "denied"})

\* primarySuccess and primaryFailed, where there is one.
FirstCall(report, calls) == report.toolCalls[Min(calls)]

AssistantTurns(report) ==
  {i \in DOMAIN report.transcript : report.transcript[i].role = "assistant"}

\* finalAssistant, where there is one.
FinalAssistant(report) == report.transcript[Max(AssistantTurns(report))]

ToolRef(call) == [kind |-> "tool_call", id |-> call.id]
TurnRef(turn) == [kind |-> "turn", id |-> turn.id]

\* The first tokens of a result that are long enough to mean something.
DistinctiveTokens(result) ==
  LET long == SelectSeq(result, LAMBDA leaf : leaf \notin ShortLeaves)
  IN  ToSet(SubSeq(long, 1, IF Len(long) < MaxTokens THEN Len(long) ELSE MaxTokens))

ScoreToolSelection(report) ==
  IF Succeeded(report) # {}
  THEN [verdict |-> "met", evidence |-> {ToolRef(FirstCall(report, Succeeded(report)))}]
  ELSE [verdict |-> "unmet",
        evidence |-> IF Failed(report) = {} THEN {}
                     ELSE {ToolRef(FirstCall(report, Failed(report)))}]

\* The first successful call's result against the last assistant turn.
Grounds(call, turn) == DistinctiveTokens(call.result) \cap turn.text.contains # {}

\* Mutant: a call without a reply is only partly grounded.
SilenceIsPartial(report) ==
  IF Succeeded(report) = {}
  THEN [verdict |-> "unmet", evidence |-> {}]
  ELSE [verdict |-> "partial", evidence |-> {ToolRef(FirstCall(report, Succeeded(report)))}]

ScoreGroundedAnswer(report) ==
  IF Succeeded(report) = {}
  THEN [verdict |-> "unmet", evidence |-> {}]
  ELSE LET call == FirstCall(report, Succeeded(report))
       IN  IF AssistantTurns(report) = {}
           THEN [verdict |-> "unmet", evidence |-> {ToolRef(call)}]
           ELSE LET turn == FinalAssistant(report)
                IN  [verdict  |-> IF Grounds(call, turn) THEN "met" ELSE "partial",
                     evidence |-> {ToolRef(call), TurnRef(turn)}]

ScoreGoalAchieved(selection, grounded) ==
  IF selection.verdict = "met" THEN grounded.verdict ELSE "unmet"

\* Every turn is inspected, the user's too; the first breach decides.
ScorePolicyCompliance(report) ==
  LET breaches == {i \in DOMAIN report.transcript : report.transcript[i].text.breach}
      spanish  == \E i \in DOMAIN report.transcript : report.transcript[i].text.spanish
  IN  IF breaches # {}
      THEN [verdict |-> "unmet", evidence |-> {TurnRef(report.transcript[Min(breaches)])}]
      ELSE [verdict  |-> IF spanish \/ report.transcript = <<>> THEN "met" ELSE "partial",
            evidence |-> {}]

DeriveOverall(verdicts) ==
  IF verdicts = {"met"} THEN "passed"
  ELSE IF "unmet" \in verdicts THEN "failed"
  ELSE "partial"

ScoreSessionCall(report) ==
  LET selection == ScoreToolSelection(report)
      grounded  == ScoreGroundedAnswer(report)
      goal      == ScoreGoalAchieved(selection, grounded)
      policy    == ScorePolicyCompliance(report)
  IN  [overallStatus     |-> DeriveOverall({goal, selection.verdict, grounded.verdict, policy.verdict}),
       goal_achieved     |-> goal,
       tool_selection    |-> selection.verdict,
       grounded_answer   |-> grounded.verdict,
       policy_compliance |-> policy.verdict,
       evidence          |-> selection.evidence \cup grounded.evidence \cup policy.evidence]

-----------------------------------------------------------------------------
(* The life of a session's rows and of its evaluation.                     *)

ScoreInit ==
  /\ toolCalls = <<>>
  /\ transcript = <<>>
  /\ finished = FALSE
  /\ evaluation = NoValue
  /\ stage = [s \in Scorers |-> "idle"]
  /\ read = [s \in Scorers |-> NoValue]

\* What of a successful call's result its row keeps.  The channel's tools route
\* stores the result, unless it is too long; the agent's tool span stores only
\* that there was one.
Stored(source, result) ==
  IF source = "channel" THEN {result, <<Flag>>} ELSE {<<Flag>>}

RecordToolCall(source, toolName, status, result) ==
  /\ Len(toolCalls) < MaxToolCalls
  /\ status # "succeeded" => result = <<>>
  /\ \E stored \in IF status = "succeeded" THEN Stored(source, result) ELSE {<<>>} :
       toolCalls' = Append(toolCalls,
         [id |-> Len(toolCalls) + 1, source |-> source, toolName |-> toolName,
          status |-> status, result |-> stored, brought |-> result])
  /\ UNCHANGED <<transcript, finished, evaluation, stage, read>>

RecordTurn(role, text) ==
  /\ Len(transcript) < MaxTurns
  /\ transcript' = Append(transcript, [id |-> Len(transcript) + 1, role |-> role, text |-> text])
  /\ UNCHANGED <<toolCalls, finished, evaluation, stage, read>>

CallEnds ==
  /\ ~finished
  /\ finished' = TRUE
  /\ UNCHANGED <<toolCalls, transcript, evaluation, stage, read>>

\* A finished session is scored when it has no evaluation or when forced; a call
\* that finds otherwise returns what it found.  The memory adapter reads every row
\* at once, the hosted adapter the session's own first.
ReadSession(s, force) ==
  /\ stage[s] = "idle"
  /\ finished
  /\ evaluation = NoValue \/ force
  /\ read' = [read EXCEPT ![s] =
       [toolCalls  |-> IF Hosted THEN <<>> ELSE toolCalls,
        transcript |-> IF Hosted THEN <<>> ELSE TurnRows,
        evaluation |-> evaluation]]
  /\ stage' = [stage EXCEPT ![s] = IF Hosted THEN "turns" ELSE "save"]
  /\ UNCHANGED <<rowVars, evaluation>>

ReadTurns(s) ==
  /\ stage[s] = "turns"
  /\ read' = [read EXCEPT ![s].transcript = TurnRows]
  /\ stage' = [stage EXCEPT ![s] = "tools"]
  /\ UNCHANGED <<rowVars, evaluation>>

\* Mutant: the session's own row is read after the others.
SessionReadLast(s) ==
  /\ stage[s] = "tools"
  /\ \E calls \in ToolRows :
       read' = [read EXCEPT ![s].toolCalls = calls, ![s].evaluation = evaluation]
  /\ stage' = [stage EXCEPT ![s] = "save"]
  /\ UNCHANGED <<rowVars, evaluation>>

\* The events, which are read last, score nothing.
ReadTools(s) ==
  /\ stage[s] = "tools"
  /\ \E calls \in ToolRows : read' = [read EXCEPT ![s].toolCalls = calls]
  /\ stage' = [stage EXCEPT ![s] = "save"]
  /\ UNCHANGED <<rowVars, evaluation>>

\* The score of what was read is stored over whatever the session has by now.
SaveEvaluation(s) ==
  /\ stage[s] = "save"
  /\ evaluation' = ScoreSessionCall(read[s])
  /\ read' = [read EXCEPT ![s] = NoValue]
  /\ stage' = [stage EXCEPT ![s] = "idle"]
  /\ UNCHANGED rowVars

EnsureSessionEvaluation(s) ==
  \/ \E force \in BOOLEAN : ReadSession(s, force)
  \/ ReadTurns(s)
  \/ ReadTools(s)
  \/ SaveEvaluation(s)

ScoreNext ==
  \/ \E source \in {"channel", "agent"}, toolName \in DemoTools \cup OtherTools,
        status \in Statuses, result \in Results \cup {<<>>} :
       RecordToolCall(source, toolName, status, result)
  \/ \E role \in {"user", "assistant"}, text \in Texts : RecordTurn(role, text)
  \/ CallEnds
  \/ \E s \in Scorers : EnsureSessionEvaluation(s)

ScoreSpec == ScoreInit /\ [][ScoreNext]_scoreVars

-----------------------------------------------------------------------------
(* Properties.                                                             *)

\* Only a finished session has an evaluation, of the verdicts the domain names.
ScoreTypeOK ==
  evaluation # NoValue =>
    /\ finished
    /\ evaluation.overallStatus \in {"passed", "partial", "failed"}
    /\ {evaluation.goal_achieved, evaluation.tool_selection,
        evaluation.grounded_answer, evaluation.policy_compliance} \subseteq Verdicts

\* Some demo tool succeeded, and the assistant said something, before or after.
Answered ==
  /\ \E i \in DOMAIN toolCalls :
       toolCalls[i].toolName \in DemoTools /\ toolCalls[i].status = "succeeded"
  /\ \E i \in DOMAIN transcript : transcript[i].role = "assistant"

Breached == \E i \in DOMAIN transcript : transcript[i].text.breach

\* Whatever the order the rows are reported in, a call fails exactly when no demo
\* tool succeeded, nobody answered, or somebody breached the policy: no partial
\* verdict outweighs one of these, and nothing else fails a call.
FailedForAReason ==
  \A report \in Reports :
    (ScoreSessionCall(report).overallStatus = "failed") = (~Answered \/ Breached)

\* The verdicts that the growth of the rows cannot take back.
Lost(verdicts, later) ==
  \/ verdicts.policy_compliance = "unmet" /\ later.policy_compliance # "unmet"
  \/ verdicts.tool_selection = "met" /\ later.tool_selection # "met"

\* A scorer that replaces the very evaluation it found neither lifts a breach nor
\* takes a successful selection back, although its tables are read one by one
\* while rows come in, in any order: it has read the rows that verdict rests on.
RescoringKeepsVerdicts ==
  [][\A s \in Scorers :
       /\ stage[s] = "save" /\ stage'[s] = "idle"
       /\ evaluation # NoValue /\ read[s].evaluation = evaluation
       => ~Lost(evaluation, evaluation')]_scoreVars

\* A verdict that rows cannot take back is never taken back at all, once stored
\* (session-call-evaluation/spec.md: a recompute runs "over the current persisted
\* evidence").
VerdictsAreForever ==
  [][evaluation # NoValue => ~Lost(evaluation, evaluation')]_scoreVars

\* Each piece of evidence names a row that is stored for the session
\* (docs/evaluation-call.md: "The scorer never invents missing row ids").
EvidenceIsStored ==
  evaluation # NoValue =>
    \A ref \in evaluation.evidence :
      \/ ref.kind = "tool_call" /\ \E i \in DOMAIN toolCalls : toolCalls[i].id = ref.id
      \/ ref.kind = "turn" /\ \E i \in DOMAIN transcript : transcript[i].id = ref.id

\* The same rows always score the same (docs/evaluation-call.md: "Deterministic,
\* explainable scoring ... using only HU #011 persisted evidence").
SameRowsSameScore ==
  \A one, other \in Reports :
    ScoreSessionCall(one).overallStatus = ScoreSessionCall(other).overallStatus

\* A call whose one tool the agent ran, and whose final answer repeats what the
\* tool brought, meets its goal (docs/evaluation-call.md: "Goal `met` when correct
\* tool succeeded and final assistant text overlaps distinctive tool-result
\* tokens").
AgentAnswerMeetsTheGoal ==
  \A report \in Reports :
    /\ Len(report.toolCalls) = 1
    /\ Succeeded(report) = {1}
    /\ report.toolCalls[1].source = "agent"
    /\ AssistantTurns(report) # {}
    /\ DistinctiveTokens(report.toolCalls[1].brought)
         \cap FinalAssistant(report).text.contains # {}
    => ScoreSessionCall(report).goal_achieved = "met"

\* When several tools succeeded, the goal is met if the final assistant text
\* overlaps the stored result of any one of them (docs/evaluation-call.md, the
\* same sentence).
SecondToolMeetsTheGoal ==
  \A report \in Reports :
    (\E i \in Succeeded(report) :
       AssistantTurns(report) # {} /\ Grounds(report.toolCalls[i], FinalAssistant(report)))
    => ScoreSessionCall(report).goal_achieved = "met"
=============================================================================
