-------------------------- MODULE AgentTurn_proofs --------------------------
(***************************************************************************)
(* Theorems about the agent's turn, for any tools, allowlists, catalog and *)
(* timers, and about the evidence it is given, for any documents, chunk    *)
(* sizes, scores and limits.                                               *)
(*                                                                         *)
(* The budget is the interesting one.  By itself it is not inductive: that *)
(* a wait which starts now still fits needs to know how much the turn has  *)
(* used up, and that follows from what it has spent so far, the retry and  *)
(* the hop.  TimeInv says so for each state of the turn.                   *)
(***************************************************************************)
EXTENDS GroundedTurn, FiniteSetTheorems, SequenceTheorems, TLAPS

RetryTime == IF retryUsed THEN LlmTimeout ELSE 0
HopTime   == IF packed THEN LlmTimeout + ToolTimeout ELSE 0

\* How late a wait can have begun, and the wait itself.
TimeInv ==
  /\ state = "retrieving" => now = 0
  /\ state = "reasoning" => since <= RetryTime + HopTime /\ now <= since + LlmTimeout
  /\ state = "awaiting_tool" => /\ since <= RetryTime + LlmTimeout
                                /\ body = "running" => now <= since + ToolTimeout
                                /\ body = "none" => now = since
  /\ now <= TurnBudget

\* What has been spent shows in the turn's flags.
SpentInv ==
  /\ state = "retrieving" => modelCalls = 0 /\ ~retryUsed /\ ~packed /\ hops = 0 /\ body = "none"
  /\ modelCalls <= 1 + (IF retryUsed THEN 1 ELSE 0) + (IF packed THEN 1 ELSE 0)
  /\ hops = 0 => ~packed /\ body = "none"
  /\ state = "awaiting_tool" => ~packed /\ body # "settled" /\ call # NoValue
  /\ state = "awaiting_tool" /\ body = "none" => Refusal(call) \in ErrorCodes

TurnInv ==
  /\ TypeOK
  /\ SpentInv
  /\ TimeInv
  /\ OnlyAuthorizedToolsRun
  /\ NoReplyAfterFailedTool

-----------------------------------------------------------------------------
\* A tool that may run has a budget, no longer than the turn's tool timer.
LEMMA ToolBudgetBound ==
  ASSUME NEW t, Executable(t)
  PROVE  ToolBudget(t) \in Nat /\ ToolBudget(t) <= ToolTimeout
BY ToolsAssumption, TimeoutsAssumption DEF Executable, ToolBudget, CatalogEntries

\* Without a refusal the tool may run, and its arguments are valid.
LEMMA UnrefusedRuns ==
  ASSUME NEW c \in Calls, Refusal(c) = NoValue
  PROVE  Executable(c.toolName) /\ c.validArgs
BY NoValueAssumption DEF Refusal, ErrorCodes, Calls

\* A turn starts with nothing running and nothing spent.
LEMMA InitInv == Init => TurnInv
<1> SUFFICES ASSUME Init PROVE TurnInv
  OBVIOUS
<1>1. TypeOK
  <2>1. 0 \in 0 .. 1
    OBVIOUS
  <2>2. retryUsed \in BOOLEAN /\ packed \in BOOLEAN
    BY DEF Init
  <2> QED
    BY <2>1, <2>2 DEF Init, TypeOK
<1>3. SpentInv
  BY DEF Init, SpentInv
<1>4. OnlyAuthorizedToolsRun /\ NoReplyAfterFailedTool
  BY DEF Init, OnlyAuthorizedToolsRun, NoReplyAfterFailedTool
<1>2. TimeInv
  BY TimeoutsAssumption DEF Init, TimeInv, TurnBudget
<1> QED
  BY <1>1, <1>2, <1>3, <1>4 DEF TurnInv

\* A step that ends the turn keeps the invariant, whatever the code.
LEMMA FailKeepsInv ==
  ASSUME TurnInv, NEW code \in ErrorCodes, Fail(code),
         UNCHANGED <<retryUsed, hops, call, packed>>,
         body' = body \/ (body = "running" /\ body' = "settled"),
         answer' \in {NoValue, "reply", "malformed", "prose", "tool"}
  PROVE  TurnInv'
BY DEF TurnInv, Fail, TypeOK, SpentInv, TimeInv, OnlyAuthorizedToolsRun,
       NoReplyAfterFailedTool, MAX_TOOL_HOPS, TurnBudget, ErrorCodes

\* Time passes only up to the next timer, so the clock stays inside the
\* budget of the hops and retries already spent.
LEMMA TickKeepsInv ==
  ASSUME TurnInv, Tick
  PROVE  TurnInv'
<1>1. CASE state = "reasoning"
  <2>1. now' <= since + LlmTimeout
    BY <1>1, TimeoutsAssumption DEF TurnInv, TypeOK, Tick, Due
  <2> QED
    BY <1>1, <2>1, TimeoutsAssumption
       DEF TurnInv, Tick, TypeOK, SpentInv, TimeInv, OnlyAuthorizedToolsRun,
           NoReplyAfterFailedTool, TurnBudget, RetryTime, HopTime
<1>2. CASE state = "awaiting_tool"
  <2>1. body = "running"
    BY <1>2 DEF TurnInv, TypeOK, SpentInv, TimeInv, Tick, Due
  <2>2. Executable(call.toolName)
    BY <2>1 DEF TurnInv, OnlyAuthorizedToolsRun, Executable, HIGH_RISK
  <2>3. now' <= since + ToolTimeout
    BY <1>2, <2>1, <2>2, ToolBudgetBound, TimeoutsAssumption DEF TurnInv, TypeOK, Tick, Due
  <2> QED
    BY <1>2, <2>1, <2>3, TimeoutsAssumption
       DEF TurnInv, Tick, TypeOK, SpentInv, TimeInv, OnlyAuthorizedToolsRun,
           NoReplyAfterFailedTool, TurnBudget, RetryTime, HopTime
<1> QED
  BY <1>1, <1>2 DEF Tick

\* Retrieval, done or failed, leads to the first model call or to the end.
LEMMA RetrieveKeepsInv ==
  ASSUME TurnInv, Retrieve
  PROVE  TurnInv'
<1>1. CASE AskModel
  BY <1>1, TimeoutsAssumption
     DEF TurnInv, Retrieve, AskModel, TypeOK, SpentInv, TimeInv, OnlyAuthorizedToolsRun,
         NoReplyAfterFailedTool, TurnBudget, RetryTime, HopTime, MAX_TOOL_HOPS
<1>2. CASE Fail("retrieval_failed") /\ UNCHANGED answer
  BY <1>2, FailKeepsInv DEF Retrieve, ErrorCodes, TurnInv, TypeOK
<1> QED
  BY <1>1, <1>2 DEF Retrieve

\* A model reply that ends the turn: an answer, or prose that is not JSON.
LEMMA ModelAnswersKeepInv ==
  ASSUME TurnInv,
         \/ \E sensitive \in BOOLEAN : ModelReplies(sensitive)
         \/ ModelSpeaksProse \/ ProviderFails \/ ModelTimesOut
  PROVE  TurnInv'
<1>1. CASE \E code \in ErrorCodes :
             /\ Fail(code)
             /\ answer' \in {NoValue, "reply", "malformed", "prose", "tool"}
             /\ UNCHANGED <<retryUsed, hops, call, body, packed>>
  BY <1>1, FailKeepsInv
<1>2. CASE ModelReplies(FALSE)
  BY <1>2, TimeoutsAssumption
     DEF ModelReplies, TurnInv, TypeOK, SpentInv, TimeInv, OnlyAuthorizedToolsRun,
         NoReplyAfterFailedTool, TurnBudget, RetryTime, HopTime
<1>3. CASE ModelReplies(TRUE)
  BY <1>1, <1>3 DEF ModelReplies, ErrorCodes
<1>4. CASE ModelSpeaksProse \/ ProviderFails \/ ModelTimesOut
  BY <1>1, <1>4 DEF ModelSpeaksProse, ProviderFails, ModelTimesOut, ErrorCodes, TurnInv, TypeOK
<1> QED
  BY <1>2, <1>3, <1>4

\* An invalid decision spends the one retry of the turn or ends it.
LEMMA ModelErrsKeepsInv ==
  ASSUME TurnInv, ModelErrs
  PROVE  TurnInv'
<1>1. CASE ~retryUsed /\ retryUsed' = TRUE /\ AskModel
  BY <1>1, TimeoutsAssumption
     DEF ModelErrs, AskModel, TurnInv, TypeOK, SpentInv, TimeInv, OnlyAuthorizedToolsRun,
         NoReplyAfterFailedTool, TurnBudget, RetryTime, HopTime
<1>2. CASE answer' = "malformed" /\ Fail("invalid_output") /\ UNCHANGED retryUsed
  BY <1>2, FailKeepsInv DEF ModelErrs, ErrorCodes
<1> QED
  BY <1>1, <1>2 DEF ModelErrs

\* A proposal starts a tool only once both allowlists have passed.
LEMMA ModelProposesKeepsInv ==
  ASSUME TurnInv, NEW c \in Calls, ModelProposes(c)
  PROVE  TurnInv'
<1>1. CASE Fail("tool_denied") /\ UNCHANGED <<hops, call, body>>
  BY <1>1, FailKeepsInv DEF ModelProposes, ErrorCodes
<1>2. CASE /\ hops < MAX_TOOL_HOPS /\ c.toolName \in AllowedTools
           /\ state' = "awaiting_tool" /\ hops' = hops + 1 /\ call' = c
           /\ body' = IF Refusal(c) = NoValue THEN "running" ELSE "none"
           /\ since' = now
           /\ UNCHANGED <<modelCalls, result, now>>
  <2>1. hops = 0 /\ ~packed /\ body = "none"
    BY <1>2 DEF TurnInv, TypeOK, SpentInv, MAX_TOOL_HOPS
  <2>2. OnlyAuthorizedToolsRun'
    <3>1. CASE Refusal(c) = NoValue
      <4>1. Executable(c.toolName) /\ c.validArgs
        BY <3>1, UnrefusedRuns
      <4>2. Catalog[c.toolName].riskClass = "read"
        BY <4>1, ToolsAssumption DEF Executable, HIGH_RISK, CatalogEntries
      <4> QED
        BY <1>2, <4>1, <4>2 DEF OnlyAuthorizedToolsRun, Executable
    <3>2. CASE Refusal(c) # NoValue
      BY <1>2, <3>2 DEF OnlyAuthorizedToolsRun
    <3> QED
      BY <3>1, <3>2
  <2>3. Refusal(c) # NoValue => Refusal(c) \in ErrorCodes
    BY DEF Refusal, ErrorCodes
  <2>5. Refusal(call)' = Refusal(c)
    BY <1>2 DEF Refusal
  <2>6. TypeOK' /\ SpentInv' /\ NoReplyAfterFailedTool'
    BY <1>2, <2>1, <2>3, <2>5, NoValueAssumption
       DEF ModelProposes, TurnInv, TypeOK, SpentInv, NoReplyAfterFailedTool, MAX_TOOL_HOPS
  <2>4. TimeInv'
    BY <1>2, <2>1, TimeoutsAssumption
       DEF ModelProposes, TurnInv, TypeOK, TimeInv, TurnBudget, RetryTime, HopTime
  <2> QED
    BY <2>2, <2>4, <2>6 DEF TurnInv
<1> QED
  BY <1>1, <1>2 DEF ModelProposes

\* The port refuses with one of two codes, and the turn fails with it.
LEMMA ToolRefusedKeepsInv ==
  ASSUME TurnInv, ToolRefused
  PROVE  TurnInv'
<1>1. Refusal(call) \in ErrorCodes
  BY DEF ToolRefused, TurnInv, SpentInv
<1> QED
  BY <1>1, FailKeepsInv DEF ToolRefused, TurnInv, TypeOK

\* A tool that settles, in time, with an error or late, ends its hop.
LEMMA ToolAnswersKeepInv ==
  ASSUME TurnInv, ToolSucceeds \/ ToolErrs \/ ToolTimesOut \/ BodySettlesLate
  PROVE  TurnInv'
<1>1. CASE ToolSucceeds
  <2>1. now <= since + ToolTimeout /\ since <= RetryTime + LlmTimeout
    BY <1>1 DEF ToolSucceeds, TurnInv, TimeInv
  <2>2. TimeInv'
    BY <1>1, <2>1, TimeoutsAssumption
       DEF ToolSucceeds, AskModel, TurnInv, TypeOK, TimeInv, TurnBudget, RetryTime, HopTime
  <2> QED
    BY <1>1, <2>2
       DEF ToolSucceeds, AskModel, TurnInv, TypeOK, SpentInv, OnlyAuthorizedToolsRun,
           NoReplyAfterFailedTool, MAX_TOOL_HOPS
<1>2. CASE ToolErrs
  BY <1>2, FailKeepsInv DEF ToolErrs, ErrorCodes, TurnInv, TypeOK
<1>3. CASE ToolTimesOut
  BY <1>3, FailKeepsInv DEF ToolTimesOut, ErrorCodes, TurnInv, TypeOK
<1>4. CASE BodySettlesLate
  BY <1>4
     DEF BodySettlesLate, Ended, TurnInv, TypeOK, SpentInv, TimeInv, OnlyAuthorizedToolsRun,
         NoReplyAfterFailedTool, TurnBudget
<1> QED
  BY <1>1, <1>2, <1>3, <1>4

\* Every step of the turn keeps the invariant.
LEMMA NextInv == TurnInv /\ [Next]_vars => TurnInv'
<1> SUFFICES ASSUME TurnInv, [Next]_vars PROVE TurnInv'
  OBVIOUS
<1>1. CASE Model
  BY <1>1, ModelAnswersKeepInv, ModelErrsKeepsInv, ModelProposesKeepsInv DEF Model
<1>2. CASE Tool
  BY <1>2, ToolAnswersKeepInv DEF Tool
<1>3. CASE Runtime
  BY <1>3, RetrieveKeepsInv, ToolRefusedKeepsInv, ModelAnswersKeepInv, ToolAnswersKeepInv
     DEF Runtime
<1>4. CASE Tick
  BY <1>4, TickKeepsInv
<1>5. CASE UNCHANGED vars
  BY <1>5
     DEF vars, TurnInv, TypeOK, SpentInv, TimeInv, OnlyAuthorizedToolsRun,
         NoReplyAfterFailedTool, TurnBudget, RetryTime, HopTime, Refusal
<1> QED
  BY <1>1, <1>2, <1>3, <1>4, <1>5 DEF Next

\* The strengthened invariant holds of every turn (handleAgentTurn).
THEOREM TurnInvariance == Spec => []TurnInv
<1> QED
  BY InitInv, NextInv, PTL DEF Spec

\* Every variable of the turn keeps its type (handleAgentTurn).
THEOREM TurnTypeCorrect == Spec => []TypeOK
<1>1. TurnInv => TypeOK
  BY DEF TurnInv
<1> QED
  BY <1>1, TurnInvariance, PTL

\* No body runs without the leave of both allowlists and the catalog
\* (handleAgentTurn and NativeToolPort.authorizeAndExecute).
THEOREM ToolsAreAuthorized == Spec => []OnlyAuthorizedToolsRun
<1>1. TurnInv => OnlyAuthorizedToolsRun
  BY DEF TurnInv
<1> QED
  BY <1>1, TurnInvariance, PTL

\* A failed tool is never talked over (the early returns after the tool span).
THEOREM FailedToolsFailTheTurn == Spec => []NoReplyAfterFailedTool
<1>1. TurnInv => NoReplyAfterFailedTool
  BY DEF TurnInv
<1> QED
  BY <1>1, TurnInvariance, PTL

\* Whatever the timers are set to, a turn makes at most three model calls and
\* takes at most three model timeouts and one tool timeout.
THEOREM TurnsAreBounded == Spec => []TurnWithinBudget
<1>1. TurnInv => TurnWithinBudget
  BY DEF TurnInv, TypeOK, SpentInv, TimeInv, TurnWithinBudget
<1> QED
  BY <1>1, TurnInvariance, PTL

-----------------------------------------------------------------------------
(* The turn implements AgentThread.                                        *)

\* Before it ended a turn has had no tool, is done with one, or fails with it.
LEMMA RunningStates ==
  ASSUME TurnInv, ~Ended
  PROVE  /\ packed => AgentState = "tool_done"
         /\ ~packed => AgentState = "running"
<1>1. ~packed => body # "settled"
  BY DEF TurnInv, TypeOK, SpentInv, NoReplyAfterFailedTool, Ended
<1> QED
  BY <1>1 DEF TurnInv, TypeOK, AgentState, Ended

\* A step that fails the turn returns an error to the request.
LEMMA FailReturns ==
  ASSUME TurnInv, ~Ended, NEW code \in ErrorCodes, Fail(code)
  PROVE  Thread!Next
<1>1. AgentState' \in {"timeout", "error"}
  BY DEF Fail, AgentState
<1>2. AgentState \in {"running", "tool_done"}
  BY RunningStates DEF TurnInv, TypeOK
<1> QED
  BY <1>1, <1>2 DEF Thread!Next, Thread!Return, Thread!MayReturn

\* Every step of the turn is a step of the thread, or none.
LEMMA StepImplements ==
  ASSUME TurnInv, TurnInv', [Next]_vars
  PROVE  [Thread!Next]_AgentState
<1>1. CASE UNCHANGED vars
  BY <1>1 DEF vars, AgentState, Ended
<1>2. CASE Tick
  BY <1>2 DEF Tick, AgentState, Ended
<1>3. CASE Retrieve
  <2>1. ~Ended
    BY <1>3 DEF Retrieve, Ended
  <2>2. CASE AskModel
    BY <1>3, <2>2 DEF Retrieve, AskModel, AgentState, Ended
  <2>3. CASE Fail("retrieval_failed")
    BY <2>1, <2>3, FailReturns DEF ErrorCodes
  <2> QED
    BY <1>3, <2>2, <2>3 DEF Retrieve
<1>4. ASSUME NEW sensitive \in BOOLEAN, ModelReplies(sensitive)
      PROVE  [Thread!Next]_AgentState
  <2>1. ~Ended
    BY <1>4 DEF ModelReplies, Ended
  <2>2. CASE sensitive
    BY <1>4, <2>1, <2>2, FailReturns DEF ModelReplies, ErrorCodes
  <2>3. CASE ~sensitive
    <3>1. AgentState' = "ok"
      BY <1>4, <2>3 DEF ModelReplies, AgentState
    <3>2. AgentState \in {"running", "tool_done"}
      BY <2>1, RunningStates DEF TurnInv, TypeOK
    <3> QED
      BY <3>1, <3>2 DEF Thread!Next, Thread!Return, Thread!MayReturn
  <2> QED
    BY <2>2, <2>3
<1>5. CASE ModelErrs
  <2>1. ~Ended
    BY <1>5 DEF ModelErrs, Ended
  <2>2. CASE AskModel
    BY <1>5, <2>2 DEF ModelErrs, AskModel, AgentState, Ended
  <2>3. CASE Fail("invalid_output")
    BY <2>1, <2>3, FailReturns DEF ErrorCodes
  <2> QED
    BY <1>5, <2>2, <2>3 DEF ModelErrs
<1>6. CASE ModelSpeaksProse \/ ProviderFails
  BY <1>6, FailReturns DEF ModelSpeaksProse, ProviderFails, Ended, ErrorCodes
<1>7. CASE ModelTimesOut
  BY <1>7, FailReturns DEF ModelTimesOut, Ended, ErrorCodes
<1>8. ASSUME NEW c \in Calls, ModelProposes(c)
      PROVE  [Thread!Next]_AgentState
  <2>1. ~Ended
    BY <1>8 DEF ModelProposes, Ended
  <2>2. CASE Fail("tool_denied")
    BY <2>1, <2>2, FailReturns DEF ErrorCodes
  <2>3. CASE state' = "awaiting_tool"
    <3>1. packed' = packed /\ ~Ended'
      BY <1>8, <2>3 DEF ModelProposes, Ended
    <3>2. ~packed' => body' # "settled"
      BY <2>3 DEF TurnInv, SpentInv
    <3>3. ~packed => body # "settled"
      BY <2>1 DEF TurnInv, TypeOK, SpentInv, NoReplyAfterFailedTool, Ended
    <3> QED
      BY <2>1, <3>1, <3>2, <3>3 DEF AgentState, Ended
  <2> QED
    BY <1>8, <2>2, <2>3 DEF ModelProposes
<1>9. CASE ToolRefused
  <2>1. Refusal(call) \in ErrorCodes /\ ~Ended
    BY <1>9 DEF ToolRefused, TurnInv, SpentInv, Ended
  <2> QED
    BY <1>9, <2>1, FailReturns DEF ToolRefused
<1>10. CASE ToolSucceeds
  <2>1. ~Ended /\ ~packed
    BY <1>10 DEF ToolSucceeds, TurnInv, SpentInv, Ended
  <2>2. AgentState = "running"
    BY <2>1, RunningStates
  <2>3. AgentState' = "tool_done"
    BY <1>10 DEF ToolSucceeds, AskModel, AgentState, Ended
  <2> QED
    BY <2>2, <2>3 DEF Thread!Next, Thread!ToolEnds, Thread!MayEndTool
<1>11. CASE ToolErrs \/ ToolTimesOut
  BY <1>11, FailReturns DEF ToolErrs, ToolTimesOut, Ended, ErrorCodes
<1>12. CASE BodySettlesLate
  BY <1>12 DEF BodySettlesLate, AgentState, Ended
<1> QED
  BY <1>1, <1>2, <1>3, <1>4, <1>5, <1>6, <1>7, <1>8, <1>9, <1>10, <1>11, <1>12
  DEF Next, Model, Tool, Runtime

\* For any tools, allowlists and timers the agent's turn is the agent that
\* VoiceRuntime runs beside a request (handleAgentTurn as handleVoiceTurn's runAgent).
THEOREM TurnImplementsThread == Spec => ImplementsAgentThread
<1>1. Init => Thread!Init
  BY DEF Init, Thread!Init, AgentState, Ended
<1>2. TurnInv /\ TurnInv' /\ [Next]_vars => [Thread!Next]_AgentState
  BY StepImplements
<1> QED
  BY <1>1, <1>2, TurnInvariance, PTL DEF Spec, Thread!Spec, ImplementsAgentThread

(***************************************************************************)
(* The evidence of a turn.  Chunking is a recursion over the text, the     *)
(* ranking counts, and assembly is a fold over the hits; what each returns *)
(* is known by induction on sets of naturals and of places, since an       *)
(* operator cannot be a parameter of the induction.                        *)
(***************************************************************************)

\* A finite set of integers has a least member.
LEMMA MinFacts ==
  ASSUME NEW S \in SUBSET Int, IsFiniteSet(S), S # {}
  PROVE  Min(S) \in S /\ \A y \in S : Min(S) <= y
<1> DEFINE Below(x) == {y \in S : y <= x}
           belows == {Below(x) : x \in S}
<1>1. belows # {} /\ belows \subseteq FiniteSubsetsOf(S)
  <2>1. \A x \in S : Below(x) \in SUBSET S /\ IsFiniteSet(Below(x))
    BY FS_Subset
  <2> HIDE DEF Below
  <2> QED
    BY <2>1 DEF FiniteSubsetsOf
<1>2. IsWellFoundedOn(StrictSubsetOrdering(S), FiniteSubsetsOf(S))
  BY FS_StrictSubsetOrderingWellFounded
<1>3. \E b \in belows : \A c \in belows : <<c, b>> \notin StrictSubsetOrdering(S)
  <2> HIDE DEF belows
  <2> QED
    BY <1>1, <1>2, WFMin
<1>4. PICK x \in S : \A y \in S : <<Below(y), Below(x)>> \notin StrictSubsetOrdering(S)
  BY <1>3
<1>5. ASSUME NEW y \in S PROVE x <= y
  <2> SUFFICES ASSUME y < x PROVE FALSE
    OBVIOUS
  <2>1. x \in Int /\ y \in Int
    OBVIOUS
  <2>2. Below(y) \subseteq Below(x) /\ x \in Below(x) /\ x \notin Below(y)
    <3>1. ASSUME NEW z \in S, z <= y PROVE z <= x
      <4>1. z \in Int
        OBVIOUS
      <4> QED
        BY <2>1, <3>1, <4>1
    <3>2. x <= x /\ ~(x <= y)
      BY <2>1
    <3> QED
      BY <3>1, <3>2
  <2>3. Below(x) \in SUBSET S /\ Below(y) \in SUBSET S
    OBVIOUS
  <2> HIDE DEF Below
  <2> QED
    BY <1>4, <2>2, <2>3 DEF StrictSubsetOrdering
<1> QED
  BY <1>5 DEF Min

\* And a greatest one.
LEMMA MaxFacts ==
  ASSUME NEW S \in SUBSET Int, IsFiniteSet(S), S # {}
  PROVE  Max(S) \in S /\ \A y \in S : Max(S) >= y
<1> DEFINE Above(x) == {y \in S : y >= x}
           aboves == {Above(x) : x \in S}
<1>1. aboves # {} /\ aboves \subseteq FiniteSubsetsOf(S)
  <2>1. \A x \in S : Above(x) \in SUBSET S /\ IsFiniteSet(Above(x))
    BY FS_Subset
  <2> HIDE DEF Above
  <2> QED
    BY <2>1 DEF FiniteSubsetsOf
<1>2. IsWellFoundedOn(StrictSubsetOrdering(S), FiniteSubsetsOf(S))
  BY FS_StrictSubsetOrderingWellFounded
<1>3. \E b \in aboves : \A c \in aboves : <<c, b>> \notin StrictSubsetOrdering(S)
  <2> HIDE DEF aboves
  <2> QED
    BY <1>1, <1>2, WFMin
<1>4. PICK x \in S : \A y \in S : <<Above(y), Above(x)>> \notin StrictSubsetOrdering(S)
  BY <1>3
<1>5. ASSUME NEW y \in S PROVE x >= y
  <2> SUFFICES ASSUME y > x PROVE FALSE
    OBVIOUS
  <2>1. x \in Int /\ y \in Int
    OBVIOUS
  <2>2. Above(y) \subseteq Above(x) /\ x \in Above(x) /\ x \notin Above(y)
    <3>1. ASSUME NEW z \in S, z >= y PROVE z >= x
      <4>1. z \in Int
        OBVIOUS
      <4> QED
        BY <2>1, <3>1, <4>1
    <3>2. x >= x /\ ~(x >= y)
      BY <2>1
    <3> QED
      BY <3>1, <3>2
  <2>3. Above(x) \in SUBSET S /\ Above(y) \in SUBSET S
    OBVIOUS
  <2> HIDE DEF Above
  <2> QED
    BY <1>4, <2>2, <2>3 DEF StrictSubsetOrdering
<1> QED
  BY <1>5 DEF Max

\* A set of naturals that holds 0 and the successor of each member holds them all.
LEMMA NatSets ==
  ASSUME NEW G, 0 \in G, \A n \in Nat : n \in G => n + 1 \in G
  PROVE  Nat \subseteq G
<1> SUFFICES ASSUME NEW m \in Nat, m \notin G PROVE FALSE
  OBVIOUS
<1> DEFINE S == {x \in 0 .. m : x \notin G}
<1>1. IsFiniteSet(S) /\ S # {} /\ S \in SUBSET Int
  <2>1. IsFiniteSet(0 .. m)
    BY FS_Interval
  <2>2. m \in S /\ S \subseteq 0 .. m /\ 0 .. m \subseteq Int
    OBVIOUS
  <2> HIDE DEF S
  <2> QED
    BY <2>1, <2>2, FS_Subset
<1>2. Min(S) \in S /\ \A y \in S : Min(S) <= y
  <2> HIDE DEF S
  <2> QED
    BY <1>1, MinFacts
<1>3. PICK k \in S : \A y \in S : k <= y
  BY <1>2
<1>4. k \in Nat /\ k # 0 /\ k - 1 \in 0 .. m /\ k \notin G
  OBVIOUS
<1>5. k - 1 \in G
  BY <1>3, <1>4
<1>6. k - 1 + 1 = k
  BY <1>4
<1> QED
  BY <1>4, <1>5, <1>6

\* What holds of the empty set, and of a set if of the set without its greatest
\* member, holds of every set of integers that is finite.
LEMMA SubsetsByGreatest ==
  ASSUME NEW D \in SUBSET Int, IsFiniteSet(D), NEW G, {} \in G,
         \A s \in SUBSET D : s # {} /\ s \ {Max(s)} \in G => s \in G
  PROVE  SUBSET D \subseteq G
<1> DEFINE N == {n \in Nat : \A s \in SUBSET D : Cardinality(s) <= n => s \in G}
<1>1. \A s \in SUBSET D : IsFiniteSet(s) /\ Cardinality(s) \in Nat /\ s \in SUBSET Int
  BY FS_Subset, FS_CardinalityType
<1>2. 0 \in N
  <2> SUFFICES ASSUME NEW s \in SUBSET D, Cardinality(s) <= 0 PROVE s \in G
    OBVIOUS
  <2>1. Cardinality(s) = 0
    BY <1>1
  <2>2. s = {}
    BY <1>1, <2>1, FS_EmptySet
  <2> QED
    BY <2>2
<1>3. ASSUME NEW n \in Nat, n \in N PROVE n + 1 \in N
  <2>1. ASSUME NEW s \in SUBSET D, Cardinality(s) <= n + 1, s # {} PROVE s \in G
    <3>1. Max(s) \in s
      BY <1>1, <2>1, MaxFacts
    <3>2. Cardinality(s \ {Max(s)}) = Cardinality(s) - 1
      BY <1>1, <3>1, FS_RemoveElement
    <3>3. Cardinality(s) \in Nat /\ s \ {Max(s)} \in SUBSET D
      BY <1>1
    <3>4. Cardinality(s \ {Max(s)}) <= n
      BY <2>1, <3>2, <3>3
    <3>5. s \ {Max(s)} \in G
      BY <1>3, <3>3, <3>4
    <3> QED
      BY <2>1, <3>5
  <2>2. \A s \in SUBSET D : Cardinality(s) <= n + 1 => s \in G
    BY <2>1
  <2>3. n + 1 \in Nat
    OBVIOUS
  <2> QED
    BY <2>2, <2>3
<1>4. Nat \subseteq N
  <2> HIDE DEF N
  <2> QED
    BY <1>2, <1>3, NatSets
<1> QED
  BY <1>1, <1>4

\* A fold over the places D, the last place outermost: MapThenFoldSet's iter.
IsFold(f, D, base, step) ==
  \A s \in SUBSET D :
    /\ s = {} => f[s] = base
    /\ s # {} => f[s] = step[f[s \ {Max(s)}]][Max(s)]

\* Every set of integers that is finite can be folded over.
LEMMA FoldDefined ==
  ASSUME NEW D \in SUBSET Int, IsFiniteSet(D), NEW X, NEW base \in X, NEW step \in [X -> [D -> X]]
  PROVE  \E f \in [SUBSET D -> X] : IsFold(f, D, base, step)
<1> DEFINE After(f, s) == IF s = {} THEN base ELSE step[f[s \ {Max(s)}]][Max(s)]
           N == {n \in Nat : \E f \in [SUBSET D -> X] :
                   \A s \in SUBSET D : Cardinality(s) <= n => f[s] = After(f, s)}
<1>1. \A s \in SUBSET D : IsFiniteSet(s) /\ Cardinality(s) \in Nat /\ s \in SUBSET Int
  BY FS_Subset, FS_CardinalityType
<1>2. ASSUME NEW s \in SUBSET D, s # {}
      PROVE  /\ Max(s) \in D
             /\ s \ {Max(s)} \in SUBSET D
             /\ Cardinality(s \ {Max(s)}) = Cardinality(s) - 1
  <2>1. Max(s) \in s
    BY <1>1, <1>2, MaxFacts
  <2> QED
    BY <1>1, <2>1, FS_RemoveElement
<1>3. 0 \in N
  <2> DEFINE f == [s \in SUBSET D |-> base]
  <2>1. f \in [SUBSET D -> X]
    OBVIOUS
  <2>2. ASSUME NEW s \in SUBSET D, Cardinality(s) <= 0 PROVE f[s] = After(f, s)
    <3>1. Cardinality(s) = 0
      BY <1>1, <2>2
    <3>2. s = {}
      BY <1>1, <3>1, FS_EmptySet
    <3> QED
      BY <3>2
  <2> HIDE DEF f, After
  <2> QED
    BY <2>1, <2>2
<1>4. ASSUME NEW n \in Nat, n \in N PROVE n + 1 \in N
  <2>1. PICK f \in [SUBSET D -> X] :
          \A s \in SUBSET D : Cardinality(s) <= n => f[s] = After(f, s)
    BY <1>4
  <2> DEFINE h == [s \in SUBSET D |-> IF Cardinality(s) <= n THEN f[s] ELSE After(f, s)]
  <2>2. ASSUME NEW s \in SUBSET D PROVE After(f, s) \in X
    <3>1. CASE s = {}
      BY <3>1
    <3>2. CASE s # {}
      <4>1. s \ {Max(s)} \in SUBSET D /\ Max(s) \in D
        BY <1>2, <3>2
      <4>2. f[s \ {Max(s)}] \in X
        BY <4>1
      <4>3. step[f[s \ {Max(s)}]] \in [D -> X]
        BY <4>2
      <4> QED
        BY <3>2, <4>1, <4>3
    <3> QED
      BY <3>1, <3>2
  <2>3. h \in [SUBSET D -> X]
    <3> HIDE DEF After
    <3> QED
      BY <2>2
  <2>4. ASSUME NEW s \in SUBSET D, Cardinality(s) <= n + 1 PROVE h[s] = After(h, s)
    <3>1. h[s] = After(f, s)
      <4> HIDE DEF After
      <4> QED
        BY <2>1
    <3>2. CASE s = {}
      BY <3>1, <3>2
    <3>3. CASE s # {}
      <4>1. s \ {Max(s)} \in SUBSET D /\ Cardinality(s \ {Max(s)}) = Cardinality(s) - 1
        BY <1>2, <3>3
      <4>4. Cardinality(s) \in Nat
        BY <1>1
      <4>3. Cardinality(s \ {Max(s)}) <= n
        BY <2>4, <4>1, <4>4
      <4>2. h[s \ {Max(s)}] = f[s \ {Max(s)}]
        <5> HIDE DEF After
        <5> QED
          BY <4>1, <4>3
      <4> HIDE DEF h
      <4> QED
        BY <3>1, <3>3, <4>2
    <3> QED
      BY <3>2, <3>3
  <2>5. n + 1 \in Nat
    OBVIOUS
  <2> HIDE DEF h, After
  <2> QED
    BY <2>3, <2>4, <2>5
<1>5. Cardinality(D) \in N
  <2>1. Nat \subseteq N
    <3> HIDE DEF N
    <3> QED
      BY <1>3, <1>4, NatSets
  <2> QED
    BY <1>1, <2>1
<1>6. \A s \in SUBSET D : Cardinality(s) <= Cardinality(D)
  BY FS_Subset
<1> QED
  BY <1>5, <1>6 DEF IsFold

-----------------------------------------------------------------------------
(* Chunking keeps passages whole.                                          *)

\* One element put before others keeps them, one place on.
LEMMA OneBeforeMany ==
  ASSUME NEW S, NEW a \in Seq(S), NEW b \in Seq(S), Len(a) = 1
  PROVE  /\ 1 \in DOMAIN (a \o b) /\ (a \o b)[1] = a[1]
         /\ \A i \in DOMAIN b : i + 1 \in DOMAIN (a \o b) /\ (a \o b)[i + 1] = b[i]
<1> DEFINE ab == a \o b
<1>1. Len(ab) = 1 + Len(b) /\ DOMAIN ab = 1 .. Len(ab) /\ Len(b) \in Nat /\ DOMAIN b = 1 .. Len(b)
  <2>1. ab \in Seq(S) /\ Len(ab) = Len(a) + Len(b)
    BY ConcatProperties
  <2> HIDE DEF ab
  <2> QED
    BY <2>1
<1>2. \A k \in 1 .. Len(a) + Len(b) : ab[k] = IF k <= Len(a) THEN a[k] ELSE b[k - Len(a)]
  BY ConcatProperties
<1> HIDE DEF ab
<1>3. 1 \in DOMAIN ab /\ ab[1] = a[1]
  BY <1>1, <1>2
<1>4. ASSUME NEW i \in DOMAIN b PROVE i + 1 \in DOMAIN ab /\ ab[i + 1] = b[i]
  <2>1. i \in Nat /\ i >= 1 /\ i <= Len(b) /\ i + 1 - 1 = i
    BY <1>1
  <2> QED
    BY <1>1, <1>2, <2>1
<1> QED
  BY <1>3, <1>4 DEF ab

Locators == [from : Nat, to : Nat]

\* Every stretch between start and n, no longer than the overlap and one letter,
\* is whole in a window.
Covers(windows, start, n) ==
  \A p, q \in Nat :
    start <= p /\ p <= q /\ q < n /\ q - p <= ChunkOverlap =>
      \E i \in DOMAIN windows : windows[i].from <= p /\ q < windows[i].to

\* The loop comes to an end, and loses no such stretch of a text that is not empty.
LEMMA WindowsCover ==
  ASSUME NEW n \in Nat \ {0}
  PROVE  Windows(n) \in Seq(Locators) /\ Covers(Windows(n), 0, n)
<1> DEFINE To(start) == Min({start + ChunkSize, n})
           This(start) == <<[from |-> start, to |-> To(start)]>>
           Loop(f) == f = [start \in 0 .. n |->
                             This(start) \o (IF To(start) >= n THEN <<>> ELSE f[NextStart(To(start))])]
           from == CHOOSE f : Loop(f)
           X == Seq(Locators)
<1>1. ASSUME NEW start \in 0 .. n
      PROVE  /\ To(start) = IF start + ChunkSize >= n THEN n ELSE start + ChunkSize
             /\ To(start) < n => NextStart(To(start)) \in 0 .. n /\ start < NextStart(To(start))
  <2> DEFINE ends == {start + ChunkSize, n}
  <2>1. start + ChunkSize \in Int /\ n \in Int
    BY ChunkingAssumption
  <2>2. IsFiniteSet(ends) /\ ends # {} /\ ends \in SUBSET Int
    <3>1. IsFiniteSet({n}) /\ IsFiniteSet({n} \cup {start + ChunkSize})
      BY FS_Singleton, FS_AddElement
    <3>2. ends = {n} \cup {start + ChunkSize}
      OBVIOUS
    <3> QED
      BY <2>1, <3>1, <3>2
  <2>3. Min(ends) \in ends /\ \A y \in ends : Min(ends) <= y
    <3> HIDE DEF ends
    <3> QED
      BY <2>2, MinFacts
  <2>4. To(start) = IF start + ChunkSize >= n THEN n ELSE start + ChunkSize
    BY <2>1, <2>3
  <2> QED
    BY <2>1, <2>4, ChunkingAssumption DEF NextStart
<1> HIDE DEF To
<1>2. ASSUME NEW start \in 0 .. n PROVE This(start) \in X
  <2>1. start \in Nat /\ To(start) \in Nat
    BY <1>1, ChunkingAssumption
  <2> QED
    BY <2>1 DEF Locators
<1>3. \E f : Loop(f)
  <2> DEFINE After(f, start) == This(start) \o (IF To(start) >= n THEN <<>> ELSE f[NextStart(To(start))])
             N == {d \in Nat : \E f \in [0 .. n -> X] :
                     \A start \in 0 .. n : n - start <= d => f[start] = After(f, start)}
  <2>1. ASSUME NEW f \in [0 .. n -> X], NEW start \in 0 .. n PROVE After(f, start) \in X
    <3> DEFINE rest == IF To(start) >= n THEN <<>> ELSE f[NextStart(To(start))]
    <3>1. rest \in X
      <4>1. CASE To(start) >= n
        BY <4>1
      <4>2. CASE ~(To(start) >= n)
        <5>3. To(start) \in Int
          BY <1>1, ChunkingAssumption
        <5>1. To(start) < n
          BY <4>2, <5>3
        <5>2. NextStart(To(start)) \in 0 .. n
          BY <1>1, <5>1
        <5> QED
          BY <4>2, <5>2
      <4> QED
        BY <4>1, <4>2
    <3>2. \A a \in X, b \in X : a \o b \in X
      OBVIOUS
    <3>3. This(start) \in X
      BY <1>2
    <3> HIDE DEF X, This, rest
    <3>4. This(start) \o rest \in X
      BY <3>1, <3>2, <3>3
    <3> QED
      BY <3>4 DEF rest
  <2>2. 0 \in N
    <3> DEFINE f == [start \in 0 .. n |-> This(start)]
    <3>1. f \in [0 .. n -> X]
      BY <1>2
    <3>2. ASSUME NEW start \in 0 .. n, n - start <= 0 PROVE f[start] = After(f, start)
      <4>1. start = n /\ To(start) >= n
        BY <1>1, <3>2, ChunkingAssumption
      <4>2. This(start) \o <<>> = This(start)
        BY <1>2
      <4> QED
        BY <4>1, <4>2
    <3> HIDE DEF f, After, X
    <3> QED
      BY <3>1, <3>2
  <2>3. ASSUME NEW d \in Nat, d \in N PROVE d + 1 \in N
    <3>1. PICK f \in [0 .. n -> X] : \A start \in 0 .. n : n - start <= d => f[start] = After(f, start)
      BY <2>3
    <3> DEFINE h == [start \in 0 .. n |-> IF n - start <= d THEN f[start] ELSE After(f, start)]
    <3>2. h \in [0 .. n -> X]
      <4> HIDE DEF After, X
      <4> QED
        BY <2>1
    <3>3. ASSUME NEW start \in 0 .. n, n - start <= d + 1 PROVE h[start] = After(h, start)
      <4>1. h[start] = After(f, start)
        <5> HIDE DEF After
        <5> QED
          BY <3>1
      <4>2. To(start) < n => h[NextStart(To(start))] = f[NextStart(To(start))]
        <5>1. SUFFICES ASSUME To(start) < n
                       PROVE  h[NextStart(To(start))] = f[NextStart(To(start))]
          OBVIOUS
        <5>2. NextStart(To(start)) \in 0 .. n /\ start < NextStart(To(start))
          BY <1>1, <5>1
        <5>3. n - NextStart(To(start)) <= d
          BY <3>3, <5>2
        <5> HIDE DEF After
        <5> QED
          BY <5>2, <5>3
      <4>3. To(start) >= n \/ To(start) < n
        BY <1>1, ChunkingAssumption
      <4> HIDE DEF h
      <4> QED
        BY <4>1, <4>2, <4>3
    <3>4. d + 1 \in Nat
      OBVIOUS
    <3> HIDE DEF h, After, X
    <3> QED
      BY <3>2, <3>3, <3>4
  <2>4. n \in N
    <3>1. Nat \subseteq N
      <4> HIDE DEF N
      <4> QED
        BY <2>2, <2>3, NatSets
    <3> QED
      BY <3>1
  <2>5. PICK f \in [0 .. n -> X] : \A start \in 0 .. n : n - start <= n => f[start] = After(f, start)
    BY <2>4
  <2>6. \A start \in 0 .. n : f[start] = After(f, start)
    <3> HIDE DEF After
    <3> QED
      BY <2>5
  <2>7. f = [start \in 0 .. n |-> After(f, start)]
    <3> HIDE DEF After, X
    <3> QED
      BY <2>6
  <2> QED
    BY <2>7
<1>4. Loop(from)
  <2> HIDE DEF Loop
  <2> QED
    BY <1>3
<1>5. Windows(n) = from[0]
  BY DEF Windows, To
<1>6. \A start \in 0 .. n :
        from[start] = This(start) \o (IF To(start) >= n THEN <<>> ELSE from[NextStart(To(start))])
  <2> HIDE DEF from, This
  <2> QED
    BY <1>4
<1> HIDE DEF from
<1> DEFINE G == {d \in Nat : \A start \in 0 .. n :
                   n - start <= d => from[start] \in X /\ Covers(from[start], start, n)}
<1>7. ASSUME NEW start \in 0 .. n,
             To(start) < n => LET next == NextStart(To(start))
                              IN from[next] \in X /\ Covers(from[next], next, n)
      PROVE  from[start] \in X /\ Covers(from[start], start, n)
  <2>1. CASE To(start) >= n
    <3>1. from[start] = This(start)
      <4>1. This(start) \o <<>> = This(start)
        BY <1>2
      <4> QED
        BY <1>6, <2>1, <4>1
    <3>2. To(start) = n
      BY <1>1, <2>1, ChunkingAssumption
    <3>3. 1 \in DOMAIN This(start) /\ This(start)[1] = [from |-> start, to |-> n]
      BY <3>2
    <3>4. Covers(This(start), start, n)
      BY <3>3 DEF Covers
    <3> QED
      BY <1>2, <3>1, <3>4
  <2>2. CASE To(start) < n
    <3> DEFINE next == NextStart(To(start))
               rest == from[next]
    <3>1. from[start] = This(start) \o rest
      <4>1. ~(To(start) >= n)
        BY <1>1, <2>2, ChunkingAssumption
      <4> QED
        BY <1>6, <4>1
    <3>2. rest \in X /\ Covers(rest, next, n) /\ This(start) \in X
      BY <1>2, <1>7, <2>2
    <3>3. from[start] \in X
      BY <3>1, <3>2
    <3>4. /\ 1 \in DOMAIN from[start] /\ from[start][1] = [from |-> start, to |-> To(start)]
          /\ \A i \in DOMAIN rest : i + 1 \in DOMAIN from[start] /\ from[start][i + 1] = rest[i]
      <4>1. Len(This(start)) = 1 /\ This(start)[1] = [from |-> start, to |-> To(start)]
        OBVIOUS
      <4> DEFINE first == This(start)
      <4> HIDE DEF This, rest, first
      <4>2. first \in Seq(Locators) /\ rest \in Seq(Locators) /\ Len(first) = 1
        BY <3>2, <4>1 DEF first
      <4> QED
        BY <3>1, <4>1, <4>2, OneBeforeMany DEF first
    <3>5. To(start) = start + ChunkSize /\ next = To(start) - ChunkOverlap /\ next \in Nat /\ start \in Nat
      BY <1>1, <2>2, ChunkingAssumption DEF NextStart
    <3> HIDE DEF next, rest
    <3>6. ASSUME NEW p \in Nat, NEW q \in Nat, start <= p, p <= q, q < n, q - p <= ChunkOverlap
          PROVE  \E i \in DOMAIN from[start] : from[start][i].from <= p /\ q < from[start][i].to
      <4>1. CASE q < To(start)
        BY <3>4, <3>6, <4>1
      <4>2. CASE ~(q < To(start))
        <5>1. next <= p
          BY <3>5, <3>6, <4>2, ChunkingAssumption
        <5>2. PICK i \in DOMAIN rest : rest[i].from <= p /\ q < rest[i].to
          BY <3>2, <3>6, <5>1 DEF Covers
        <5> QED
          BY <3>4, <5>2
      <4> QED
        BY <4>1, <4>2
    <3> QED
      BY <3>3, <3>6 DEF Covers
  <2>3. To(start) \in Int
    BY <1>1, ChunkingAssumption
  <2> QED
    BY <2>1, <2>2, <2>3
<1>8. 0 \in G
  <2> SUFFICES ASSUME NEW start \in 0 .. n, n - start <= 0
               PROVE  from[start] \in X /\ Covers(from[start], start, n)
    OBVIOUS
  <2>1. ~(To(start) < n)
    BY <1>1, ChunkingAssumption
  <2> HIDE DEF X
  <2> QED
    BY <1>7, <2>1
<1>9. ASSUME NEW d \in Nat, d \in G PROVE d + 1 \in G
  <2>1. ASSUME NEW start \in 0 .. n, n - start <= d + 1
        PROVE  from[start] \in X /\ Covers(from[start], start, n)
    <3>1. To(start) < n => n - NextStart(To(start)) <= d /\ NextStart(To(start)) \in 0 .. n
      BY <1>1, <2>1
    <3> HIDE DEF X
    <3> QED
      BY <1>7, <1>9, <3>1
  <2>2. d + 1 \in Nat
    OBVIOUS
  <2> HIDE DEF X
  <2> QED
    BY <2>1, <2>2
<1>10. n \in G
  <2>1. Nat \subseteq G
    <3> HIDE DEF G
    <3> QED
      BY <1>8, <1>9, NatSets
  <2> QED
    BY <2>1
<1> QED
  BY <1>5, <1>10

-----------------------------------------------------------------------------
(* The ranking of the hits.                                                *)

\* Places in the store are integers, and a query has a score for each.
Searchable(q) ==
  /\ \E n \in Nat : DOMAIN store = 1 .. n
  /\ q \in [score : [DOMAIN store -> Scores], embedder : Embedders]

\* The ranking lists the chunks that were found, best first, and above the n-th of
\* them are the n - 1 before it.
LEMMA RankingFacts ==
  ASSUME NEW q, Searchable(q)
  PROVE  /\ Cardinality(Found(q)) \in Nat
         /\ \A n \in 1 .. Cardinality(Found(q)) :
              Ranked(q)[n] \in Found(q) /\ Rank(q, Ranked(q)[n]) = n - 1
         /\ \A m, n \in 1 .. Cardinality(Found(q)) :
              m < n => Before(q, Ranked(q)[m], Ranked(q)[n])
<1> DEFINE F == Found(q)
           c == Cardinality(F)
           Above(i) == {j \in F : Before(q, j, i)}
<1>1. IsFiniteSet(F) /\ c \in Nat /\ \A i \in F : i \in Int /\ q.score[i] \in Int
  <2>1. IsFiniteSet(DOMAIN store) /\ DOMAIN store \subseteq Int
    BY FS_Interval DEF Searchable
  <2>2. F \in SUBSET DOMAIN store
    BY DEF Found
  <2>3. IsFiniteSet(F)
    <3> HIDE DEF F
    <3> QED
      BY <2>1, <2>2, FS_Subset
  <2>4. c \in Nat
    BY <2>3, FS_CardinalityType
  <2> HIDE DEF F
  <2> QED
    BY <2>1, <2>2, <2>3, <2>4, DocumentsAssumption DEF Searchable
<1>2. \A i, j \in F : i = j \/ Before(q, i, j) \/ Before(q, j, i)
  BY <1>1 DEF Before
<1>3. \A i \in F : ~Before(q, i, i)
  BY <1>1 DEF Before
<1>4. \A i, j, k \in F : Before(q, i, j) /\ Before(q, j, k) => Before(q, i, k)
  BY <1>1 DEF Before
<1> HIDE DEF F
<1>5. \A i \in F : Rank(q, i) = Cardinality(Above(i)) /\ IsFiniteSet(Above(i)) /\ Rank(q, i) \in 0 .. c - 1
  <2> SUFFICES ASSUME NEW i \in F
               PROVE  Rank(q, i) = Cardinality(Above(i)) /\ IsFiniteSet(Above(i)) /\ Rank(q, i) \in 0 .. c - 1
    OBVIOUS
  <2>1. Rank(q, i) = Cardinality(Above(i))
    BY DEF Rank, F
  <2>2. Above(i) \in SUBSET F /\ i \notin Above(i) /\ i \in F
    BY <1>3
  <2> HIDE DEF Above
  <2>3. IsFiniteSet(Above(i)) /\ Cardinality(Above(i)) <= c /\ Cardinality(Above(i)) # c
    BY <1>1, <2>2, FS_Subset
  <2>4. Cardinality(Above(i)) \in Nat
    BY <2>3, FS_CardinalityType
  <2> QED
    BY <1>1, <2>1, <2>3, <2>4
<1>6. ASSUME NEW i \in F, NEW j \in F, Before(q, i, j) PROVE Rank(q, i) < Rank(q, j)
  <2>1. Above(i) \in SUBSET Above(j) /\ i \in Above(j) /\ i \notin Above(i)
    BY <1>3, <1>4, <1>6
  <2> HIDE DEF Above
  <2>2. Cardinality(Above(i)) <= Cardinality(Above(j)) /\ Cardinality(Above(i)) # Cardinality(Above(j))
    BY <1>5, <2>1, FS_Subset
  <2> QED
    BY <1>1, <1>5, <2>2
<1>7. \A m \in 0 .. c - 1 : \E i \in F : Rank(q, i) = m
  <2> DEFINE f == [i \in F |-> Rank(q, i)]
             T == 0 .. c - 1
  <2>1. f \in Injection(F, T)
    <3>1. f \in [F -> T]
      BY <1>5
    <3>2. ASSUME NEW i \in F, NEW j \in F, f[i] = f[j] PROVE i = j
      <4>1. Rank(q, i) = Rank(q, j)
        BY <3>2
      <4>4. Rank(q, i) \in 0 .. c - 1 /\ Rank(q, j) \in 0 .. c - 1 /\ c \in Nat
        BY <1>1, <1>5
      <4>3. Rank(q, i) \in Int /\ Rank(q, j) \in Int
        <5> HIDE DEF c
        <5> QED
          BY <4>4
      <4>2. ~(Rank(q, i) < Rank(q, j)) /\ ~(Rank(q, j) < Rank(q, i))
        BY <4>1, <4>3
      <4> QED
        BY <1>2, <1>6, <4>2
    <3> HIDE DEF f, T
    <3> QED
      BY <3>1, <3>2 DEF Injection, IsInjective
  <2>2. IsFiniteSet(T) /\ Cardinality(T) = c
    BY <1>1, FS_Interval
  <2>3. f \in Surjection(F, T)
    <3> HIDE DEF f, T
    <3> QED
      BY <2>1, <2>2, FS_Injection
  <2>4. \A m \in T : \E i \in F : f[i] = m
    <3> HIDE DEF f, T
    <3> QED
      BY <2>3 DEF Surjection
  <2> QED
    BY <2>4
<1>8. ASSUME NEW n \in 1 .. c
      PROVE  Ranked(q)[n] \in F /\ Rank(q, Ranked(q)[n]) = n - 1
  <2>1. n - 1 \in 0 .. c - 1
    BY <1>1
  <2>2. \E i \in F : Rank(q, i) = n - 1
    BY <1>7, <2>1
  <2>3. Ranked(q)[n] = CHOOSE i \in F : Rank(q, i) = n - 1
    BY DEF Ranked, F
  <2> QED
    BY <2>2, <2>3
<1>9. ASSUME NEW m \in 1 .. c, NEW n \in 1 .. c, m < n
      PROVE  Before(q, Ranked(q)[m], Ranked(q)[n])
  <2>1. Rank(q, Ranked(q)[m]) < Rank(q, Ranked(q)[n])
    BY <1>1, <1>8, <1>9
  <2>2. ~(Rank(q, Ranked(q)[n]) < Rank(q, Ranked(q)[m])) /\ Ranked(q)[m] # Ranked(q)[n]
    BY <1>1, <1>8, <1>9
  <2> QED
    BY <1>2, <1>6, <1>8, <2>2
<1> QED
  BY <1>1, <1>8, <1>9 DEF F

\* The hits are the K best at most, and each is one of the K best.
LEMMA HitFacts ==
  ASSUME NEW q, Searchable(q)
  PROVE  /\ Hits(q) \in Seq(DOMAIN store)
         /\ \A n \in DOMAIN Hits(q) :
              /\ Matches(Hits(q)[n], q)
              /\ Cardinality({j \in DOMAIN store :
                   store[j].embedder = q.embedder /\ q.score[j] > q.score[Hits(q)[n]]}) < RetrievalK
         /\ \A m, n \in DOMAIN Hits(q) : m < n => Before(q, Hits(q)[m], Hits(q)[n])
<1> DEFINE c == Cardinality(Found(q))
           k == Min({RetrievalK, Len(Ranked(q))})
<1>1. c \in Nat
  BY RankingFacts
<1>2. Ranked(q) \in Seq(DOMAIN store) /\ Len(Ranked(q)) = c
  <2>1. \A n \in 1 .. c : Ranked(q)[n] \in DOMAIN store
    BY RankingFacts DEF Found
  <2>2. DOMAIN Ranked(q) = 1 .. c /\ Ranked(q) = [n \in 1 .. c |-> Ranked(q)[n]]
    BY DEF Ranked
  <2> HIDE DEF c
  <2>3. Ranked(q) \in [1 .. c -> DOMAIN store]
    BY <2>1, <2>2
  <2> QED
    BY <1>1, <2>3
<1>3. k \in Nat /\ k <= RetrievalK /\ k <= c
  <2> DEFINE both == {RetrievalK, Len(Ranked(q))}
  <2>1. IsFiniteSet({c}) /\ IsFiniteSet({c} \cup {RetrievalK})
    BY FS_Singleton, FS_AddElement
  <2>2. both = {c} \cup {RetrievalK}
    BY <1>2
  <2>3. both \in SUBSET Int /\ both # {} /\ IsFiniteSet(both) /\ RetrievalK \in Nat
    <3>1. c \in Int /\ RetrievalK \in Int
      BY <1>1, ChunkingAssumption
    <3> HIDE DEF both, c
    <3> QED
      BY <2>1, <2>2, <3>1, ChunkingAssumption
  <2>4. Min(both) \in both /\ \A y \in both : Min(both) <= y
    <3> HIDE DEF both
    <3> QED
      BY <2>3, MinFacts
  <2> HIDE DEF c
  <2> QED
    BY <1>1, <1>2, <2>3, <2>4
<1> HIDE DEF k, c
<1>4. Hits(q) \in Seq(DOMAIN store) /\ DOMAIN Hits(q) = 1 .. k /\ \A n \in 1 .. k : Hits(q)[n] = Ranked(q)[n]
  <2>1. Hits(q) = SubSeq(Ranked(q), 1, k)
    BY DEF Hits, k
  <2> QED
    BY <1>1, <1>2, <1>3, <2>1
<1>5. ASSUME NEW n \in 1 .. k
      PROVE  /\ Matches(Hits(q)[n], q)
             /\ Cardinality({j \in DOMAIN store :
                  store[j].embedder = q.embedder /\ q.score[j] > q.score[Hits(q)[n]]}) < RetrievalK
  <2> DEFINE i == Hits(q)[n]
             better == {j \in DOMAIN store : store[j].embedder = q.embedder /\ q.score[j] > q.score[i]}
             above == {j \in Found(q) : Before(q, j, i)}
  <2>1. n \in 1 .. c /\ i = Ranked(q)[n]
    BY <1>1, <1>3, <1>4
  <2>2. i \in Found(q) /\ Rank(q, i) = n - 1
    BY <2>1, RankingFacts DEF c
  <2>3. Cardinality(above) = n - 1
    BY <2>2 DEF Rank
  <2>4. better \subseteq above
    <3> HIDE DEF i
    <3> SUFFICES ASSUME NEW j \in DOMAIN store, store[j].embedder = q.embedder, q.score[j] > q.score[i]
                 PROVE  j \in Found(q) /\ Before(q, j, i)
      OBVIOUS
    <3>1. q.score[i] >= Threshold /\ i \in DOMAIN store
      BY <2>2 DEF Found, Matches
    <3>2. q.score[j] \in Int /\ q.score[i] \in Int
      BY <3>1, DocumentsAssumption DEF Searchable
    <3>3. q.score[j] >= Threshold
      BY <3>1, <3>2, ChunkingAssumption
    <3> QED
      BY <3>3 DEF Found, Matches, Before
  <2>5. IsFiniteSet(above)
    <3>1. IsFiniteSet(DOMAIN store)
      BY FS_Interval DEF Searchable
    <3>2. above \in SUBSET DOMAIN store
      BY DEF Found
    <3> HIDE DEF above
    <3> QED
      BY <3>1, <3>2, FS_Subset
  <2>6. Cardinality(better) <= n - 1 /\ Cardinality(better) \in Nat
    <3> HIDE DEF better, above
    <3> QED
      BY <2>3, <2>4, <2>5, FS_Subset, FS_CardinalityType
  <2>7. Matches(i, q)
    BY <2>2 DEF Found
  <2>8. Cardinality(better) < RetrievalK
    <3> HIDE DEF better
    <3> QED
      BY <1>3, <2>6, ChunkingAssumption
  <2> QED
    BY <2>7, <2>8
<1>6. ASSUME NEW m \in 1 .. k, NEW n \in 1 .. k, m < n PROVE Before(q, Hits(q)[m], Hits(q)[n])
  <2>1. m \in 1 .. c /\ n \in 1 .. c
    BY <1>1, <1>3
  <2> QED
    BY <1>4, <1>6, <2>1, RankingFacts DEF c
<1> QED
  BY <1>4, <1>5, <1>6

-----------------------------------------------------------------------------
(* What is packed into the context.                                        *)

\* Hits packed from the places in s: each is a hit there, in the order of the ranking.
Packed(hits, q, s, selected) ==
  /\ selected \in Seq(DOMAIN store)
  /\ \A n \in DOMAIN selected : \E m \in s : selected[n] = hits[m]
  /\ \A m, n \in DOMAIN selected : m < n => Before(q, selected[m], selected[n])
  /\ BlockLength(selected) <= MaxAssembled

\* Nothing has no length.
LEMMA NothingIsEmpty == BlockLength(<<>>) = 0
<1> DEFINE e == <<>>
           D == DOMAIN e
           Fold(f) == f = [s \in SUBSET D |->
                             IF s = {} THEN 0 ELSE f[s \ {Max(s)}] + ChunkFrame + store[e[Max(s)]].length]
           iter == CHOOSE f : Fold(f)
<1>1. D = {}
  OBVIOUS
<1>2. \E f : Fold(f)
  <2>1. Fold([s \in SUBSET D |-> 0])
    BY <1>1
  <2> HIDE DEF Fold
  <2> QED
    BY <2>1
<1>3. Fold(iter)
  <2> HIDE DEF Fold
  <2> QED
    BY <1>2
<1>4. iter[D] = 0
  <2> HIDE DEF iter
  <2> QED
    BY <1>1, <1>3
<1>5. BlockLength(<<>>) = iter[D]
  BY DEF BlockLength, FoldLeft, MapThenFoldSet
<1> QED
  BY <1>4, <1>5

\* One more hit that fits, from a place after all others, leaves hits packed.
LEMMA AppendPacks ==
  ASSUME NEW q, NEW hits \in Seq(DOMAIN store),
         \A m, n \in DOMAIN hits : m < n => Before(q, hits[m], hits[n]),
         NEW s \in SUBSET DOMAIN hits, NEW last \in s, \A m \in s : m <= last,
         NEW selected, Packed(hits, q, s \ {last}, selected), Fits(selected, hits[last])
  PROVE  Packed(hits, q, s, Append(selected, hits[last]))
<1> DEFINE longer == Append(selected, hits[last])
           len == Len(selected)
<1>1. selected \in Seq(DOMAIN store) /\ hits[last] \in DOMAIN store
  BY DEF Packed
<1>2. /\ longer \in Seq(DOMAIN store)
      /\ DOMAIN longer = 1 .. len + 1
      /\ DOMAIN selected = 1 .. len
      /\ len \in Nat
      /\ longer[len + 1] = hits[last]
      /\ \A n \in DOMAIN selected : longer[n] = selected[n]
  BY <1>1
<1>3. BlockLength(longer) <= MaxAssembled
  BY DEF Fits
<1> HIDE DEF longer, len
<1>4. \A n \in DOMAIN longer : n \in DOMAIN selected \/ n = len + 1
  BY <1>2
<1>5. ASSUME NEW n \in DOMAIN longer PROVE \E m \in s : longer[n] = hits[m]
  BY <1>2, <1>4 DEF Packed
<1>6. ASSUME NEW m \in DOMAIN longer, NEW n \in DOMAIN longer, m < n
      PROVE  Before(q, longer[m], longer[n])
  <2>1. m \in DOMAIN selected
    BY <1>2, <1>4, <1>6
  <2>2. CASE n \in DOMAIN selected
    BY <1>2, <1>6, <2>1, <2>2 DEF Packed
  <2>3. CASE n = len + 1
    <3>1. PICK k \in s \ {last} : selected[m] = hits[k]
      BY <2>1 DEF Packed
    <3>2. k \in DOMAIN hits /\ last \in DOMAIN hits /\ k \in Int /\ last \in Int
      OBVIOUS
    <3>3. k < last
      BY <3>2
    <3> QED
      BY <1>2, <2>1, <2>3, <3>1, <3>2, <3>3
  <2> QED
    BY <1>4, <2>2, <2>3
<1> QED
  BY <1>2, <1>3, <1>5, <1>6 DEF Packed, longer

\* What is assembled from ranked hits is packed.
LEMMA AssembledIsPacked ==
  ASSUME NEW q, NEW hits \in Seq(DOMAIN store),
         \A m, n \in DOMAIN hits : m < n => Before(q, hits[m], hits[n])
  PROVE  Packed(hits, q, DOMAIN hits, Assembled(hits))
<1> DEFINE D == DOMAIN hits
           X == Seq(DOMAIN store)
           Step(a, i) == IF Fits(a, i) THEN Append(a, i) ELSE a
           step == [a \in X |-> [i \in D |-> Step(a, hits[i])]]
           After(f, s) == IF s = {} THEN <<>> ELSE Step(f[s \ {Max(s)}], hits[Max(s)])
           Fold(f) == f = [s \in SUBSET D |-> After(f, s)]
           iter == CHOOSE f : Fold(f)
<1>1. D \in SUBSET Int /\ IsFiniteSet(D)
  <2>1. D = 1 .. Len(hits) /\ Len(hits) \in Nat
    OBVIOUS
  <2> QED
    BY <2>1, FS_Interval
<1>2. \A i \in D : hits[i] \in DOMAIN store
  OBVIOUS
<1>3. \A s \in SUBSET D : s # {} => Max(s) \in s /\ \A m \in s : m <= Max(s)
  <2>1. \A s \in SUBSET D : IsFiniteSet(s) /\ s \in SUBSET Int
    BY <1>1, FS_Subset
  <2>2. ASSUME NEW s \in SUBSET D, s # {} PROVE Max(s) \in s /\ \A m \in s : m <= Max(s)
    <3>1. Max(s) \in s /\ \A m \in s : Max(s) >= m
      BY <2>1, <2>2, MaxFacts
    <3>2. \A m \in s : m \in Int
      BY <1>1
    <3> HIDE DEF D
    <3> QED
      BY <3>1, <3>2
  <2> HIDE DEF D
  <2> QED
    BY <2>2
<1>4. step \in [X -> [D -> X]]
  <2>1. ASSUME NEW a \in X, NEW i \in DOMAIN store PROVE Step(a, i) \in X
    <3>1. Append(a, i) \in X
      OBVIOUS
    <3> HIDE DEF X
    <3> QED
      BY <3>1
  <2> HIDE DEF X, D, Step
  <2> QED
    BY <1>2, <2>1
<1>5. \E f : Fold(f)
  <2> DEFINE base == <<>>
  <2>1. base \in X
    OBVIOUS
  <2>2. PICK f \in [SUBSET D -> X] : IsFold(f, D, base, step)
    <3> HIDE DEF X, D, step, base
    <3> QED
      BY <1>1, <1>4, <2>1, FoldDefined
  <2>3. ASSUME NEW s \in SUBSET D, s # {} PROVE f[s] = Step(f[s \ {Max(s)}], hits[Max(s)])
    <3>1. f[s \ {Max(s)}] \in X
      OBVIOUS
    <3>2. Max(s) \in D
      BY <1>3, <2>3
    <3> HIDE DEF X, D, Step
    <3>3. step[f[s \ {Max(s)}]][Max(s)] = Step(f[s \ {Max(s)}], hits[Max(s)])
      BY <3>1, <3>2
    <3> QED
      BY <2>2, <2>3, <3>3 DEF IsFold
  <2>4. \A s \in SUBSET D : f[s] = After(f, s)
    BY <2>2, <2>3 DEF IsFold
  <2> HIDE DEF X, D, step, After
  <2> QED
    BY <2>4
<1>6. Fold(iter)
  <2> HIDE DEF Fold
  <2> QED
    BY <1>5
<1>7. ASSUME NEW s \in SUBSET D, s # {}, Packed(hits, q, s \ {Max(s)}, iter[s \ {Max(s)}])
      PROVE  Packed(hits, q, s, iter[s])
  <2> DEFINE before == iter[s \ {Max(s)}]
  <2>1. iter[s] = Step(before, hits[Max(s)])
    <3> HIDE DEF iter, D, Step
    <3> QED
      BY <1>6, <1>7
  <2>2. Max(s) \in s /\ \A m \in s : m <= Max(s)
    BY <1>3, <1>7
  <2>3. Packed(hits, q, s \ {Max(s)}, before)
    BY <1>7
  <2> HIDE DEF before, iter
  <2>4. CASE Fits(before, hits[Max(s)])
    <3>1. iter[s] = Append(before, hits[Max(s)])
      BY <2>1, <2>4
    <3>2. Packed(hits, q, s, Append(before, hits[Max(s)]))
      BY <2>2, <2>3, <2>4, AppendPacks
    <3> QED
      BY <3>1, <3>2
  <2>5. CASE ~Fits(before, hits[Max(s)])
    <3>1. iter[s] = before
      BY <2>1, <2>5
    <3> QED
      BY <2>3, <3>1 DEF Packed
  <2> QED
    BY <2>4, <2>5
<1>8. Packed(hits, q, {}, iter[{}])
  <2>1. iter[{}] = <<>>
    <3> HIDE DEF iter, D
    <3> QED
      BY <1>6
  <2>2. Packed(hits, q, {}, <<>>)
    BY NothingIsEmpty, ChunkingAssumption DEF Packed
  <2> QED
    BY <2>1, <2>2
<1>9. Packed(hits, q, D, iter[D])
  <2> DEFINE G == {s \in SUBSET D : Packed(hits, q, s, iter[s])}
  <2>1. {} \in G
    BY <1>8
  <2>2. \A s \in SUBSET D : s # {} /\ s \ {Max(s)} \in G => s \in G
    BY <1>7
  <2>3. SUBSET D \subseteq G
    <3> HIDE DEF G, D
    <3> QED
      BY <1>1, <2>1, <2>2, SubsetsByGreatest
  <2> QED
    BY <2>3
<1>10. Assembled(hits) = iter[D]
  BY DEF Assembled, FoldLeft, MapThenFoldSet
<1> QED
  BY <1>9, <1>10

-----------------------------------------------------------------------------
(* The evidence of every turn.                                             *)

\* The store is a sequence that keeps passages whole, and the context holds evidence.
EvidenceInv ==
  /\ \E n \in Nat : DOMAIN store = 1 .. n
  /\ PassagesAreKeptWhole
  /\ SourcesAreEvidence

\* A document that is ingested is kept whole.
LEMMA IngestionKeepsPassages ==
  ASSUME NEW letters \in Documents \ {{}}, NEW embedder,
         document = Normalized(letters), store = Ingested(letters, embedder)
  PROVE  (\E n \in Nat : DOMAIN store = 1 .. n) /\ PassagesAreKeptWhole
<1> DEFINE n == Max(document) + 1
           windows == Windows(n)
<1>1. document \subseteq Nat /\ document # {} /\ IsFiniteSet(document)
  <2>1. letters \in SUBSET Int /\ IsFiniteSet(letters) /\ letters # {}
    BY DocumentsAssumption
  <2>2. Min(letters) \in Int /\ \A p \in letters : Min(letters) <= p
    BY <2>1, MinFacts
  <2>3. document = {p - Min(letters) : p \in letters}
    BY DEF Normalized
  <2>4. document \subseteq Nat /\ document # {}
    BY <2>1, <2>2, <2>3
  <2>5. IsFiniteSet(document)
    <3> DEFINE f == [p \in letters |-> p - Min(letters)]
    <3>1. f \in Surjection(letters, document)
      BY <2>3 DEF Surjection
    <3> HIDE DEF f
    <3> QED
      BY <2>1, <3>1, FS_Surjection
  <2> QED
    BY <2>4, <2>5
<1>2. n \in Nat \ {0} /\ \A p \in document : p < n
  <2>1. document \in SUBSET Int
    BY <1>1
  <2>2. Max(document) \in document /\ \A p \in document : Max(document) >= p
    BY <1>1, <2>1, MaxFacts
  <2> QED
    BY <1>1, <2>2
<1>3. windows \in Seq(Locators) /\ Covers(windows, 0, n)
  <2> HIDE DEF n
  <2> QED
    BY <1>2, WindowsCover
<1>4. DOMAIN store = DOMAIN windows /\ \A i \in DOMAIN store : store[i].locator = windows[i]
  BY DEF Ingested
<1> HIDE DEF n, windows
<1>5. DOMAIN store = 1 .. Len(windows) /\ Len(windows) \in Nat
  BY <1>3, <1>4
<1>6. ASSUME NEW p \in document, NEW q \in document, p <= q, q - p <= ChunkOverlap
      PROVE  \E i \in DOMAIN store : store[i].locator.from <= p /\ q < store[i].locator.to
  <2>1. p \in Nat /\ q \in Nat /\ 0 <= p /\ q < n
    BY <1>1, <1>2
  <2>2. PICK i \in DOMAIN windows : windows[i].from <= p /\ q < windows[i].to
    BY <1>3, <1>6, <2>1 DEF Covers
  <2> QED
    BY <1>4, <2>2
<1> QED
  BY <1>5, <1>6 DEF PassagesAreKeptWhole

\* What is retrieved and assembled for an utterance is evidence.
LEMMA RetrievalFindsEvidence ==
  ASSUME EvidenceInv, RetrieveForTurn
  PROVE  SourcesAreEvidence'
<1>1. PICK score \in [DOMAIN store -> Scores], embedder \in Embedders :
        /\ query' = [score |-> score, embedder |-> embedder]
        /\ sources' = Assembled(Hits([score |-> score, embedder |-> embedder]))
        /\ store' = store
  BY DEF RetrieveForTurn
<1> DEFINE q == [score |-> score, embedder |-> embedder]
           hits == Hits(q)
<1>2. Searchable(q)
  BY DEF Searchable, EvidenceInv
<1>3. q # NoValue
  <2>1. PICK n \in Nat : DOMAIN store = 1 .. n
    BY DEF EvidenceInv
  <2>2. score \in Seq(Scores)
    BY <2>1
  <2> QED
    BY <2>2, DocumentsAssumption
<1>4. \A i \in DOMAIN store : i \in Int /\ q.score[i] \in Int
  <2>1. PICK n \in Nat : DOMAIN store = 1 .. n
    BY DEF EvidenceInv
  <2>2. \A i \in DOMAIN store : i \in Int
    BY <2>1
  <2>3. \A i \in DOMAIN store : score[i] \in Scores
    OBVIOUS
  <2>4. Scores \subseteq Int
    BY DocumentsAssumption
  <2> QED
    BY <2>2, <2>3, <2>4
<1>5. query' = q /\ sources' = Assembled(hits)
  BY <1>1
<1> HIDE DEF q
<1>6. Packed(hits, q, DOMAIN hits, Assembled(hits))
  BY <1>2, HitFacts, AssembledIsPacked
<1>7. /\ hits \in Seq(DOMAIN store)
      /\ \A n \in DOMAIN hits :
           /\ Matches(hits[n], q)
           /\ Cardinality({j \in DOMAIN store :
                store[j].embedder = q.embedder /\ q.score[j] > q.score[hits[n]]}) < RetrievalK
  BY <1>2, HitFacts
<1> HIDE DEF hits
<1> DEFINE better(i) == {j \in DOMAIN store : store[j].embedder = q.embedder /\ q.score[j] > q.score[i]}
<1>8. ASSUME NEW n \in DOMAIN Assembled(hits)
      PROVE  /\ Matches(Assembled(hits)[n], q)
             /\ Cardinality(better(Assembled(hits)[n])) < RetrievalK
             /\ \A m \in 1 .. n - 1 :
                  /\ Assembled(hits)[m] # Assembled(hits)[n]
                  /\ q.score[Assembled(hits)[m]] >= q.score[Assembled(hits)[n]]
  <2> DEFINE packed1 == Assembled(hits)
  <2>1. PICK m \in DOMAIN hits : packed1[n] = hits[m]
    BY <1>6 DEF Packed
  <2>2. Matches(packed1[n], q) /\ Cardinality(better(packed1[n])) < RetrievalK
    BY <1>7, <2>1
  <2>3. ASSUME NEW k \in 1 .. n - 1
        PROVE  packed1[k] # packed1[n] /\ q.score[packed1[k]] >= q.score[packed1[n]]
    <3>1. k \in DOMAIN packed1 /\ k < n /\ packed1 \in Seq(DOMAIN store)
      BY <1>6 DEF Packed
    <3>2. Before(q, packed1[k], packed1[n])
      BY <1>6, <3>1 DEF Packed
    <3>3. packed1[k] \in DOMAIN store /\ packed1[n] \in DOMAIN store
      BY <3>1
    <3> HIDE DEF packed1
    <3> QED
      BY <1>4, <3>2, <3>3 DEF Before
  <2> QED
    BY <2>2, <2>3
<1>9. BlockLength(sources)' = BlockLength(Assembled(hits))
  <2>1. store' = store /\ sources' = Assembled(hits)
    BY <1>1, <1>5
  <2> QED
    BY <2>1 DEF BlockLength, FoldLeft, MapThenFoldSet
<1>10. BlockLength(Assembled(hits)) <= MaxAssembled
  BY <1>6 DEF Packed
<1>11. store' = store /\ query' = q /\ sources' = Assembled(hits)
  BY <1>1, <1>5
<1> DEFINE packed2 == Assembled(hits)
<1>12. sources' = packed2
  BY <1>11
<1>13. \A n \in DOMAIN packed2 :
         /\ store[packed2[n]].embedder = q.embedder
         /\ q.score[packed2[n]] >= Threshold
         /\ Cardinality(better(packed2[n])) < RetrievalK
         /\ \A m \in 1 .. n - 1 :
              packed2[m] # packed2[n] /\ q.score[packed2[m]] >= q.score[packed2[n]]
  BY <1>8 DEF Matches
<1> HIDE DEF packed2
<1> QED
  BY <1>3, <1>9, <1>10, <1>11, <1>12, <1>13 DEF SourcesAreEvidence

\* Evidence and passages from the start of the server on.
LEMMA EvidenceStarts == GroundedInit => EvidenceInv
<1> SUFFICES ASSUME GroundedInit PROVE EvidenceInv
  OBVIOUS
<1>1. (\E n \in Nat : DOMAIN store = 1 .. n) /\ PassagesAreKeptWhole
  <2>1. CASE \E letters \in Documents \ {{}}, embedder \in Embedders :
               document = Normalized(letters) /\ store = Ingested(letters, embedder)
    BY <2>1, IngestionKeepsPassages
  <2>2. CASE document = {} /\ store = <<>>
    <3>1. DOMAIN store = 1 .. 0
      BY <2>2
    <3> QED
      BY <2>2, <3>1 DEF PassagesAreKeptWhole
  <2> QED
    BY <2>1, <2>2 DEF GroundedInit
<1>2. SourcesAreEvidence
  <2>1. sources = <<>> /\ DOMAIN sources = {}
    BY DEF GroundedInit
  <2>2. BlockLength(sources) <= MaxAssembled
    BY <2>1, NothingIsEmpty, ChunkingAssumption
  <2> QED
    BY <2>1, <2>2 DEF SourcesAreEvidence
<1> QED
  BY <1>1, <1>2 DEF EvidenceInv

\* Nothing but retrieval touches them.
LEMMA EvidenceSteps == EvidenceInv /\ [GroundedNext]_groundedVars => EvidenceInv'
<1> SUFFICES ASSUME EvidenceInv, [GroundedNext]_groundedVars PROVE EvidenceInv'
  OBVIOUS
<1>1. ASSUME UNCHANGED knowledge PROVE EvidenceInv'
  <2>1. BlockLength(sources)' = BlockLength(sources)
    BY <1>1 DEF knowledge, BlockLength, FoldLeft, MapThenFoldSet
  <2> QED
    BY <1>1, <2>1 DEF knowledge, EvidenceInv, PassagesAreKeptWhole, SourcesAreEvidence
<1>2. CASE RetrieveForTurn
  <2>1. UNCHANGED <<document, store>>
    BY <1>2 DEF RetrieveForTurn
  <2>2. (\E n \in Nat : DOMAIN store' = 1 .. n) /\ PassagesAreKeptWhole'
    BY <2>1 DEF EvidenceInv, PassagesAreKeptWhole
  <2> QED
    BY <1>2, <2>2, RetrievalFindsEvidence DEF EvidenceInv
<1> QED
  BY <1>1, <1>2 DEF GroundedNext, RetrievalFails, TurnGoesOn, groundedVars

\* Any stretch of the document no longer than the overlap and one letter is whole
\* in some chunk, whatever the document, the chunk size and the overlap.
THEOREM PassagesStayWhole == GroundedSpec => []PassagesAreKeptWhole
<1>1. EvidenceInv => PassagesAreKeptWhole
  BY DEF EvidenceInv
<1> QED
  BY <1>1, EvidenceStarts, EvidenceSteps, PTL DEF GroundedSpec

\* The context of a turn holds distinct chunks that matched its query under one
\* embedding, best first, of the K best and within the budget.
THEOREM ContextIsEvidence == GroundedSpec => []SourcesAreEvidence
<1>1. EvidenceInv => SourcesAreEvidence
  BY DEF EvidenceInv
<1> QED
  BY <1>1, EvidenceStarts, EvidenceSteps, PTL DEF GroundedSpec

\* A turn with evidence is a turn: what is proved of turns holds of it.
THEOREM GroundedTurnIsATurn == GroundedSpec => Spec
<1>1. GroundedInit => Init
  BY DEF GroundedInit
<1>2. [GroundedNext]_groundedVars => [Next]_vars
  BY DEF GroundedNext, RetrieveForTurn, RetrievalFails, TurnGoesOn, groundedVars, Next, Runtime
<1> QED
  BY <1>1, <1>2, PTL DEF GroundedSpec, Spec

\* So its tools are authorized, it ends within its budget, and it implements the agent
\* that VoiceRuntime runs beside a request.
THEOREM GroundedTurnIsSafe ==
  GroundedSpec => []OnlyAuthorizedToolsRun /\ []TurnWithinBudget /\ ImplementsAgentThread
BY GroundedTurnIsATurn, ToolsAreAuthorized, TurnsAreBounded, TurnImplementsThread, PTL
=============================================================================
