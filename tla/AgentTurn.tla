------------------------------ MODULE AgentTurn ------------------------------
(***************************************************************************)
(* One turn of the conversational agent: handleAgentTurn                   *)
(* (src/src/application/handle-agent-turn.ts), with the tool port          *)
(* (adapters/tools/native-tool-port.ts) and the HTTP model adapter         *)
(* (adapters/llm/http-llm.ts) it calls.                                    *)
(*                                                                         *)
(* The turn assembles context, asks the model for a structured decision,   *)
(* retries one malformed decision, executes at most one tool and asks      *)
(* again.  Every wait on the model or a tool is raced against a timer.     *)
(* The body of a tool that lost its race is not stopped: it goes on beside *)
(* the turn, and beyond it.                                                *)
(*                                                                         *)
(* Time is counted from the first model call, in units of the timers.  A   *)
(* timer fires when it is due: Tick waits for it.  HttpLlm's own timer has *)
(* the same length as the turn's (create-server.ts passes llmConfig's to   *)
(* both) and the same effect, so one timer stands for both.  What the model*)
(* says is one of a few kinds of answer; prompts, sources and spans, which *)
(* change nothing in the course of a turn, are left out.                   *)
(***************************************************************************)
EXTENDS Integers

CONSTANTS
  Tools,          \* names a decision can propose
  AllowedTools,   \* dependencies.allowedTools: the session owner's allowlist
  PortTools,      \* NativeToolPort.allowedTools
  Catalog,        \* the registry: registered tool -> its entry
  LlmTimeout,     \* llmTimeoutMs
  ToolTimeout,    \* DEMO_TOOL_TIMEOUT_MS
  VoiceTimeout,   \* voice.timeoutMs, the timer of the request around the turn
  NoValue

\* Mutant: a turn may take two hops.
TwoHops == 2

MAX_TOOL_HOPS == 1

CatalogEntries ==
  [status : {"active", "disabled"}, source : {"native", "mcp", "http", "workflow"},
   riskClass : {"read", "write", "irreversible", "external_comm"}, timeoutMs : Nat]

ASSUME ToolsAssumption ==
  /\ AllowedTools \subseteq Tools
  /\ DOMAIN Catalog \subseteq Tools
  /\ Catalog \in [DOMAIN Catalog -> CatalogEntries]

ASSUME TimeoutsAssumption ==
  /\ LlmTimeout \in Nat \ {0}
  /\ ToolTimeout \in Nat \ {0}
  /\ VoiceTimeout \in Nat \ {0}

ErrorCodes ==
  {"invalid_output", "tool_denied", "tool_invalid_args", "tool_failed", "tool_timeout",
   "llm_timeout", "llm_provider", "retrieval_failed", "sensitive_output"}

Calls == [toolName : Tools, validArgs : BOOLEAN]

ASSUME NoValueAssumption == NoValue \notin Calls \cup ErrorCodes \cup {"ok"}

VARIABLES
  state,      \* last entry of states
  modelCalls, \* completions asked for so far
  retryUsed,
  hops,
  call,       \* the tool decision being executed, or the last one executed
  body,       \* the executor of that tool
  packed,     \* whether the tool's result is in the model's context
  answer,     \* what the model said to the last call, if it did
  result,     \* what the turn returned: "ok" or an error code
  since,      \* when the wait in progress began
  now

vars ==
  <<state, modelCalls, retryUsed, hops, call, body, packed, answer, result, since, now>>

Ended == state \in {"completed", "failed"}

Init ==
  /\ state = "retrieving"
  /\ modelCalls = 0
  /\ retryUsed = FALSE
  /\ hops = 0
  /\ call = NoValue
  /\ body = "none"
  /\ packed = FALSE
  /\ answer = NoValue
  /\ result = NoValue
  /\ since = 0
  /\ now = 0

-----------------------------------------------------------------------------
(* The tool port.                                                          *)

HIGH_RISK == {"write", "irreversible", "external_comm"}

\* Mutant: the port leaves the choice of tools to the agent's allowlist.
ExecutableIfActive(t) == t \in DOMAIN Catalog /\ Catalog[t].status = "active"

\* Active, native, low-risk and on the port's own allowlist.
Executable(t) ==
  /\ t \in PortTools
  /\ t \in DOMAIN Catalog
  /\ Catalog[t].status = "active"
  /\ Catalog[t].source = "native"
  /\ Catalog[t].riskClass \notin HIGH_RISK

\* The port runs the body, or answers with this code and does not.
Refusal(c) ==
  IF ~Executable(c.toolName) THEN "tool_denied"
  ELSE IF ~c.validArgs THEN "tool_invalid_args"
  ELSE NoValue

ToolBudget(t) == IF Catalog[t].timeoutMs < ToolTimeout THEN Catalog[t].timeoutMs ELSE ToolTimeout

-----------------------------------------------------------------------------
(* Time.                                                                   *)

\* When the timer of the wait in progress fires; a tool that was refused
\* answers at once.
Due ==
  since + (IF state = "reasoning" THEN LlmTimeout
           ELSE IF body = "running" THEN ToolBudget(call.toolName)
           ELSE 0)

Tick ==
  /\ state \in {"reasoning", "awaiting_tool"}
  /\ now < Due
  /\ now' = now + 1
  /\ UNCHANGED <<state, modelCalls, retryUsed, hops, call, body, packed, answer, result, since>>

-----------------------------------------------------------------------------
(* The turn.                                                               *)

\* agentFailure
Fail(code) ==
  /\ state' = "failed"
  /\ result' = code
  /\ UNCHANGED <<modelCalls, since, now>>

AskModel ==
  /\ state' = "reasoning"
  /\ modelCalls' = modelCalls + 1
  /\ answer' = NoValue
  /\ since' = now
  /\ UNCHANGED <<result, now>>

\* Nothing is known of how long retrieval takes; no timer bounds it.
Retrieve ==
  /\ state = "retrieving"
  /\ AskModel \/ (Fail("retrieval_failed") /\ UNCHANGED answer)
  /\ UNCHANGED <<retryUsed, hops, call, body, packed>>

\* A schema-valid reply ends the turn; one with sensitive text fails it.
ModelReplies(sensitive) ==
  /\ state = "reasoning"
  /\ answer' = "reply"
  /\ IF sensitive
     THEN Fail("sensitive_output")
     ELSE /\ state' = "completed"
          /\ result' = "ok"
          /\ UNCHANGED <<modelCalls, since, now>>
  /\ UNCHANGED <<retryUsed, hops, call, body, packed>>

\* Mutant: each model call has a retry of its own.
ModelErrsPerCall ==
  /\ state = "reasoning"
  /\ IF ~retryUsed \/ (packed /\ modelCalls < 4)
     THEN retryUsed' = TRUE /\ AskModel
     ELSE Fail("invalid_output") /\ answer' = "malformed" /\ UNCHANGED retryUsed
  /\ UNCHANGED <<hops, call, body, packed>>

\* JSON that is no decision: the turn has one retry, for all its calls.
ModelErrs ==
  /\ state = "reasoning"
  /\ \/ /\ ~retryUsed
        /\ retryUsed' = TRUE
        /\ AskModel
     \/ /\ retryUsed
        /\ answer' = "malformed"
        /\ Fail("invalid_output")
        /\ UNCHANGED retryUsed
  /\ UNCHANGED <<hops, call, body, packed>>

\* Text that is not JSON: HttpLlm throws invalid_output, which the catch around
\* the call takes for a failure of the provider.
ModelSpeaksProse ==
  /\ state = "reasoning"
  /\ answer' = "prose"
  /\ Fail("llm_provider")
  /\ UNCHANGED <<retryUsed, hops, call, body, packed>>

\* HTTP, network or envelope error.
ProviderFails ==
  /\ state = "reasoning"
  /\ Fail("llm_provider")
  /\ UNCHANGED <<retryUsed, hops, call, body, packed, answer>>

\* Mutant: the model is awaited without a timer.
NoModelTimeout == FALSE /\ UNCHANGED vars

ModelTimesOut ==
  /\ state = "reasoning"
  /\ now = Due
  /\ Fail("llm_timeout")
  /\ UNCHANGED <<retryUsed, hops, call, body, packed, answer>>

\* A second hop and a tool off the allowlist are denied without asking the
\* port; otherwise the port is asked, and starts the body unless it refuses.
ModelProposes(c) ==
  /\ state = "reasoning"
  /\ answer' = "tool"
  /\ \/ /\ hops >= MAX_TOOL_HOPS \/ c.toolName \notin AllowedTools
        /\ Fail("tool_denied")
        /\ UNCHANGED <<hops, call, body>>
     \/ /\ hops < MAX_TOOL_HOPS /\ c.toolName \in AllowedTools
        /\ state' = "awaiting_tool"
        /\ hops' = hops + 1
        /\ call' = c
        /\ body' = IF Refusal(c) = NoValue THEN "running" ELSE "none"
        /\ since' = now
        /\ UNCHANGED <<modelCalls, result, now>>
  /\ UNCHANGED <<retryUsed, packed>>

\* The port's refusal fails the turn with the port's code.
ToolRefused ==
  /\ state = "awaiting_tool"
  /\ body = "none"
  /\ Fail(Refusal(call))
  /\ UNCHANGED <<retryUsed, hops, call, body, packed, answer>>

ToolSucceeds ==
  /\ state = "awaiting_tool"
  /\ body = "running"
  /\ body' = "settled"
  /\ packed' = TRUE
  /\ AskModel
  /\ UNCHANGED <<retryUsed, hops, call>>

\* Mutant: the model is asked for an apology when the tool fails.
ToolErrsSoftly ==
  /\ state = "awaiting_tool"
  /\ body = "running"
  /\ body' = "settled"
  /\ AskModel
  /\ UNCHANGED <<retryUsed, hops, call, packed>>

\* The body throws, or its payload is illegal or oversize.
ToolErrs ==
  /\ state = "awaiting_tool"
  /\ body = "running"
  /\ body' = "settled"
  /\ Fail("tool_failed")
  /\ UNCHANGED <<retryUsed, hops, call, packed, answer>>

\* The port stops waiting for the body and does not stop the body.
ToolTimesOut ==
  /\ state = "awaiting_tool"
  /\ body = "running"
  /\ now = Due
  /\ Fail("tool_timeout")
  /\ UNCHANGED <<retryUsed, hops, call, body, packed, answer>>

\* The race is over: whatever the body comes to is dropped.
BodySettlesLate ==
  /\ Ended
  /\ body = "running"
  /\ body' = "settled"
  /\ UNCHANGED <<state, modelCalls, retryUsed, hops, call, packed, answer, result, since, now>>

-----------------------------------------------------------------------------
Model ==
  \/ \E sensitive \in BOOLEAN : ModelReplies(sensitive)
  \/ ModelErrs \/ ModelSpeaksProse \/ ProviderFails
  \/ \E c \in Calls : ModelProposes(c)

Tool == ToolSucceeds \/ ToolErrs \/ BodySettlesLate

Runtime == Retrieve \/ ToolRefused \/ ModelTimesOut \/ ToolTimesOut

Next == Model \/ Tool \/ Runtime \/ Tick

Spec == Init /\ [][Next]_vars

\* Retrieval answers, the port's own refusals arrive, time passes and due timers
\* fire; nothing is assumed of the model or of a tool's body.
FairSpec == Spec /\ WF_vars(Runtime) /\ WF_vars(Tick)

-----------------------------------------------------------------------------
(* Properties.                                                             *)

\* Every variable has its type, and a turn takes one hop at most.
TypeOK ==
  /\ state \in {"retrieving", "reasoning", "awaiting_tool", "completed", "failed"}
  /\ modelCalls \in Nat
  /\ retryUsed \in BOOLEAN
  /\ hops \in 0 .. 1
  /\ call \in Calls \cup {NoValue}
  /\ body \in {"none", "running", "settled"}
  /\ packed \in BOOLEAN
  /\ answer \in {NoValue, "reply", "malformed", "prose", "tool"}
  /\ result \in {NoValue, "ok"} \cup ErrorCodes
  /\ since \in Nat
  /\ now \in Nat

\* "The runtime MUST execute only names that are both present, `active`,
\* `riskClass` `read`, and `source` `native` in the registry and present on the
\* current agent allowlist" (openspec/specs/tool-execution/spec.md:64), with
\* valid arguments: of a body that runs, or still runs after its turn.
OnlyAuthorizedToolsRun ==
  body # "none" =>
    /\ call.toolName \in AllowedTools \cap PortTools
    /\ call.toolName \in DOMAIN Catalog
    /\ LET entry == Catalog[call.toolName]
       IN  /\ entry.status = "active"
           /\ entry.source = "native"
           /\ entry.riskClass = "read"
    /\ call.validArgs

\* "A `tool_failed` or `tool_timeout` result MUST fail the turn closed with that
\* error code. The runtime MUST NOT call the model again for a spoken fallback"
\* (openspec/specs/wom-customer-service/spec.md:58): a turn that took a hop goes
\* on reasoning, or completes, only with that tool's result in context.
NoReplyAfterFailedTool ==
  hops > 0 /\ state \in {"reasoning", "completed"} => packed /\ body = "settled"

\* The turn as its caller sees it.  mapAgentFailure tells timeouts from the rest.
AgentState ==
  IF state = "completed" THEN "ok"
  ELSE IF state = "failed"
    THEN IF result \in {"llm_timeout", "tool_timeout"} THEN "timeout" ELSE "error"
  ELSE IF packed THEN "tool_done"
  ELSE IF body = "settled" THEN "tool_failed"
  ELSE "running"

Thread == INSTANCE AgentThread WITH thread <- AgentState

\* The turn is the agent VoiceRuntime relies on: through retries, refusals, timers
\* and bodies that end late it returns once, and never a reply after its tool
\* failed.
ImplementsAgentThread == Thread!Spec

\* The longest a turn can take once its context is assembled: three model calls
\* (a retry, a tool decision and a reply) and a tool.
TurnBudget == 3 * LlmTimeout + ToolTimeout

\* The one retry is not renewed after a hop, so a turn whose every wait runs to
\* its timer still ends within its budget.
TurnWithinBudget == modelCalls <= 3 /\ now <= TurnBudget

\* "Model and tool work MUST finish inside the turn timeout"
\* (openspec/specs/first-agent/spec.md:138).
FinishesInsideTurnTimeout == now <= VoiceTimeout

\* "unparseable output, a missing required field, or additional properties [...]
\* MUST complete the turn as a typed `invalid_output` failure after at most one
\* bounded retry" (openspec/specs/first-agent/spec.md:58-59).
InvalidOutputIsTyped ==
  Ended /\ answer \in {"malformed", "prose"} => result = "invalid_output"

\* A turn ends though the model and the tool never answer.
TurnEnds == <>Ended
=============================================================================
