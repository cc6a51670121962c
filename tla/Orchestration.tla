----------------------------- MODULE Orchestration -----------------------------
(***************************************************************************)
(* One orchestrated request: handleOrchestratedTurn and invokeSpecialist   *)
(* (src/src/application/handle-orchestrated-turn.ts) with the budgets and  *)
(* the router of src/src/domain/orchestration.ts.  The request is routed   *)
(* by its intent to one specialist, which is one model call and at most    *)
(* one retry; no tool is run and nothing is stored.                        *)
(*                                                                         *)
(* The steps before the model call have no await between them; they are    *)
(* actions of their own because each can end the request.  A caller may    *)
(* hand over budgets already partly consumed (the route passes none, the   *)
(* evaluation suite does).  Texts are left out but for whether they are    *)
(* blank, fit their schema or are sensitive.                               *)
(***************************************************************************)
EXTENDS Integers, Sequences

CONSTANTS
  ConsumedSteps,        \* values of input.consumedSteps
  ConsumedInvocations,  \* values of input.consumedInvocations
  Intents,              \* values of input.intent, the closed ones among them
  NoValue

ASSUME ConsumedAssumption == ConsumedSteps \subseteq Nat /\ ConsumedInvocations \subseteq Nat

MAX_SPECIALIST_INVOCATIONS == 1
MAX_ORCHESTRATION_STEPS    == 4

CLOSED_INTENTS == {"normalize", "classify"}

ErrorCodes ==
  {"payload_invalid", "budget_exceeded", "unroutable", "specialist_failed", "invalid_output",
   "llm_timeout", "llm_provider", "sensitive_output"}

ASSUME NoValueAssumption == NoValue \notin ErrorCodes \cup {"ok", "demo-normalize", "demo-classify"}

VARIABLES
  input,        \* intent, blankness of the text, consumed budgets
  state,        \* where the handler is: the last step recorded, or its end
  states,       \* the transitions recorded
  steps,        \* OrchestrationStepBudget.used
  invocations,  \* SpecialistBudget.used
  specialist,   \* the specialist invoked
  modelCalls,
  retryUsed,
  answer,       \* what the model said last
  result        \* "ok" or an error code

vars == <<input, state, states, steps, invocations, specialist, modelCalls, retryUsed, answer, result>>

Inputs ==
  [intent : Intents, blank : BOOLEAN,
   consumedSteps : ConsumedSteps, consumedInvocations : ConsumedInvocations]

Init ==
  /\ input \in Inputs
  /\ state = "called"
  /\ states = <<>>
  /\ steps = input.consumedSteps
  /\ invocations = input.consumedInvocations
  /\ specialist = NoValue
  /\ modelCalls = 0
  /\ retryUsed = FALSE
  /\ answer = NoValue
  /\ result = NoValue

-----------------------------------------------------------------------------
\* fail, with orchestrationFailure: the states end with "failed".
Fail(code) ==
  /\ state' = "failed"
  /\ states' = Append(states, "failed")
  /\ result' = code

\* record
Record(name) ==
  /\ steps < MAX_ORCHESTRATION_STEPS
  /\ steps' = steps + 1
  /\ state' = name
  /\ states' = Append(states, name)

\* Mutant: the step is recorded before the budget is consulted.
RecordOrExceedLate(name) ==
  /\ states' = IF steps < MAX_ORCHESTRATION_STEPS THEN Append(states, name)
               ELSE states \o <<name, "failed">>
  /\ IF steps < MAX_ORCHESTRATION_STEPS
     THEN steps' = steps + 1 /\ state' = name /\ UNCHANGED result
     ELSE state' = "failed" /\ result' = "budget_exceeded" /\ UNCHANGED steps

RecordOrExceed(name) ==
  \/ Record(name) /\ UNCHANGED result
  \/ /\ steps >= MAX_ORCHESTRATION_STEPS
     /\ Fail("budget_exceeded")
     /\ UNCHANGED steps

RefuseBlank ==
  /\ state = "called"
  /\ input.blank
  /\ Fail("payload_invalid")
  /\ UNCHANGED <<input, steps, invocations, specialist, modelCalls, retryUsed, answer>>

Receive ==
  /\ state = "called"
  /\ ~input.blank
  /\ RecordOrExceed("receiving")
  /\ UNCHANGED <<input, invocations, specialist, modelCalls, retryUsed, answer>>

StartRouting ==
  /\ state = "receiving"
  /\ RecordOrExceed("routing")
  /\ UNCHANGED <<input, invocations, specialist, modelCalls, retryUsed, answer>>

SpecialistFor(intent) == IF intent = "normalize" THEN "demo-normalize" ELSE "demo-classify"

RejectIntent ==
  /\ state = "routing"
  /\ input.intent \notin CLOSED_INTENTS
  /\ Fail("unroutable")
  /\ UNCHANGED <<input, steps, invocations, specialist, modelCalls, retryUsed, answer>>

ExceedInvocations ==
  /\ state = "routing"
  /\ input.intent \in CLOSED_INTENTS
  /\ invocations >= MAX_SPECIALIST_INVOCATIONS
  /\ Fail("budget_exceeded")
  /\ UNCHANGED <<input, steps, invocations, specialist, modelCalls, retryUsed, answer>>

AskModel == modelCalls' = modelCalls + 1 /\ answer' = NoValue

\* Mutant: the invocation is not counted against what was consumed before.
InvokeSpecialistAgain ==
  /\ state = "routing"
  /\ input.intent \in CLOSED_INTENTS
  /\ invocations' = 1
  /\ \/ /\ Record("awaiting_specialist")
        /\ specialist' = SpecialistFor(input.intent)
        /\ AskModel
        /\ UNCHANGED result
     \/ /\ steps >= MAX_ORCHESTRATION_STEPS
        /\ Fail("budget_exceeded")
        /\ UNCHANGED <<steps, specialist, modelCalls, answer>>
  /\ UNCHANGED <<input, retryUsed>>

\* The invocation is consumed before its step is, and stays consumed when the
\* step exceeds its own budget.
InvokeSpecialist ==
  /\ state = "routing"
  /\ input.intent \in CLOSED_INTENTS
  /\ invocations < MAX_SPECIALIST_INVOCATIONS
  /\ invocations' = invocations + 1
  /\ \/ /\ Record("awaiting_specialist")
        /\ specialist' = SpecialistFor(input.intent)
        /\ AskModel
        /\ UNCHANGED result
     \/ /\ steps >= MAX_ORCHESTRATION_STEPS
        /\ Fail("budget_exceeded")
        /\ UNCHANGED <<steps, specialist, modelCalls, answer>>
  /\ UNCHANGED <<input, retryUsed>>

\* Schema-valid and free of sensitive text: the request completes, if a step
\* for it is left.
SpecialistAnswers ==
  /\ state = "awaiting_specialist"
  /\ answer' = "valid"
  /\ \/ Record("completed") /\ result' = "ok"
     \/ /\ steps >= MAX_ORCHESTRATION_STEPS
        /\ Fail("budget_exceeded")
        /\ UNCHANGED steps
  /\ UNCHANGED <<input, invocations, specialist, modelCalls, retryUsed>>

\* Mutant: a malformed answer is asked for again and again.
RetryForever ==
  /\ state = "awaiting_specialist"
  /\ AskModel
  /\ retryUsed' = TRUE
  /\ UNCHANGED <<input, state, states, steps, invocations, specialist, result>>

\* JSON off the schema, or a field too long.
SpecialistErrs ==
  /\ state = "awaiting_specialist"
  /\ \/ /\ ~retryUsed
        /\ retryUsed' = TRUE
        /\ AskModel
        /\ UNCHANGED <<state, states, result>>
     \/ /\ retryUsed
        /\ answer' = "malformed"
        /\ Fail("invalid_output")
        /\ UNCHANGED <<retryUsed, modelCalls>>
  /\ UNCHANGED <<input, steps, invocations, specialist>>

SpecialistLeaks ==
  /\ state = "awaiting_specialist"
  /\ answer' = "valid"
  /\ Fail("sensitive_output")
  /\ UNCHANGED <<input, steps, invocations, specialist, modelCalls, retryUsed>>

\* Text that is not JSON: HttpLlm throws invalid_output, which is neither of the
\* codes mapSpecialistInvokeError knows.
SpecialistSpeaksProse ==
  /\ state = "awaiting_specialist"
  /\ answer' = "prose"
  /\ Fail("specialist_failed")
  /\ UNCHANGED <<input, steps, invocations, specialist, modelCalls, retryUsed>>

\* The provider fails, or anything else is thrown.
SpecialistThrows(code) ==
  /\ state = "awaiting_specialist"
  /\ Fail(code)
  /\ UNCHANGED <<input, steps, invocations, specialist, modelCalls, retryUsed, answer>>

ModelTimesOut ==
  /\ state = "awaiting_specialist"
  /\ Fail("llm_timeout")
  /\ UNCHANGED <<input, steps, invocations, specialist, modelCalls, retryUsed, answer>>

-----------------------------------------------------------------------------
Runtime ==
  \/ RefuseBlank \/ Receive \/ StartRouting
  \/ RejectIntent \/ ExceedInvocations \/ InvokeSpecialist
  \/ ModelTimesOut

Model ==
  \/ SpecialistAnswers \/ SpecialistErrs \/ SpecialistLeaks \/ SpecialistSpeaksProse
  \/ \E code \in {"llm_provider", "specialist_failed"} : SpecialistThrows(code)

Next == Runtime \/ Model

Spec == Init /\ [][Next]_vars

-----------------------------------------------------------------------------
(* Properties.                                                             *)

Steps == <<"receiving", "routing", "awaiting_specialist", "completed">>

\* Every variable has its type.
TypeOK ==
  /\ input \in Inputs
  /\ state \in {"called", "receiving", "routing", "awaiting_specialist", "completed", "failed"}
  /\ states \in Seq({"receiving", "routing", "awaiting_specialist", "completed", "failed"})
  /\ steps \in Nat
  /\ invocations \in Nat
  /\ specialist \in {NoValue, "demo-normalize", "demo-classify"}
  /\ modelCalls \in 0 .. 2
  /\ retryUsed \in BOOLEAN
  /\ answer \in {NoValue, "valid", "malformed", "prose"}
  /\ result \in {NoValue, "ok"} \cup ErrorCodes

\* "WHEN the request has already consumed `maxSteps` transitions THEN the run
\* ends as typed `budget_exceeded` and no specialist model is called"
\* (openspec/specs/multi-agent-orchestration/spec.md:96-97), and in between: the
\* transitions a failed request reports are those its budget paid for, in the
\* order of the steps, and a request completes only if it had consumed nothing.
TransitionsArePaidFor ==
  LET taken == steps - input.consumedSteps
  IN  /\ input.consumedSteps + taken <= MAX_ORCHESTRATION_STEPS \/ taken = 0
      /\ states = SubSeq(Steps, 1, taken) \o (IF state = "failed" THEN <<"failed">> ELSE <<>>)
      /\ result = "ok" => input.consumedSteps = 0

\* "A second specialist invocation on the same request MUST fail as
\* `budget_exceeded` without calling the second specialist"
\* (openspec/specs/multi-agent-orchestration/spec.md:82): a model is called only
\* on the request's first invocation, for the routed specialist, and once more
\* at most.
OneSpecialistPerRequest ==
  modelCalls > 0 =>
    /\ input.consumedInvocations = 0 /\ invocations = 1
    /\ input.intent \in CLOSED_INTENTS
    /\ specialist = SpecialistFor(input.intent)
    /\ modelCalls <= IF retryUsed THEN 2 ELSE 1

\* "WHEN the specialist model returns unparseable output [...] after the bounded
\* retry THEN the result is typed `invalid_output`"
\* (openspec/specs/multi-agent-orchestration/spec.md:105-106).
UnparseableIsInvalidOutput ==
  state = "failed" /\ answer \in {"malformed", "prose"} => result = "invalid_output"
=============================================================================
