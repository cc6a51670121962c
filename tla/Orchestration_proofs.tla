------------------------ MODULE Orchestration_proofs ------------------------
(***************************************************************************)
(* Theorems about one orchestrated request, for any intents and any        *)
(* budgets its caller may have consumed.                                   *)
(*                                                                         *)
(* What the properties say of a request's end is not inductive: the steps  *)
(* it reports, the budget it spent and the model calls it made are tied    *)
(* together by where the handler is.  Paid says so for the steps, Asked    *)
(* for the specialist.                                                     *)
(***************************************************************************)
EXTENDS Orchestration, SequenceTheorems, TLAPS

StepNames == {"receiving", "routing", "awaiting_specialist", "completed", "failed"}

\* The first k steps of a request, and how many of them it has paid for.
Prefix(k) == SubSeq(Steps, 1, k)
Taken     == steps - input.consumedSteps

\* How many steps the handler has recorded when it is in a state.
Paid ==
  /\ Taken \in 0 .. 4
  /\ states = IF state = "failed" THEN Append(Prefix(Taken), "failed") ELSE Prefix(Taken)
  /\ state = "called" => Taken = 0
  /\ state = "receiving" => Taken = 1
  /\ state = "routing" => Taken = 2
  /\ state = "awaiting_specialist" => Taken = 3
  /\ state = "completed" => Taken = 4
  /\ Taken = 0 \/ steps <= MAX_ORCHESTRATION_STEPS
  /\ result = "ok" => state = "completed"

\* A model is asked only on the way out of routing, and once more at most.
Asked ==
  /\ state \in {"called", "receiving", "routing"} =>
       modelCalls = 0 /\ retryUsed = FALSE /\ invocations = input.consumedInvocations
  /\ state = "awaiting_specialist" => modelCalls = IF retryUsed THEN 2 ELSE 1

OrchestrationInv == TypeOK /\ Paid /\ Asked /\ OneSpecialistPerRequest

-----------------------------------------------------------------------------
\* The steps, one by one.
LEMMA StepsByIndex ==
  /\ Steps \in Seq(StepNames)
  /\ Len(Steps) = 4
  /\ Steps[1] = "receiving" /\ Steps[2] = "routing"
  /\ Steps[3] = "awaiting_specialist" /\ Steps[4] = "completed"
BY DEF Steps, StepNames

\* Each is a state of an orchestration.
LEMMA StepsAreNamed == \A i \in 1 .. 4 : Steps[i] \in StepNames
<1> SUFFICES ASSUME NEW i \in 1 .. 4 PROVE Steps[i] \in StepNames
  OBVIOUS
<1>1. i = 1 \/ i = 2 \/ i = 3 \/ i = 4
  OBVIOUS
<1> QED
  BY <1>1, StepsByIndex DEF StepNames

\* Recording the next step extends a prefix by one.
LEMMA PrefixGrows ==
  ASSUME NEW k \in 0 .. 3
  PROVE  Prefix(k) \in Seq(StepNames) /\ Append(Prefix(k), Steps[k + 1]) = Prefix(k + 1)
<1>1. Prefix(k) \in Seq(StepNames)
  <2>1. \A i \in 1 .. k : Steps[i] \in StepNames
    BY StepsAreNamed
  <2> QED
    BY <2>1, SubSeqProperties DEF Prefix
<1>2. Steps[k + 1] \in StepNames
  BY StepsAreNamed
<1>3. Append(Prefix(k), Steps[k + 1]) = Prefix(k) \o <<Steps[k + 1]>>
  BY <1>1, <1>2, AppendIsConcat
<1>4. SubSeq(Steps, 1, k + 1) = SubSeq(Steps, 1, (k + 1) - 1) \o <<Steps[k + 1]>>
  <2>1. 1 \in 1 .. Len(Steps) /\ k + 1 \in 1 .. Len(Steps)
    BY StepsByIndex
  <2> QED
    BY <2>1, StepsByIndex, SubSeqRecursiveSecond
<1>5. (k + 1) - 1 = k
  OBVIOUS
<1> QED
  BY <1>1, <1>3, <1>4, <1>5 DEF Prefix

\* The empty prefix, and the prefixes as steps record them.
LEMMA PrefixSteps ==
  /\ Prefix(0) = <<>>
  /\ Append(Prefix(0), "receiving") = Prefix(1)
  /\ Append(Prefix(1), "routing") = Prefix(2)
  /\ Append(Prefix(2), "awaiting_specialist") = Prefix(3)
  /\ Append(Prefix(3), "completed") = Prefix(4)
<1>1. Prefix(0) = <<>>
  BY SubSeqEmpty DEF Prefix
<1>2. 0 + 1 = 1 /\ 1 + 1 = 2 /\ 2 + 1 = 3 /\ 3 + 1 = 4
  OBVIOUS
<1>3. /\ Append(Prefix(0), Steps[0 + 1]) = Prefix(0 + 1)
      /\ Append(Prefix(1), Steps[1 + 1]) = Prefix(1 + 1)
      /\ Append(Prefix(2), Steps[2 + 1]) = Prefix(2 + 1)
      /\ Append(Prefix(3), Steps[3 + 1]) = Prefix(3 + 1)
  BY PrefixGrows
<1> QED
  BY <1>1, <1>2, <1>3, StepsByIndex

-----------------------------------------------------------------------------
\* A request starts with nothing recorded beyond what its caller had consumed.
LEMMA InitInv == Init => OrchestrationInv
<1> SUFFICES ASSUME Init PROVE OrchestrationInv
  OBVIOUS
<1>1. input.consumedSteps \in Nat /\ input.consumedInvocations \in Nat
  BY ConsumedAssumption DEF Init, Inputs
<1>2. TypeOK
  <2>1. <<>> \in Seq({"receiving", "routing", "awaiting_specialist", "completed", "failed"})
    OBVIOUS
  <2>2. retryUsed \in BOOLEAN
    BY DEF Init
  <2> QED
    BY <1>1, <2>1, <2>2 DEF Init, TypeOK
<1>3. Paid
  <2>1. Taken = 0
    BY <1>1 DEF Init, Taken
  <2>2. states = Prefix(Taken)
    BY <2>1, PrefixSteps DEF Init
  <2> QED
    BY <2>1, <2>2, NoValueAssumption DEF Init, Paid
<1>4. Asked /\ OneSpecialistPerRequest
  BY DEF Init, Asked, OneSpecialistPerRequest
<1> QED
  BY <1>2, <1>3, <1>4 DEF OrchestrationInv

\* What a failure, and what a recorded step, does to the account.
LEMMA FailKeepsPaid ==
  ASSUME OrchestrationInv, NEW code \in ErrorCodes, state \notin {"completed", "failed"},
         Fail(code), UNCHANGED <<input, steps>>
  PROVE  Paid' /\ state' = "failed" /\ result' \in ErrorCodes
         /\ states' \in Seq({"receiving", "routing", "awaiting_specialist", "completed", "failed"})
<1>1. /\ state' = "failed" /\ states' = Append(states, "failed") /\ result' = code
      /\ Taken' = Taken /\ steps' = steps
  BY DEF Fail, Taken
<1>2. states' = Append(Prefix(Taken'), "failed")
  BY <1>1 DEF OrchestrationInv, Paid
<1>3. result' # "ok"
  BY <1>1 DEF ErrorCodes
<1>4. states' \in Seq({"receiving", "routing", "awaiting_specialist", "completed", "failed"})
  BY <1>1, AppendProperties DEF OrchestrationInv, TypeOK
<1> QED
  BY <1>1, <1>2, <1>3, <1>4 DEF OrchestrationInv, Paid

\* A recorded transition costs one step, and is the next one.
LEMMA RecordKeepsPaid ==
  ASSUME OrchestrationInv, UNCHANGED input,
         NEW name \in {"receiving", "routing", "awaiting_specialist", "completed"},
         \/ state = "called" /\ name = "receiving"
         \/ state = "receiving" /\ name = "routing"
         \/ state = "routing" /\ name = "awaiting_specialist"
         \/ state = "awaiting_specialist" /\ name = "completed",
         Record(name), result' = result \/ name = "completed"
  PROVE  Paid' /\ state' = name /\ steps' \in Nat
         /\ states' \in Seq({"receiving", "routing", "awaiting_specialist", "completed", "failed"})
<1>1. /\ state' = name /\ states' = Append(states, name) /\ steps' = steps + 1
      /\ steps < MAX_ORCHESTRATION_STEPS
  BY DEF Record
<1>2. input.consumedSteps \in Nat /\ steps \in Nat
  BY ConsumedAssumption DEF OrchestrationInv, TypeOK, Inputs
<1>3. Taken' = Taken + 1
  BY <1>1, <1>2 DEF Taken
<1>4. states = Prefix(Taken)
  BY DEF OrchestrationInv, Paid
<1>5. /\ states' = Prefix(Taken')
      /\ Taken' \in 0 .. 4
      /\ name = "receiving" => Taken' = 1
      /\ name = "routing" => Taken' = 2
      /\ name = "awaiting_specialist" => Taken' = 3
      /\ name = "completed" => Taken' = 4
  <2>1. CASE name = "receiving"
    BY <1>1, <1>3, <1>4, <2>1, PrefixSteps DEF OrchestrationInv, Paid
  <2>2. CASE name = "routing"
    BY <1>1, <1>3, <1>4, <2>2, PrefixSteps DEF OrchestrationInv, Paid
  <2>3. CASE name = "awaiting_specialist"
    BY <1>1, <1>3, <1>4, <2>3, PrefixSteps DEF OrchestrationInv, Paid
  <2>4. CASE name = "completed"
    BY <1>1, <1>3, <1>4, <2>4, PrefixSteps DEF OrchestrationInv, Paid
  <2> QED
    BY <2>1, <2>2, <2>3, <2>4
<1>6. steps' <= MAX_ORCHESTRATION_STEPS
  BY <1>1, <1>2 DEF MAX_ORCHESTRATION_STEPS
<1>7. result' = "ok" => state' = "completed"
  BY <1>1 DEF OrchestrationInv, Paid
<1>8. states' \in Seq({"receiving", "routing", "awaiting_specialist", "completed", "failed"})
  BY <1>1, AppendProperties DEF OrchestrationInv, TypeOK
<1> QED
  BY <1>1, <1>2, <1>5, <1>6, <1>7, <1>8 DEF Paid

\* A request that fails keeps the other parts, when its failure leaves the
\* specialist and its budget alone.
LEMMA FailKeepsInv ==
  ASSUME OrchestrationInv, NEW code \in ErrorCodes, state \notin {"completed", "failed"},
         Fail(code), UNCHANGED <<input, steps, invocations, specialist, modelCalls, retryUsed>>,
         answer' \in {answer, "valid", "malformed", "prose"}
  PROVE  OrchestrationInv'
<1>1. /\ Paid' /\ state' = "failed" /\ result' \in ErrorCodes
      /\ states' \in Seq({"receiving", "routing", "awaiting_specialist", "completed", "failed"})
  BY FailKeepsPaid
<1>2. TypeOK'
  BY <1>1 DEF OrchestrationInv, TypeOK
<1>3. Asked' /\ OneSpecialistPerRequest'
  BY <1>1 DEF OrchestrationInv, Asked, OneSpecialistPerRequest
<1> QED
  BY <1>1, <1>2, <1>3 DEF OrchestrationInv

\* The steps before the specialist: recorded, or the budget is exceeded.
LEMMA ReceiveKeepsInv ==
  ASSUME OrchestrationInv, Receive \/ StartRouting
  PROVE  OrchestrationInv'
<1>1. PICK name \in {"receiving", "routing"} :
        /\ \/ state = "called" /\ name = "receiving"
           \/ state = "receiving" /\ name = "routing"
        /\ RecordOrExceed(name)
  BY DEF Receive, StartRouting
<1>2. UNCHANGED <<input, invocations, specialist, modelCalls, retryUsed, answer>>
  BY DEF Receive, StartRouting
<1>3. CASE Record(name) /\ UNCHANGED result
  <2>1. /\ Paid' /\ state' = name /\ steps' \in Nat
        /\ states' \in Seq({"receiving", "routing", "awaiting_specialist", "completed", "failed"})
    BY <1>1, <1>2, <1>3, RecordKeepsPaid
  <2>2. TypeOK'
    BY <1>2, <1>3, <2>1 DEF OrchestrationInv, TypeOK
  <2>3. Asked' /\ OneSpecialistPerRequest'
    BY <1>1, <1>2, <2>1 DEF OrchestrationInv, Asked, OneSpecialistPerRequest
  <2> QED
    BY <2>1, <2>2, <2>3 DEF OrchestrationInv
<1>4. CASE Fail("budget_exceeded") /\ UNCHANGED steps
  <2>1. "budget_exceeded" \in ErrorCodes /\ state \notin {"completed", "failed"}
    BY <1>1 DEF ErrorCodes
  <2> QED
    BY <1>2, <1>4, <2>1, FailKeepsInv
<1> QED
  BY <1>1, <1>3, <1>4 DEF RecordOrExceed

\* The specialist is asked on the first invocation only: one that the step
\* budget refuses has asked no model.
LEMMA InvokeKeepsInv ==
  ASSUME OrchestrationInv, InvokeSpecialist
  PROVE  OrchestrationInv'
<1>1. /\ state = "routing" /\ input.intent \in CLOSED_INTENTS
      /\ invocations < 1 /\ invocations' = invocations + 1
      /\ UNCHANGED <<input, retryUsed>>
  BY DEF InvokeSpecialist, MAX_SPECIALIST_INVOCATIONS
<1>2. /\ invocations = 0 /\ input.consumedInvocations = 0 /\ invocations' = 1
      /\ modelCalls = 0 /\ retryUsed = FALSE
  BY <1>1 DEF OrchestrationInv, TypeOK, Asked
<1>3. CASE /\ Record("awaiting_specialist") /\ specialist' = SpecialistFor(input.intent)
           /\ AskModel /\ UNCHANGED result
  <2>1. /\ Paid' /\ state' = "awaiting_specialist" /\ steps' \in Nat
        /\ states' \in Seq({"receiving", "routing", "awaiting_specialist", "completed", "failed"})
    BY <1>1, <1>3, RecordKeepsPaid
  <2>2. modelCalls' = 1 /\ answer' = NoValue
    BY <1>2, <1>3 DEF AskModel
  <2>3. TypeOK'
    BY <1>1, <1>2, <1>3, <2>1, <2>2 DEF OrchestrationInv, TypeOK, SpecialistFor
  <2>4. Asked'
    BY <1>1, <1>2, <2>1, <2>2 DEF Asked
  <2>5. OneSpecialistPerRequest'
    BY <1>1, <1>2, <1>3, <2>2 DEF OneSpecialistPerRequest
  <2> QED
    BY <2>1, <2>3, <2>4, <2>5 DEF OrchestrationInv
<1>4. CASE Fail("budget_exceeded") /\ UNCHANGED <<steps, specialist, modelCalls, answer>>
  <2>1. /\ Paid' /\ state' = "failed" /\ result' \in ErrorCodes
        /\ states' \in Seq({"receiving", "routing", "awaiting_specialist", "completed", "failed"})
    <3>1. "budget_exceeded" \in ErrorCodes /\ state \notin {"completed", "failed"}
      BY <1>1 DEF ErrorCodes
    <3> QED
      BY <1>1, <1>4, <3>1, FailKeepsPaid
  <2>2. TypeOK'
    BY <1>1, <1>2, <1>4, <2>1 DEF OrchestrationInv, TypeOK
  <2>3. Asked' /\ OneSpecialistPerRequest'
    BY <1>2, <1>4, <2>1 DEF Asked, OneSpecialistPerRequest
  <2> QED
    BY <2>1, <2>2, <2>3 DEF OrchestrationInv
<1> QED
  BY <1>3, <1>4 DEF InvokeSpecialist

\* The specialist's answer completes the orchestration, or finds the steps spent.
LEMMA AnswerKeepsInv ==
  ASSUME OrchestrationInv, SpecialistAnswers
  PROVE  OrchestrationInv'
<1>1. /\ state = "awaiting_specialist" /\ answer' = "valid"
      /\ UNCHANGED <<input, invocations, specialist, modelCalls, retryUsed>>
  BY DEF SpecialistAnswers
<1>2. CASE Record("completed") /\ result' = "ok"
  <2>1. /\ Paid' /\ state' = "completed" /\ steps' \in Nat
        /\ states' \in Seq({"receiving", "routing", "awaiting_specialist", "completed", "failed"})
    BY <1>1, <1>2, RecordKeepsPaid
  <2>2. TypeOK'
    BY <1>1, <1>2, <2>1 DEF OrchestrationInv, TypeOK
  <2>3. Asked' /\ OneSpecialistPerRequest'
    BY <1>1, <2>1 DEF OrchestrationInv, Asked, OneSpecialistPerRequest
  <2> QED
    BY <2>1, <2>2, <2>3 DEF OrchestrationInv
<1>3. CASE Fail("budget_exceeded") /\ UNCHANGED steps
  <2>1. "budget_exceeded" \in ErrorCodes /\ state \notin {"completed", "failed"}
    BY <1>1 DEF ErrorCodes
  <2> QED
    BY <1>1, <1>3, <2>1, FailKeepsInv
<1> QED
  BY <1>2, <1>3 DEF SpecialistAnswers

\* One malformed answer is asked for again; the second ends the request.
LEMMA ErrorKeepsInv ==
  ASSUME OrchestrationInv, SpecialistErrs
  PROVE  OrchestrationInv'
<1>1. /\ state = "awaiting_specialist" /\ UNCHANGED <<input, steps, invocations, specialist>>
  BY DEF SpecialistErrs
<1>2. CASE ~retryUsed /\ retryUsed' = TRUE /\ AskModel /\ UNCHANGED <<state, states, result>>
  <2>1. modelCalls = 1 /\ modelCalls' = 2 /\ answer' = NoValue
    BY <1>1, <1>2 DEF OrchestrationInv, Asked, AskModel
  <2>2. TypeOK'
    BY <1>1, <1>2, <2>1 DEF OrchestrationInv, TypeOK
  <2>3. Paid'
    <3>1. Taken' = Taken
      BY <1>1 DEF Taken
    <3> QED
      BY <1>1, <1>2, <3>1 DEF OrchestrationInv, Paid
  <2>4. Asked' /\ OneSpecialistPerRequest'
    BY <1>1, <1>2, <2>1 DEF OrchestrationInv, Asked, OneSpecialistPerRequest
  <2> QED
    BY <2>2, <2>3, <2>4 DEF OrchestrationInv
<1>3. CASE retryUsed /\ answer' = "malformed" /\ Fail("invalid_output") /\ UNCHANGED <<retryUsed, modelCalls>>
  <2>1. "invalid_output" \in ErrorCodes /\ state \notin {"completed", "failed"}
    BY <1>1 DEF ErrorCodes
  <2> QED
    BY <1>1, <1>3, <2>1, FailKeepsInv
<1> QED
  BY <1>2, <1>3 DEF SpecialistErrs

\* The remaining steps only fail the request.
LEMMA FailuresKeepInv ==
  ASSUME OrchestrationInv,
         \/ RefuseBlank \/ RejectIntent \/ ExceedInvocations \/ ModelTimesOut
         \/ SpecialistLeaks \/ SpecialistSpeaksProse
         \/ \E code \in {"llm_provider", "specialist_failed"} : SpecialistThrows(code)
  PROVE  OrchestrationInv'
<1>1. /\ state \notin {"completed", "failed"}
      /\ UNCHANGED <<input, steps, invocations, specialist, modelCalls, retryUsed>>
      /\ answer' \in {answer, "valid", "malformed", "prose"}
  BY DEF RefuseBlank, RejectIntent, ExceedInvocations, ModelTimesOut, SpecialistLeaks,
         SpecialistSpeaksProse, SpecialistThrows
<1>2. \E code \in ErrorCodes : Fail(code)
  BY DEF RefuseBlank, RejectIntent, ExceedInvocations, ModelTimesOut, SpecialistLeaks,
         SpecialistSpeaksProse, SpecialistThrows, ErrorCodes
<1> QED
  BY <1>1, <1>2, FailKeepsInv

\* No step leaves the invariant.
LEMMA NextInv == OrchestrationInv /\ [Next]_vars => OrchestrationInv'
<1> SUFFICES ASSUME OrchestrationInv, [Next]_vars PROVE OrchestrationInv'
  OBVIOUS
<1>1. CASE Receive \/ StartRouting
  BY <1>1, ReceiveKeepsInv
<1>2. CASE InvokeSpecialist
  BY <1>2, InvokeKeepsInv
<1>3. CASE SpecialistAnswers
  BY <1>3, AnswerKeepsInv
<1>4. CASE SpecialistErrs
  BY <1>4, ErrorKeepsInv
<1>5. CASE \/ RefuseBlank \/ RejectIntent \/ ExceedInvocations \/ ModelTimesOut
           \/ SpecialistLeaks \/ SpecialistSpeaksProse
           \/ \E code \in {"llm_provider", "specialist_failed"} : SpecialistThrows(code)
  BY <1>5, FailuresKeepInv
<1>6. CASE UNCHANGED vars
  <2>1. Taken' = Taken
    BY <1>6 DEF vars, Taken
  <2> QED
    BY <1>6, <2>1 DEF vars, OrchestrationInv, TypeOK, Paid, Asked, OneSpecialistPerRequest
<1> QED
  BY <1>1, <1>2, <1>3, <1>4, <1>5, <1>6 DEF Next, Runtime, Model

-----------------------------------------------------------------------------
\* The invariant of every reachable state of handleOrchestratedTurn.
THEOREM OrchestrationInvariance == Spec => []OrchestrationInv
<1> QED
  BY InitInv, NextInv, PTL DEF Spec

\* The variables of a request keep the types the handler gives them.
THEOREM OrchestrationTypeCorrect == Spec => []TypeOK
<1>1. OrchestrationInv => TypeOK
  BY DEF OrchestrationInv
<1> QED
  BY <1>1, OrchestrationInvariance, PTL

\* A request's transitions are those its step budget paid for, in order,
\* whatever its caller had consumed.
THEOREM TransitionsPaid == Spec => []TransitionsArePaidFor
<1>1. OrchestrationInv => TransitionsArePaidFor
  <2> SUFFICES ASSUME OrchestrationInv PROVE TransitionsArePaidFor
    OBVIOUS
  <2>1. /\ input.consumedSteps \in Nat /\ steps \in Nat /\ Taken \in 0 .. 4
        /\ input.consumedSteps + Taken = steps
    <3>1. input.consumedSteps \in Nat
      BY ConsumedAssumption DEF OrchestrationInv, TypeOK, Inputs
    <3>2. steps \in Nat /\ Taken \in 0 .. 4
      BY DEF OrchestrationInv, TypeOK, Paid
    <3> QED
      BY <3>1, <3>2 DEF Taken
  <2>2. Prefix(Taken) \in Seq(StepNames)
    <3>1. \A i \in 1 .. Taken : Steps[i] \in StepNames
      BY <2>1, StepsAreNamed
    <3> QED
      BY <2>1, <3>1, SubSeqProperties DEF Prefix
  <2>3. states = Prefix(Taken) \o (IF state = "failed" THEN <<"failed">> ELSE <<>>)
    <3>1. CASE state = "failed"
      BY <2>2, <3>1, AppendIsConcat DEF OrchestrationInv, Paid, StepNames
    <3>2. CASE state # "failed"
      BY <2>2, <3>2, ConcatEmptySeq DEF OrchestrationInv, Paid
    <3> QED
      BY <3>1, <3>2
  <2>4. result = "ok" => input.consumedSteps = 0
    BY <2>1 DEF OrchestrationInv, Paid, MAX_ORCHESTRATION_STEPS
  <2>5. input.consumedSteps + Taken <= MAX_ORCHESTRATION_STEPS \/ Taken = 0
    BY <2>1 DEF OrchestrationInv, Paid
  <2> QED
    BY <2>3, <2>4, <2>5 DEF TransitionsArePaidFor, Taken, Prefix
<1> QED
  BY <1>1, OrchestrationInvariance, PTL

\* One specialist is asked, the routed one, on the first invocation.
THEOREM OneSpecialistAsked == Spec => []OneSpecialistPerRequest
<1>1. OrchestrationInv => OneSpecialistPerRequest
  BY DEF OrchestrationInv
<1> QED
  BY <1>1, OrchestrationInvariance, PTL
=============================================================================
