-------------------------- MODULE WebCall_proofs --------------------------
(***************************************************************************)
(* Theorems about the web screen, for any number of attempts to call, any  *)
(* messages and any transcript limit.                                      *)
(***************************************************************************)
EXTENDS WebCall, FiniteSetTheorems, TLAPS

\* The phases of an attempt that was made and is not over.
Going == {"loading", "joining", "live", "leaving"}

\* The variables' types that the arguments below use.
ScreenTypes ==
  /\ queued \in Screens /\ shown \in Screens /\ effected \in Screens
  /\ becameActive \in BOOLEAN /\ gaveUp \in BOOLEAN
  /\ phase \in [Attempts -> {"new", "over"} \union Going]
  /\ evaluation \in Channels /\ loads \subseteq Attempts

\* A call marked as having been active has begun, and completes only by its end.
Reported ==
  /\ becameActive => "start" \in reported
  /\ queued.state = "completed" => {"start", "end"} \subseteq reported

\* The states a screen may have beside an attempt: the one the user started has
\* been rendered and copied, a started call need not be.
Beside(p) == CASE p \in {"loading", "joining"} -> {"connecting"}
               [] p \in {"live", "leaving"} -> {"connecting", "active", "ending"}

\* What one of the three copies of the screen says of the calls.
Follows(s) ==
  /\ s.state # "error"
  /\ \A a \in Attempts : phase[a] \in Going => s.state \in Beside(phase[a])
  /\ s.channel # 0 => phase[s.channel] \in {"live", "leaving", "over"}

\* Until the screen gives up on an attempt, at most one is going on, the copies
\* of the screen follow it, and reports are those of calls that are over.
InStep ==
  /\ \A a, b \in Attempts : phase[a] \in Going /\ phase[b] \in Going => a = b
  /\ Follows(queued) /\ Follows(shown) /\ Follows(effected)
  /\ \A a \in Attempts : phase[a] \in {"live", "leaving"} => queued.state \in {"active", "ending"}
  /\ \A a \in loads \union ({evaluation} \ {0}) : phase[a] = "over"

\* The inductive invariant.
CallInv == ScreenTypes /\ Reported /\ (~gaveUp => InStep)

\* No attempt was made.
LEMMA InitCall == Init => CallInv
<1> SUFFICES ASSUME Init PROVE CallInv
  OBVIOUS
<1>1. queued = [state |-> "idle", channel |-> 0] /\ shown = queued /\ effected = queued
  BY DEF Init
<1>2. queued \in Screens /\ 0 \in Channels
  BY <1>1, ScreenAssumption DEF Screens, CallStates, Channels
<1>3. ScreenTypes
  BY <1>1, <1>2 DEF Init, ScreenTypes
<1>4. Reported /\ InStep
  BY <1>1 DEF Init, Reported, InStep, Follows, Going
<1> QED
  BY <1>3, <1>4 DEF CallInv

\* The clicks: a start finds no attempt going on, unless the screen gave up on it.
LEMMA StartCallKeeps ==
  ASSUME CallInv, NEW a \in Attempts, StartCall(a)
  PROVE  CallInv'
<1>1. ScreenTypes'
  <2>1. /\ queued' = [state |-> "connecting", channel |-> 0]
        /\ shown' = queued' /\ effected' = queued'
        /\ becameActive' = FALSE /\ UNCHANGED <<gaveUp, evaluation, loads>>
        /\ \E where \in {"loading", "joining"} : phase' = [phase EXCEPT ![a] = where]
    BY DEF StartCall, Clicked, ResetActiveMark, reports
  <2>2. queued' \in Screens
    BY <2>1, ScreenAssumption DEF Screens, CallStates, Channels
  <2> QED
    BY <2>1, <2>2 DEF CallInv, ScreenTypes, Going
<1>2. Reported'
  BY DEF StartCall, Clicked, ResetActiveMark, CallInv, ScreenTypes, Reported, screen, media, reports, history, Screens
<1>3. ~gaveUp' => InStep'
  BY DEF StartCall, Clicked, ResetActiveMark, CallInv, ScreenTypes, InStep, Follows, Beside, screen, media, reports, history,
     Screens, CallStates, Channels, Attempts, Going
<1> QED
  BY <1>1, <1>2, <1>3 DEF CallInv

\* The end button is shown beside a live call.
LEMMA EndCallKeeps ==
  ASSUME CallInv, EndCall
  PROVE  CallInv'
<1>1. ScreenTypes'
  BY ScreenAssumption DEF EndCall, Clicked, Stopped, CallInv, ScreenTypes, screen, media, reports, history, Screens, CallStates, Channels,
     Attempts, Going
<1>2. Reported'
  BY DEF EndCall, Clicked, Stopped, CallInv, ScreenTypes, Reported, screen, media, reports, history, Screens
<1>3. ~gaveUp' => InStep'
  BY DEF EndCall, Clicked, Stopped, CallInv, ScreenTypes, InStep, Follows, Beside, screen, media, reports, history,
     Screens, CallStates, Channels, Attempts, Going
<1> QED
  BY <1>1, <1>2, <1>3 DEF CallInv

\* The promises and the timer.
LEMMA SdkLoadsKeeps ==
  ASSUME CallInv, NEW a \in Attempts, SdkLoads(a)
  PROVE  CallInv'
<1>1. ScreenTypes'
  BY ScreenAssumption DEF SdkLoads, CallInv, ScreenTypes, screen, media, reports, history, Screens, CallStates, Channels,
     Attempts, Going
<1>2. Reported'
  BY DEF SdkLoads, CallInv, ScreenTypes, Reported, screen, media, reports, history, Screens
<1>3. ~gaveUp' => InStep'
  BY DEF SdkLoads, CallInv, ScreenTypes, InStep, Follows, Beside, screen, media, reports, history,
     Screens, CallStates, Channels, Attempts, Going
<1> QED
  BY <1>1, <1>2, <1>3 DEF CallInv

\* A start that fails gives up.
LEMMA StartRejectsKeeps ==
  ASSUME CallInv, NEW a \in Attempts, StartRejects(a)
  PROVE  CallInv'
<1>1. ScreenTypes'
  BY ScreenAssumption DEF StartRejects, GiveUp, SetCallState, CallInv, ScreenTypes, screen, media, reports, history, Screens, CallStates, Channels,
     Attempts, Going
<1>2. Reported'
  BY DEF StartRejects, GiveUp, SetCallState, CallInv, ScreenTypes, Reported, screen, media, reports, history, Screens
<1>3. ~gaveUp' => InStep'
  BY DEF StartRejects, GiveUp, SetCallState, CallInv, ScreenTypes, InStep, Follows, Beside, screen, media, reports, history,
     Screens, CallStates, Channels, Attempts, Going
<1> QED
  BY <1>1, <1>2, <1>3 DEF CallInv

\* A settled stop() changes no screen.
LEMMA StopResolvesKeeps ==
  ASSUME CallInv, StopResolves
  PROVE  CallInv'
<1>1. ScreenTypes'
  BY ScreenAssumption DEF StopResolves, CallInv, ScreenTypes, screen, media, reports, history, Screens, CallStates, Channels,
     Attempts, Going
<1>2. Reported'
  BY DEF StopResolves, CallInv, ScreenTypes, Reported, screen, media, reports, history, Screens
<1>3. ~gaveUp' => InStep'
  BY DEF StopResolves, CallInv, ScreenTypes, InStep, Follows, Beside, screen, media, reports, history,
     Screens, CallStates, Channels, Attempts, Going
<1> QED
  BY <1>1, <1>2, <1>3 DEF CallInv

\* A stop() that fails gives up.
LEMMA StopRejectsKeeps ==
  ASSUME CallInv, StopRejects
  PROVE  CallInv'
<1>1. ScreenTypes'
  BY ScreenAssumption DEF StopRejects, GiveUp, SetCallState, CallInv, ScreenTypes, screen, media, reports, history, Screens, CallStates, Channels,
     Attempts, Going
<1>2. Reported'
  BY DEF StopRejects, GiveUp, SetCallState, CallInv, ScreenTypes, Reported, screen, media, reports, history, Screens
<1>3. ~gaveUp' => InStep'
  BY DEF StopRejects, GiveUp, SetCallState, CallInv, ScreenTypes, InStep, Follows, Beside, screen, media, reports, history,
     Screens, CallStates, Channels, Attempts, Going
<1> QED
  BY <1>1, <1>2, <1>3 DEF CallInv

\* The timer gives up.
LEMMA ConnectingTimesOutKeeps ==
  ASSUME CallInv, ConnectingTimesOut
  PROVE  CallInv'
<1>1. ScreenTypes'
  BY ScreenAssumption DEF ConnectingTimesOut, GiveUp, SetCallState, Stopped, CallInv, ScreenTypes, screen, media, reports, history, Screens, CallStates, Channels,
     Attempts, Going
<1>2. Reported'
  BY DEF ConnectingTimesOut, GiveUp, SetCallState, Stopped, CallInv, ScreenTypes, Reported, screen, media, reports, history, Screens
<1>3. ~gaveUp' => InStep'
  BY DEF ConnectingTimesOut, GiveUp, SetCallState, Stopped, CallInv, ScreenTypes, InStep, Follows, Beside, screen, media, reports, history,
     Screens, CallStates, Channels, Attempts, Going
<1> QED
  BY <1>1, <1>2, <1>3 DEF CallInv

\* A timer too late does nothing.
LEMMA TimeoutComesLateKeeps ==
  ASSUME CallInv, TimeoutComesLate
  PROVE  CallInv'
<1>1. ScreenTypes'
  BY ScreenAssumption DEF TimeoutComesLate, CallInv, ScreenTypes, screen, media, reports, history, Screens, CallStates, Channels,
     Attempts, Going
<1>2. Reported'
  BY DEF TimeoutComesLate, CallInv, ScreenTypes, Reported, screen, media, reports, history, Screens
<1>3. ~gaveUp' => InStep'
  BY DEF TimeoutComesLate, CallInv, ScreenTypes, InStep, Follows, Beside, screen, media, reports, history,
     Screens, CallStates, Channels, Attempts, Going
<1> QED
  BY <1>1, <1>2, <1>3 DEF CallInv

\* The vendor's events: one attempt is going on, so a start is that one's.
LEMMA CallStartsKeeps ==
  ASSUME CallInv, NEW a \in Attempts, NEW channel \in {0, a}, CallStarts(a, channel)
  PROVE  CallInv'
<1>1. ScreenTypes'
  <2>1. [state |-> "active", channel |-> channel] \in Screens
    BY ScreenAssumption DEF Screens, CallStates, Channels, Attempts
  <2> QED
    BY <2>1 DEF CallStarts, ListensToStart, CallInv, ScreenTypes, reports, Going
<1>2. Reported'
  BY DEF CallStarts, ListensToStart, CallInv, ScreenTypes, Reported, screen, media, reports, history, Screens
<1>3. ~gaveUp' => InStep'
  BY DEF CallStarts, ListensToStart, CallInv, ScreenTypes, InStep, Follows, Beside, screen, media, reports, history,
     Screens, CallStates, Channels, Attempts, Going
<1> QED
  BY <1>1, <1>2, <1>3 DEF CallInv

\* An end completes the call that became active.
LEMMA CallEndsKeeps ==
  ASSUME CallInv, NEW a \in Attempts, CallEnds(a)
  PROVE  CallInv'
<1>1. ScreenTypes'
  BY ScreenAssumption DEF CallEnds, GiveUp, SetCallState, CallInv, ScreenTypes, screen, media, reports, history, Screens, CallStates, Channels,
     Attempts, Going
<1>2. Reported'
  BY DEF CallEnds, GiveUp, SetCallState, CallInv, ScreenTypes, Reported, screen, media, reports, history, Screens
<1>3. ~gaveUp' => InStep'
  BY DEF CallEnds, GiveUp, SetCallState, CallInv, ScreenTypes, InStep, Follows, Beside, screen, media, reports, history,
     Screens, CallStates, Channels, Attempts, Going
<1> QED
  BY <1>1, <1>2, <1>3 DEF CallInv

\* An error gives up.
LEMMA MediaErrsKeeps ==
  ASSUME CallInv, NEW a \in Attempts, MediaErrs(a)
  PROVE  CallInv'
<1>1. ScreenTypes'
  BY ScreenAssumption DEF MediaErrs, GiveUp, SetCallState, CallInv, ScreenTypes, screen, media, reports, history, Screens, CallStates, Channels,
     Attempts, Going
<1>2. Reported'
  BY DEF MediaErrs, GiveUp, SetCallState, CallInv, ScreenTypes, Reported, screen, media, reports, history, Screens
<1>3. ~gaveUp' => InStep'
  BY DEF MediaErrs, GiveUp, SetCallState, CallInv, ScreenTypes, InStep, Follows, Beside, screen, media, reports, history,
     Screens, CallStates, Channels, Attempts, Going
<1> QED
  BY <1>1, <1>2, <1>3 DEF CallInv

\* A message changes no screen.
LEMMA SaysKeeps ==
  ASSUME CallInv, NEW a \in Attempts, NEW m \in Messages, Says(a, m)
  PROVE  CallInv'
<1>1. ScreenTypes'
  BY ScreenAssumption DEF Says, CallInv, ScreenTypes, screen, media, reports, history, Screens, CallStates, Channels,
     Attempts, Going
<1>2. Reported'
  BY DEF Says, CallInv, ScreenTypes, Reported, screen, media, reports, history, Screens
<1>3. ~gaveUp' => InStep'
  BY DEF Says, CallInv, ScreenTypes, InStep, Follows, Beside, screen, media, reports, history,
     Screens, CallStates, Channels, Attempts, Going
<1> QED
  BY <1>1, <1>2, <1>3 DEF CallInv

\* Rendering and the effects copy a screen that followed the call.
LEMMA RenderKeeps ==
  ASSUME CallInv, Render
  PROVE  CallInv'
<1>1. ScreenTypes'
  BY ScreenAssumption DEF Render, CallInv, ScreenTypes, screen, media, reports, history, Screens, CallStates, Channels,
     Attempts, Going
<1>2. Reported'
  BY DEF Render, CallInv, ScreenTypes, Reported, screen, media, reports, history, Screens
<1>3. ~gaveUp' => InStep'
  BY DEF Render, CallInv, ScreenTypes, InStep, Follows, Beside, screen, media, reports, history,
     Screens, CallStates, Channels, Attempts, Going
<1> QED
  BY <1>1, <1>2, <1>3 DEF CallInv

\* The report effect runs for a call that is over.
LEMMA RunEffectsKeeps ==
  ASSUME CallInv, RunEffects
  PROVE  CallInv'
<1>1. ScreenTypes'
  <2>1. 0 \in Channels /\ shown.channel \in Channels /\ Channels = Attempts \union {0}
    BY ScreenAssumption DEF CallInv, ScreenTypes, Screens, Channels, Attempts
  <2>2. evaluation' \in Channels /\ loads' \subseteq Attempts
    BY <2>1 DEF RunEffects, LoadReport, CallInv, ScreenTypes
  <2> QED
    BY <2>2 DEF RunEffects, CallInv, ScreenTypes, media, history
<1>2. Reported'
  BY DEF RunEffects, ReportDue, LoadReport, CallInv, ScreenTypes, Reported, screen, media, reports, history, Screens
<1>3. ~gaveUp' => InStep'
  BY DEF RunEffects, ReportDue, LoadReport, CallInv, ScreenTypes, InStep, Follows, Beside, screen, media, reports, history,
     Screens, CallStates, Channels, Attempts, Going
<1> QED
  BY <1>1, <1>2, <1>3 DEF CallInv

\* The report: a passcode entered late still asks for the call on the screen.
LEMMA UnlockKeeps ==
  ASSUME CallInv, NEW entered \in {"wrong", "right"}, Unlock(entered)
  PROVE  CallInv'
<1>1. ScreenTypes'
  <2>1. 0 \in Channels /\ shown.channel \in Channels /\ Channels = Attempts \union {0}
    BY ScreenAssumption DEF CallInv, ScreenTypes, Screens, Channels, Attempts
  <2>2. evaluation' \in Channels /\ loads' \subseteq Attempts
    BY <2>1 DEF Unlock, LoadReport, CallInv, ScreenTypes
  <2> QED
    BY <2>2 DEF Unlock, CallInv, ScreenTypes, screen, media, history
<1>2. Reported'
  BY DEF Unlock, LoadReport, CallInv, ScreenTypes, Reported, screen, media, reports, history, Screens
<1>3. ~gaveUp' => InStep'
  BY DEF Unlock, LoadReport, CallInv, ScreenTypes, InStep, Follows, Beside, screen, media, reports, history,
     Screens, CallStates, Channels, Attempts, Going
<1> QED
  BY <1>1, <1>2, <1>3 DEF CallInv

\* A report is of a channel it was asked for.
LEMMA ReportArrivesKeeps ==
  ASSUME CallInv, NEW channel \in loads, NEW scored \in BOOLEAN, ReportArrives(channel, scored)
  PROVE  CallInv'
<1>1. ScreenTypes'
  BY ScreenAssumption DEF ReportArrives, CallInv, ScreenTypes, screen, media, reports, history, Screens, CallStates, Channels,
     Attempts, Going
<1>2. Reported'
  BY DEF ReportArrives, CallInv, ScreenTypes, Reported, screen, media, reports, history, Screens
<1>3. ~gaveUp' => InStep'
  BY DEF ReportArrives, CallInv, ScreenTypes, InStep, Follows, Beside, screen, media, reports, history,
     Screens, CallStates, Channels, Attempts, Going
<1> QED
  BY <1>1, <1>2, <1>3 DEF CallInv

\* A report that fails shows none.
LEMMA ReportFailsKeeps ==
  ASSUME CallInv, NEW channel \in loads, ReportFails(channel)
  PROVE  CallInv'
<1>1. ScreenTypes'
  BY ScreenAssumption DEF ReportFails, CallInv, ScreenTypes, screen, media, reports, history, Screens, CallStates, Channels,
     Attempts, Going
<1>2. Reported'
  BY DEF ReportFails, CallInv, ScreenTypes, Reported, screen, media, reports, history, Screens
<1>3. ~gaveUp' => InStep'
  BY DEF ReportFails, CallInv, ScreenTypes, InStep, Follows, Beside, screen, media, reports, history,
     Screens, CallStates, Channels, Attempts, Going
<1> QED
  BY <1>1, <1>2, <1>3 DEF CallInv

\* By cases on the next-state relation.
LEMMA NextCall == CallInv /\ [Next]_vars => CallInv'
<1>1. ASSUME CallInv, UNCHANGED vars PROVE CallInv'
  BY <1>1 DEF CallInv, ScreenTypes, Reported, InStep, Follows, vars, screen, media, reports, history
<1> QED
  BY <1>1, StartCallKeeps, EndCallKeeps, SdkLoadsKeeps, StartRejectsKeeps, StopResolvesKeeps,
     StopRejectsKeeps, ConnectingTimesOutKeeps, TimeoutComesLateKeeps, CallStartsKeeps, CallEndsKeeps,
     MediaErrsKeeps, SaysKeeps, RenderKeeps, RunEffectsKeeps, UnlockKeeps, ReportArrivesKeeps,
     ReportFailsKeeps DEF Next

\* The screen follows its calls for any number of attempts and any messages.
THEOREM CallInvariance == Spec => []CallInv
<1> QED
  BY InitCall, NextCall, PTL DEF Spec

\* A call shown as completed has begun and ended since the user started it, for
\* any number of attempts (onCallEnd, becameActiveRef).
THEOREM CompletedCallsEnded == Spec => []CompletedOnlyAfterTheEnd
<1>1. CallInv => CompletedOnlyAfterTheEnd
  BY DEF CallInv, Reported, CompletedOnlyAfterTheEnd
<1> QED
  BY <1>1, CallInvariance, PTL

\* Until something goes wrong the screen follows its call, so that a live call
\* can be ended.
THEOREM LiveCallsHaveAnEnd == Spec => []LiveCallHasAnEnd
<1>1. CallInv => LiveCallHasAnEnd
  BY DEF CallInv, InStep, Follows, Beside, Going, LiveCallHasAnEnd
<1> QED
  BY <1>1, CallInvariance, PTL

\* Until something goes wrong only calls that are over have their report fetched
\* and their evaluation shown (DemoApp's report effect).
THEOREM EvaluationsAreOfEndedCalls == Spec => []EvaluationOfAnEndedCall
<1>1. CallInv => EvaluationOfAnEndedCall
  BY DEF CallInv, InStep, EvaluationOfAnEndedCall
<1> QED
  BY <1>1, CallInvariance, PTL

-----------------------------------------------------------------------------
(* The connecting timer.                                                   *)

\* While the timer is armed every copy of the screen is connecting, or failed.
Armed ==
  timer => \A s \in {queued, shown, effected} : s.state \in {"connecting", "error"}

\* The timer of no attempt fires into a call that has started.
THEOREM TimerIsCleared == Spec => []NoTimerInACall
<1>1. Init => Armed
  BY DEF Init, Armed
<1>2. CallInv /\ Armed /\ [Next]_vars => Armed'
  <2> SUFFICES ASSUME CallInv, Armed, [Next]_vars PROVE Armed'
    OBVIOUS
  <2> queued \in Screens /\ shown \in Screens /\ effected \in Screens
    BY DEF CallInv, ScreenTypes
  <2>1. CASE \E a \in Attempts : StartCall(a)
    BY <2>1 DEF Armed, Screens, StartCall, Clicked, ArmConnectingTimer
  <2>2. CASE EndCall
    BY <2>2 DEF Armed, Screens, EndCall, Clicked
  <2>3. CASE \E a \in Attempts : SdkLoads(a) \/ StartRejects(a) \/ CallEnds(a) \/ MediaErrs(a)
    BY <2>3 DEF Armed, Screens, SdkLoads, StartRejects, CallEnds, MediaErrs, GiveUp, SetCallState, ClearConnectingTimer, screen
  <2>4. CASE StopResolves \/ StopRejects \/ ConnectingTimesOut \/ TimeoutComesLate
    BY <2>4 DEF Armed, Screens, StopResolves, StopRejects, ConnectingTimesOut, TimeoutComesLate, GiveUp, SetCallState, screen
  <2>5. CASE \E a \in Attempts : \E channel \in {0, a} : CallStarts(a, channel)
    BY <2>5 DEF Armed, Screens, CallStarts, ClearConnectingTimer
  <2>6. CASE \E a \in Attempts : \E m \in Messages : Says(a, m)
    BY <2>6 DEF Armed, Screens, Says, screen
  <2>7. CASE Render \/ RunEffects
    BY <2>7 DEF Armed, Screens, Render, RunEffects
  <2>8. CASE \/ \E entered \in {"wrong", "right"} : Unlock(entered)
               \/ \E channel \in loads : ReportFails(channel) \/ \E scored \in BOOLEAN : ReportArrives(channel, scored)
    BY <2>8 DEF Armed, Screens, Unlock, ReportFails, ReportArrives, screen
  <2>9. CASE UNCHANGED vars
    BY <2>9 DEF Armed, Screens, vars, screen
  <2> QED
    BY <2>1, <2>2, <2>3, <2>4, <2>5, <2>6, <2>7, <2>8, <2>9 DEF Next
<1>3. Armed => NoTimerInACall
  BY DEF Armed, Screens, NoTimerInACall
<1> QED
  BY <1>1, <1>2, <1>3, CallInvariance, PTL DEF Spec

-----------------------------------------------------------------------------
(* The transcript.                                                         *)

\* No message is shown twice, and the last one said is shown.
TranscriptInv ==
  /\ transcript \in Seq(Messages)
  /\ Len(transcript) <= MaxTranscriptMessages
  /\ IsInjective(transcript)
  /\ lastSaid # NoValue => Contains(transcript, lastSaid)

\* A message that is appended is the last of those kept.
LEMMA LastMessagesFacts ==
  ASSUME NEW messages \in Seq(Messages), IsInjective(messages), Len(messages) > 0
  PROVE  LET kept == LastMessages(messages) IN
         /\ kept \in Seq(Messages) /\ Len(kept) <= MaxTranscriptMessages
         /\ IsInjective(kept)
         /\ Contains(kept, messages[Len(messages)])
<1>1. CASE Len(messages) <= MaxTranscriptMessages
  <2>1. Len(messages) \in 1 .. Len(messages)
    OBVIOUS
  <2> QED
    BY <1>1, <2>1 DEF LastMessages, Contains
<1>2. CASE Len(messages) > MaxTranscriptMessages
  <2> DEFINE dropped == Len(messages) - MaxTranscriptMessages
             kept == SubSeq(messages, dropped + 1, Len(messages))
  <2>1. /\ Len(messages) \in Nat /\ MaxTranscriptMessages \in Nat \ {0}
        /\ dropped \in Nat /\ MaxTranscriptMessages = Len(messages) - dropped
    BY <1>2, ScreenAssumption
  <2>2. LastMessages(messages) = kept
    BY <1>2, <2>1 DEF LastMessages
  <2>3. /\ kept \in Seq(Messages) /\ Len(kept) = MaxTranscriptMessages
        /\ \A i \in 1 .. MaxTranscriptMessages : kept[i] = messages[dropped + i]
    <3> HIDE DEF dropped
    <3>1. Len(messages) - (dropped + 1) + 1 = MaxTranscriptMessages
      BY <2>1
    <3> QED
      BY <2>1, <3>1
  <2> HIDE DEF kept
  <2>4. IsInjective(kept)
    <3> SUFFICES ASSUME NEW i \in DOMAIN kept, NEW j \in DOMAIN kept, kept[i] = kept[j]
                 PROVE  i = j
      BY DEF IsInjective
    <3>1. i \in 1 .. MaxTranscriptMessages /\ j \in 1 .. MaxTranscriptMessages
      BY <2>3
    <3>2. dropped + i \in 1 .. Len(messages) /\ dropped + j \in 1 .. Len(messages)
      BY <2>1, <3>1
    <3>3. messages[dropped + i] = messages[dropped + j]
      BY <2>3, <3>1
    <3>4. dropped + i = dropped + j
      BY <3>2, <3>3 DEF IsInjective
    <3> QED
      BY <2>1, <3>1, <3>4
  <2>5. Contains(kept, messages[Len(messages)])
    <3>1. MaxTranscriptMessages \in 1 .. Len(kept) /\ dropped + MaxTranscriptMessages = Len(messages)
      BY <2>1, <2>3
    <3>2. kept[MaxTranscriptMessages] = messages[Len(messages)]
      BY <2>1, <2>3, <3>1
    <3> QED
      BY <3>1, <3>2 DEF Contains
  <2> QED
    BY <2>1, <2>2, <2>3, <2>4, <2>5
<1> QED
  BY <1>1, <1>2, ScreenAssumption

\* A new message is appended; one that is on the screen is not.
LEMMA SaysKeepsTranscript ==
  ASSUME TranscriptInv, NEW a, NEW m \in Messages, Says(a, m)
  PROVE  TranscriptInv'
<1>1. lastSaid' = m
  BY DEF Says
<1>2. CASE Contains(transcript, m)
  BY <1>1, <1>2 DEF Says, TranscriptInv
<1>3. CASE ~Contains(transcript, m)
  <2> DEFINE messages == Append(transcript, m)
  <2>1. transcript' = LastMessages(messages) /\ transcript \in Seq(Messages)
    BY <1>3 DEF Says, TranscriptInv
  <2>2. /\ messages \in Seq(Messages) /\ Len(messages) = Len(transcript) + 1
        /\ messages[Len(messages)] = m /\ Len(messages) > 0
        /\ \A i \in 1 .. Len(transcript) : messages[i] = transcript[i]
    BY <2>1
  <2> HIDE DEF messages
  <2>3. IsInjective(messages)
    <3> SUFFICES ASSUME NEW i \in DOMAIN messages, NEW j \in DOMAIN messages,
                        messages[i] = messages[j]
                 PROVE  i = j
      BY DEF IsInjective
    <3>1. \A n \in DOMAIN messages : n \in 1 .. Len(transcript) \/ n = Len(messages)
      BY <2>1, <2>2
    <3>2. \A n \in 1 .. Len(transcript) : messages[n] = transcript[n] /\ messages[n] # m
      BY <1>3, <2>2 DEF Contains
    <3>3. \A n, o \in 1 .. Len(transcript) : transcript[n] = transcript[o] => n = o
      BY <2>1 DEF TranscriptInv, IsInjective
    <3> QED
      BY <2>2, <3>1, <3>2, <3>3
  <2> QED
    BY <1>1, <2>1, <2>2, <2>3, LastMessagesFacts DEF TranscriptInv
<1> QED
  BY <1>2, <1>3

\* The transcript holds no message twice and no more than its limit, and the last
\* one said is among those shown, for any limit and any messages (slice in
\* onTranscriptMessage).
THEOREM TranscriptsAreRecent == Spec => []TranscriptIsRecent
<1>1. Init => TranscriptInv
  <2> SUFFICES ASSUME Init PROVE TranscriptInv
    OBVIOUS
  <2>1. transcript = <<>> /\ lastSaid = NoValue
    BY DEF Init
  <2>2. <<>> \in Seq(Messages) /\ Len(<<>>) = 0 /\ DOMAIN <<>> = {}
    OBVIOUS
  <2> QED
    BY <2>1, <2>2, ScreenAssumption DEF TranscriptInv, IsInjective
<1>2. TranscriptInv /\ [Next]_vars => TranscriptInv'
  <2> SUFFICES ASSUME TranscriptInv, [Next]_vars PROVE TranscriptInv'
    OBVIOUS
  <2>1. CASE UNCHANGED <<transcript, lastSaid>>
    BY <2>1 DEF TranscriptInv
  <2>2. ASSUME NEW a \in Attempts, NEW m \in Messages, Says(a, m) PROVE TranscriptInv'
    BY <2>2, SaysKeepsTranscript
  <2>3. ASSUME NEW a \in Attempts, StartCall(a) PROVE TranscriptInv'
    <3>1. transcript' = <<>> /\ lastSaid' = NoValue
      BY <2>3 DEF StartCall
    <3>2. <<>> \in Seq(Messages) /\ Len(<<>>) = 0 /\ DOMAIN <<>> = {}
      OBVIOUS
    <3> QED
      BY <3>1, <3>2, ScreenAssumption DEF TranscriptInv, IsInjective
  <2>4. \/ UNCHANGED <<transcript, lastSaid>>
        \/ \E a \in Attempts : StartCall(a) \/ \E m \in Messages : Says(a, m)
    BY DEF Next, vars, history, SdkLoads, StartRejects, CallStarts, CallEnds, MediaErrs, EndCall,
           StopResolves, StopRejects, ConnectingTimesOut, TimeoutComesLate, Render, RunEffects,
           Unlock, ReportFails, ReportArrives
  <2> QED
    BY <2>1, <2>2, <2>3, <2>4
<1>3. TranscriptInv => TranscriptIsRecent
  <2> SUFFICES ASSUME TranscriptInv PROVE Cardinality(ToSet(transcript)) = Len(transcript)
    BY DEF TranscriptInv, TranscriptIsRecent
  <2> DEFINE places == 1 .. Len(transcript)
  <2>1. /\ DOMAIN transcript = places /\ Len(transcript) \in Nat
        /\ transcript = [i \in places |-> transcript[i]]
    BY DEF TranscriptInv
  <2>2. IsFiniteSet(places) /\ Cardinality(places) = Len(transcript)
    <3>1. \A n \in Nat : IsFiniteSet(1 .. n) /\ Cardinality(1 .. n) = n
      BY FS_Interval
    <3> QED
      BY <2>1, <3>1
  <2>3. transcript \in [places -> ToSet(transcript)]
    BY <2>1 DEF ToSet
  <2>4. \A t \in ToSet(transcript) : \E i \in places : transcript[i] = t
    BY <2>1 DEF ToSet
  <2> HIDE DEF places
  <2>5. transcript \in Bijection(places, ToSet(transcript))
    BY <2>3, <2>4 DEF Bijection, Injection, Surjection, TranscriptInv
  <2>6. ExistsBijection(places, ToSet(transcript))
    BY <2>5 DEF ExistsBijection
  <2> QED
    BY <2>2, <2>6, FS_Bijection
<1> QED
  BY <1>1, <1>2, <1>3, PTL DEF Spec
=============================================================================
