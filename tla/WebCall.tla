------------------------------ MODULE WebCall ------------------------------
(***************************************************************************)
(* The web screen that starts and ends voice calls: useVoiceAgent over the *)
(* vendor's client (src/web/src/lib/voice/use-voice-agent.ts,              *)
(* create-vapi-client.ts), the buttons (components/agent/VoiceControl.tsx) *)
(* and the report shown after a call (pages/DemoApp.tsx).                  *)
(*                                                                         *)
(* React keeps state three times: what was last set, what the user sees    *)
(* and clicks on, and what the effects have copied into callStateRef.  A   *)
(* vendor event, a timer or a settled promise only sets it; rendering and  *)
(* the effects follow, each later.  A click renders and runs the effects   *)
(* before anything else happens; those of the screen clicked on have run.  *)
(*                                                                         *)
(* Events carry no call: whatever an earlier attempt still reports is      *)
(* taken for the current one's.  The vendor is external; its client's calls*)
(* are numbered by the attempts to start them.                             *)
(***************************************************************************)
EXTENDS Integers, FiniteSets, SequencesExt

CONSTANTS
  MaxAttempts,            \* bound on the clicks on start
  Messages,               \* transcript messages, one per id and text
  MaxTranscriptMessages,  \* MAX_TRANSCRIPT_MESSAGES, 50 in the code
  NoValue

ASSUME ScreenAssumption ==
  MaxAttempts \in Nat \ {0} /\ MaxTranscriptMessages \in Nat \ {0}

VARIABLES
  queued,        \* callState and externalChannelId as last set
  shown,         \* the same as last rendered
  effected,      \* the same when the effects last ran; its state is callStateRef
  becameActive,  \* becameActiveRef
  timer,         \* whether the connecting timer will fire
  sdk,           \* the attempt that made the sdk in use, 0 before there is one
  phase,         \* per attempt, where it stands
  instance,      \* per attempt, the attempt that made the sdk its call is on
  stops,         \* calls of stop() by the end button that have not settled
  transcript,    \* the messages shown
  report,        \* reportState
  evaluation,    \* the channel of the evaluation held, 0 when null
  loads,         \* channels whose report is being fetched
  passcode,      \* manualSecret, by what the backend makes of it
  reported,      \* history: what the client reported since the last start
  gaveUp,        \* history: whether the screen ever gave up on an attempt
  lastSaid       \* history: the last message since the last start

screen == <<queued, shown, effected>>
media == <<sdk, phase, instance, stops>>
reports == <<report, evaluation, loads, passcode>>
history == <<reported, gaveUp, lastSaid>>
vars == <<screen, becameActive, timer, media, transcript, reports, history>>

Attempts == 1 .. MaxAttempts
\* The id of a call's channel is its attempt's number; 0 when unknown.
Channels == 0 .. MaxAttempts
CallStates == {"idle", "connecting", "active", "ending", "completed", "error"}
Screens == [state : CallStates, channel : Channels]

Init ==
  /\ queued = [state |-> "idle", channel |-> 0]
  /\ shown = queued /\ effected = queued
  /\ becameActive = FALSE /\ timer = FALSE
  /\ sdk = 0 /\ stops = 0
  /\ phase = [a \in Attempts |-> "new"] /\ instance = [a \in Attempts |-> 0]
  /\ transcript = <<>>
  /\ report = "unavailable" /\ evaluation = 0 /\ loads = {} /\ passcode = "none"
  /\ reported = {} /\ gaveUp = FALSE /\ lastSaid = NoValue

\* setCallState, from outside a click.
SetCallState(state) ==
  queued' = [queued EXCEPT !.state = state] /\ UNCHANGED <<shown, effected>>

\* A click renders what it and all before it set, and runs the effects.
Clicked(next) == queued' = next /\ shown' = next /\ effected' = next

\* The screen shows an error, whatever the vendor's call does.
GiveUp == SetCallState("error") /\ gaveUp' = TRUE

\* Mutant: the reference is dropped and the timer left running.
ForgetConnectingTimer == timer' = timer

\* clearConnectingTimer.
ClearConnectingTimer == timer' = FALSE

\* client.stop(): the calls of the sdk in use are told to end.  Without an sdk
\* it does nothing.
Stopped ==
  [a \in Attempts |->
    IF instance[a] = sdk /\ phase[a] \in {"joining", "live"} THEN "leaving" ELSE phase[a]]

-----------------------------------------------------------------------------
(* The user's clicks.                                                      *)

\* Mutant: only the earlier attempt's timer is cleared.
ClearOnly == timer' = FALSE

\* The timer of an earlier attempt is cleared and a new one armed.
ArmConnectingTimer == timer' = TRUE

\* Mutant: a call that was active once counts for the next.
KeepActiveMark == UNCHANGED becameActive

ResetActiveMark == becameActive' = FALSE

\* startCall up to the wait for client.start(), which has to load the sdk unless
\* an earlier attempt has.
StartCall(a) ==
  /\ phase[a] = "new" /\ \A b \in 1 .. a - 1 : phase[b] # "new"
  /\ shown.state \in {"idle", "completed", "error"} /\ effected = shown
  /\ Clicked([state |-> "connecting", channel |-> 0])
  /\ transcript' = <<>>
  /\ ResetActiveMark
  /\ ArmConnectingTimer
  /\ phase' = [phase EXCEPT ![a] = IF sdk = 0 THEN "loading" ELSE "joining"]
  /\ instance' = [instance EXCEPT ![a] = sdk]
  /\ reported' = {} /\ lastSaid' = NoValue
  /\ UNCHANGED <<sdk, stops, reports, gaveUp>>

\* endCall, which leaves the screen "ending" until the client reports the end.
EndCall ==
  /\ shown.state = "active" /\ effected = shown
  /\ Clicked([queued EXCEPT !.state = "ending"])
  /\ phase' = Stopped
  /\ stops' = stops + 1
  /\ UNCHANGED <<becameActive, timer, sdk, instance, transcript, reports, history>>

-----------------------------------------------------------------------------
(* What comes back: promises, the timer and the vendor's events.           *)

\* The import ended.  Each attempt that waited for it makes an sdk of its own.
SdkLoads(a) ==
  /\ phase[a] = "loading"
  /\ phase' = [phase EXCEPT ![a] = "joining"]
  /\ instance' = [instance EXCEPT ![a] = a]
  /\ sdk' = a
  /\ UNCHANGED <<screen, becameActive, timer, stops, transcript, reports, history>>

\* The catch of startCall, which clears whatever timer is armed by now.
StartRejects(a) ==
  /\ phase[a] \in {"loading", "joining"}
  /\ phase' = [phase EXCEPT ![a] = "over"]
  /\ ClearConnectingTimer
  /\ GiveUp
  /\ UNCHANGED <<becameActive, sdk, instance, stops, transcript, reports, reported, lastSaid>>

StopResolves ==
  /\ stops > 0 /\ stops' = stops - 1
  /\ UNCHANGED <<screen, becameActive, timer, sdk, phase, instance, transcript, reports, history>>

\* The catch of endCall, which leaves the timer alone.
StopRejects ==
  /\ stops > 0 /\ stops' = stops - 1
  /\ GiveUp
  /\ UNCHANGED <<becameActive, timer, sdk, phase, instance, transcript, reports, reported, lastSaid>>

\* The connecting timer fires while the attempt is still connecting.
ConnectingTimesOut ==
  /\ timer /\ effected.state = "connecting"
  /\ timer' = FALSE
  /\ GiveUp
  /\ phase' = Stopped
  /\ UNCHANGED <<becameActive, sdk, instance, stops, transcript, reports, reported, lastSaid>>

\* It fires after the screen left "connecting" by a rejected stop().
TimeoutComesLate ==
  /\ timer /\ effected.state # "connecting"
  /\ timer' = FALSE
  /\ UNCHANGED <<screen, becameActive, media, transcript, reports, history>>

\* Mutant: the start of a first connection is not listened to.
ListensOnceActive == effected.state = "active"

ListensToStart == effected.state \in {"connecting", "active"}

\* call-start, ignored once the screen has given up or the user has ended.  A
\* VoiceMediaClient may name the call's channel with it (types.ts:8); the vendor's
\* client never does (create-vapi-client.ts:24), so with it the channel is 0 and
\* no report is loaded.
CallStarts(a, channel) ==
  /\ phase[a] = "joining"
  /\ phase' = [phase EXCEPT ![a] = "live"]
  /\ reported' = reported \union {"start"}
  /\ IF ListensToStart
       THEN /\ ClearConnectingTimer
            /\ becameActive' = TRUE
            /\ queued' = [state |-> "active", channel |-> channel]
       ELSE UNCHANGED <<timer, becameActive, queued>>
  /\ UNCHANGED <<shown, effected, sdk, instance, stops, transcript, reports, gaveUp, lastSaid>>

\* call-end.
CallEnds(a) ==
  /\ phase[a] \in {"joining", "live", "leaving"}
  /\ phase' = [phase EXCEPT ![a] = "over"]
  /\ reported' = reported \union {"end"}
  /\ ClearConnectingTimer
  /\ IF becameActive THEN SetCallState("completed") /\ UNCHANGED gaveUp ELSE GiveUp
  /\ UNCHANGED <<becameActive, sdk, instance, stops, transcript, reports, lastSaid>>

\* An error event, after which the vendor's call may be over or go on.
MediaErrs(a) ==
  /\ phase[a] \in {"joining", "live", "leaving"}
  /\ \E after \in {phase[a], "over"} : phase' = [phase EXCEPT ![a] = after]
  /\ ClearConnectingTimer
  /\ GiveUp
  /\ UNCHANGED <<becameActive, sdk, instance, stops, transcript, reports, reported, lastSaid>>

\* Mutant: the first messages are kept instead of the last.
FirstMessages(messages) ==
  IF Len(messages) <= MaxTranscriptMessages THEN messages
  ELSE SubSeq(messages, 1, MaxTranscriptMessages)

\* slice(-MAX_TRANSCRIPT_MESSAGES).
LastMessages(messages) ==
  IF Len(messages) <= MaxTranscriptMessages THEN messages
  ELSE SubSeq(messages, Len(messages) - MaxTranscriptMessages + 1, Len(messages))

\* A transcript message of any call, shown once while it is on the screen.
Says(a, m) ==
  /\ phase[a] \in {"live", "leaving"}
  /\ transcript' = IF Contains(transcript, m) THEN transcript
                   ELSE LastMessages(Append(transcript, m))
  /\ lastSaid' = m
  /\ UNCHANGED <<screen, becameActive, timer, media, reports, reported, gaveUp>>

-----------------------------------------------------------------------------
(* Rendering, effects and the report.                                      *)

Render ==
  /\ shown # queued /\ effected = shown
  /\ shown' = queued
  /\ UNCHANGED <<queued, effected, becameActive, timer, media, transcript, reports, history>>

\* loadReport, up to its first wait.
LoadReport(channel, secret) ==
  IF channel = 0 THEN
    report' = "unavailable" /\ evaluation' = 0 /\ UNCHANGED loads
  ELSE IF secret = "none" THEN
    report' = "needs_passcode" /\ evaluation' = 0 /\ UNCHANGED loads
  ELSE
    report' = "loading" /\ loads' = loads \union {channel} /\ UNCHANGED evaluation

\* Mutant: the report is fetched as soon as the channel is known.
ReportDueWhenNamed == shown.state \in {"active", "completed"}

\* The report effect returns early unless the call is completed.
ReportDue == shown.state = "completed"

\* callState is copied to its reference and the report effect runs.
RunEffects ==
  /\ effected # shown
  /\ effected' = shown
  /\ IF ReportDue THEN LoadReport(shown.channel, passcode)
     ELSE UNCHANGED <<report, evaluation, loads>>
  /\ UNCHANGED <<queued, shown, becameActive, timer, media, transcript, passcode, history>>

\* onUnlock, with the demo's passcode or another.  The form is shown only while
\* no passcode was ever entered; an empty one leaves things as they are.
Unlock(entered) ==
  /\ shown.state = "completed" /\ report = "needs_passcode" /\ effected = shown
  /\ passcode' = entered
  /\ LoadReport(shown.channel, entered)
  /\ UNCHANGED <<screen, becameActive, timer, media, transcript, history>>

\* fetchSessionReportByChannelId returns the report of its channel, scored or
\* not, whatever the screen shows by now.
ReportArrives(channel, scored) ==
  /\ channel \in loads /\ passcode = "right"
  /\ loads' = loads \ {channel}
  /\ report' = "loaded"
  /\ evaluation' = IF scored THEN channel ELSE 0
  /\ UNCHANGED <<screen, becameActive, timer, media, transcript, passcode, history>>

\* Either of its two requests fails, or the list is empty.
ReportFails(channel) ==
  /\ channel \in loads
  /\ loads' = loads \ {channel}
  /\ report' = "unavailable" /\ evaluation' = 0
  /\ UNCHANGED <<screen, becameActive, timer, media, transcript, passcode, history>>

Next ==
  \/ \E a \in Attempts :
       \/ StartCall(a) \/ SdkLoads(a) \/ StartRejects(a)
       \/ \E channel \in {0, a} : CallStarts(a, channel)
       \/ CallEnds(a) \/ MediaErrs(a)
       \/ \E m \in Messages : Says(a, m)
  \/ EndCall \/ StopResolves \/ StopRejects
  \/ ConnectingTimesOut \/ TimeoutComesLate
  \/ Render \/ RunEffects
  \/ \E entered \in {"wrong", "right"} : Unlock(entered)
  \/ \E channel \in loads : ReportFails(channel) \/ \E scored \in BOOLEAN : ReportArrives(channel, scored)

\* The browser renders, runs effects and fires timers; the vendor, the backend
\* and the user owe nothing.
Fairness == WF_vars(Render) /\ WF_vars(RunEffects) /\ WF_vars(ConnectingTimesOut)

Spec == Init /\ [][Next]_vars /\ Fairness

-----------------------------------------------------------------------------
(* Properties.                                                             *)

\* The types of the variables.
TypeOK ==
  /\ queued \in Screens /\ shown \in Screens /\ effected \in Screens
  /\ becameActive \in BOOLEAN /\ timer \in BOOLEAN
  /\ sdk \in Channels /\ instance \in [Attempts -> Channels] /\ stops \in Nat
  /\ phase \in [Attempts -> {"new", "loading", "joining", "live", "leaving", "over"}]
  /\ transcript \in Seq(Messages)
  /\ report \in {"unavailable", "needs_passcode", "loading", "loaded"}
  /\ evaluation \in Channels /\ loads \subseteq Attempts
  /\ passcode \in {"none", "wrong", "right"}
  /\ reported \subseteq {"start", "end"} /\ gaveUp \in BOOLEAN
  /\ lastSaid \in Messages \union {NoValue}

\* A call is shown as completed only after the client reported, since the user
\* started it, that a call began and that one ended: neither the end button nor
\* an attempt that failed to connect completes a conversation.
CompletedOnlyAfterTheEnd == queued.state = "completed" => {"start", "end"} \subseteq reported

\* Until something first goes wrong, the screen follows the call: one that is
\* being connected is shown as such, and a live one with its end button or as
\* being ended, however clicks, events and renders interleave.
LiveCallHasAnEnd ==
  ~gaveUp => \A a \in Attempts :
    /\ phase[a] \in {"loading", "joining"} => queued.state = "connecting"
    /\ phase[a] = "live" => queued.state \in {"active", "ending"}

\* The connecting timer of no attempt, this or an earlier one, is left to fire
\* into a call that has started.
NoTimerInACall == queued.state \in {"active", "ending", "completed"} => ~timer

\* The transcript holds no message twice and no more than its limit, and the last
\* one that was said is among those shown.
TranscriptIsRecent ==
  /\ Len(transcript) <= MaxTranscriptMessages
  /\ Cardinality(ToSet(transcript)) = Len(transcript)
  /\ lastSaid # NoValue => Contains(transcript, lastSaid)

\* Until something first goes wrong, only calls that are over have their report
\* fetched and their evaluation shown.
EvaluationOfAnEndedCall ==
  ~gaveUp => \A a \in loads \union ({evaluation} \ {0}) : phase[a] = "over"

\* The user does not stay on "connecting": a client that never reports anything
\* is given up on.
ConnectingEnds == shown.state = "connecting" ~> shown.state # "connecting"

\* Every set state has been rendered and its effects have run.
Settled == shown = queued /\ effected = shown

\* Once the client has reported the end of a call it had started, and nothing
\* went wrong, the screen comes to show it as completed.
EndedCallIsCompleted ==
  Settled /\ ~gaveUp /\ reported = {"start", "end"} => shown.state = "completed"

\* A live call is never behind a screen without an end button.
LiveCallIsShown ==
  Settled => \A a \in Attempts : phase[a] = "live" => shown.state \in {"active", "ending"}

\* The evaluation shown with a completed call is that call's.
EvaluationIsOfThisCall ==
  Settled /\ ~gaveUp /\ shown.state = "completed" /\ report = "loaded"
    => evaluation \in {0, shown.channel}
=============================================================================
