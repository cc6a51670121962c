--------------------------- MODULE SlidingWindow ---------------------------
(***************************************************************************)
(* What a rate limit promises, said without the list of recent hits the    *)
(* code keeps: a key's request is admitted unless MaxHits of its requests  *)
(* were admitted within the last WindowMs, and only then refused.          *)
(* InboundRateLimiter implements it.                                       *)
(***************************************************************************)
EXTENDS Integers, Sequences

CONSTANTS Keys, MaxHits, WindowMs, LastTime, NoValue

VARIABLES
  now,       \* milliseconds
  admitted,  \* per key, when each of its admitted requests came
  verdict    \* the last request's key and answer

windowVars == <<now, admitted, verdict>>

\* The request admitted MaxHits requests ago is still in the window.
Full(k) ==
  /\ Len(admitted[k]) >= MaxHits
  /\ now - admitted[k][Len(admitted[k]) - MaxHits + 1] < WindowMs

Init ==
  /\ now = 0
  /\ admitted = [k \in Keys |-> <<>>]
  /\ verdict = NoValue

Admit(k) ==
  /\ ~Full(k)
  /\ admitted' = [admitted EXCEPT ![k] = Append(@, now)]
  /\ verdict' = [key |-> k, allowed |-> TRUE]
  /\ UNCHANGED now

Refuse(k) ==
  /\ Full(k)
  /\ verdict' = [key |-> k, allowed |-> FALSE]
  /\ UNCHANGED <<now, admitted>>

ClockAdvances ==
  /\ now < LastTime
  /\ now' = now + 1
  /\ verdict' = NoValue
  /\ UNCHANGED admitted

Next == ClockAdvances \/ \E k \in Keys : Admit(k) \/ Refuse(k)

Spec == Init /\ [][Next]_windowVars

-----------------------------------------------------------------------------
(* What follows from the promise.                                          *)

TimesType == now \in Nat /\ admitted \in [Keys -> Seq(Nat)]

\* The times of a key are in order and not in the future.
InOrder ==
  \A k \in Keys : \A i \in 1 .. Len(admitted[k]) :
    /\ admitted[k][i] <= now
    /\ \A j \in 1 .. i : admitted[k][j] <= admitted[k][i]

\* No window of WindowMs ever sees more than MaxHits of a key's requests
\* admitted: the request MaxHits after another comes at least WindowMs later.
NeverOverLimit ==
  \A k \in Keys : \A i \in 1 .. Len(admitted[k]) - MaxHits :
    admitted[k][i + MaxHits] - admitted[k][i] >= WindowMs

WindowInv == TimesType /\ InOrder /\ NeverOverLimit
=============================================================================
