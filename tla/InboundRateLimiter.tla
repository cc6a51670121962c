------------------------- MODULE InboundRateLimiter -------------------------
(***************************************************************************)
(* InboundRateLimiter (src/src/adapters/voice/inbound.ts): the sliding     *)
(* window in front of the voice, tools, session history and demo routes.   *)
(* The routes of one limiter share its keys; allow is synchronous, so each *)
(* call is one action, at whatever millisecond the clock shows.            *)
(*                                                                         *)
(* admitted, which the code does not keep, is the whole history of admitted*)
(* requests: what the pruned hits must agree with.                         *)
(***************************************************************************)
EXTENDS Integers, SequencesExt

CONSTANTS
  Keys,      \* hashes of secrets and tokens
  MaxHits,   \* this.max
  WindowMs,  \* this.windowMs
  LastTime,  \* bound on the clock
  NoValue

ASSUME LimitsAssumption == MaxHits \in Nat \ {0} /\ WindowMs \in Nat \ {0}

VARIABLES
  hits,      \* this.hits
  now,       \* this.now()
  admitted,  \* per key, when its admitted requests came
  verdict    \* the last call's key and answer

limiterVars == <<hits, now, admitted, verdict>>

LimiterInit ==
  /\ hits = [k \in Keys |-> <<>>]
  /\ now = 0
  /\ admitted = [k \in Keys |-> <<>>]
  /\ verdict = NoValue

\* The hits of a key are in the order they came, so the expired ones, which the
\* filter of allow drops, are the first (KeptIsAFilter of MCHttpBoundary).
AfterExpired(times, expired) == SubSeq(times, Cardinality(expired) + 1, Len(times))

\* Mutant: a hit counts for a millisecond more.
KeptOneLonger(times, t) ==
  AfterExpired(times, {i \in DOMAIN times : t - times[i] > WindowMs})

Kept(times, t) ==
  AfterExpired(times, {i \in DOMAIN times : t - times[i] >= WindowMs})

Admit(k) ==
  /\ Len(Kept(hits[k], now)) < MaxHits
  /\ hits' = [hits EXCEPT ![k] = Append(Kept(@, now), now)]
  /\ admitted' = [admitted EXCEPT ![k] = Append(@, now)]
  /\ verdict' = [key |-> k, allowed |-> TRUE]
  /\ UNCHANGED now

\* The pruned hits are stored, and a refused request is not one of them.
Refuse(k) ==
  /\ Len(Kept(hits[k], now)) >= MaxHits
  /\ hits' = [hits EXCEPT ![k] = Kept(@, now)]
  /\ verdict' = [key |-> k, allowed |-> FALSE]
  /\ UNCHANGED <<now, admitted>>

\* Time passes between calls, one millisecond or many.
ClockAdvances ==
  /\ now < LastTime
  /\ now' = now + 1
  /\ verdict' = NoValue
  /\ UNCHANGED <<hits, admitted>>

\* The clock and the calls of allow; HttpBoundary makes the latter.
LimiterNext == ClockAdvances \/ \E k \in Keys : Admit(k) \/ Refuse(k)

-----------------------------------------------------------------------------
(* Properties.                                                             *)

Window == INSTANCE SlidingWindow

\* The limiter keeps the promise of a sliding window over the whole history of
\* admitted requests, although it forgets all but the hits of a key's last call:
\* nobody exceeds the limit, and neither refused requests, nor expired ones, nor
\* those of other keys use it up.
ImplementsSlidingWindow == Window!Spec
=============================================================================
