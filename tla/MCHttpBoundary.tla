-------------------------- MODULE MCHttpBoundary --------------------------
(* An instance of HttpBoundary for TLC: two secrets, so that a deployment   *)
(* may use one for two purposes.                                            *)
EXTENDS HttpBoundary

Symmetry == Permutations(Secrets)

MCKeys == {"inbound", "history", "demo"} \X Optional

\* Of hits in the order they came, what is left after the expired ones is what
\* the filter of allow keeps, whatever the window (inbound.ts:43).
ASSUME KeptIsAFilter ==
  \A times \in BoundedSeq(0 .. 4, 4) : \A t \in 4 .. 8, window \in 1 .. 4 :
    (\A i, j \in DOMAIN times : i < j => times[i] <= times[j])
      => AfterExpired(times, {i \in DOMAIN times : t - times[i] >= window})
           = SelectSeq(times, LAMBDA ts : t - ts < window)
===========================================================================
