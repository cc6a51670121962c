------------------------ MODULE HttpBoundary_proofs ------------------------
(***************************************************************************)
(* Theorems about the checks of the routes, for any secrets, any           *)
(* configuration the process accepts, any limits and any requests.         *)
(*                                                                         *)
(* The limiter implements SlidingWindow because of LimiterInv: the hits it *)
(* keeps of a key are the last of the key's admitted requests, and those   *)
(* before them have expired, for good, since the clock only advances.      *)
(***************************************************************************)
EXTENDS HttpBoundary, FiniteSetTheorems, TLAPS

Harmless == {"list channel", "report"}

\* The header of an operator is not the public token, whatever secrets the
\* deployment set: the token would not be distinct, and no role would be given.
LEMMA PublicIsNoOperator ==
  ASSUME NEW operatorHeader, NEW tokenHeader,
         HistoryRole(operatorHeader, tokenHeader) = "operator"
  PROVE  ~({operatorHeader, tokenHeader} \subseteq {config.demoPublicToken, NoValue})
  BY DEF HistoryRole, PublicTokenIsDistinct

\* What the list of sessions hands over on the public token alone is one channel's.
LEMMA GetSessionsIsPublic ==
  ASSUME NEW operatorHeader, NEW tokenHeader, NEW scoped \in BOOLEAN,
         GetSessions(operatorHeader, tokenHeader, scoped), last'.public
  PROVE  last'.asked \subseteq Harmless
<1> DEFINE request == [route |-> "sessions", headers |-> {operatorHeader, tokenHeader}]
           role == HistoryRole(operatorHeader, tokenHeader)
           asked == IF scoped THEN {"list channel"} ELSE {"list all"}
           laterCode == IF role = "public" /\ ~scoped THEN "forbidden" ELSE "ok"
           key == HistoryKey(operatorHeader, tokenHeader)
<1>1. \/ Refused(request, role)
      \/ role \in {"operator", "public"} /\ Limited(request, key, "rate_limited", laterCode, asked)
  BY DEF GetSessions
<1>2. \/ last'.asked = {}
      \/ /\ role \in {"operator", "public"} /\ laterCode = "ok"
         /\ last'.asked = asked
         /\ request.headers \subseteq {config.demoPublicToken, NoValue}
  <2>1. CASE Refused(request, role)
    BY <2>1 DEF Refused, Answer
  <2>2. CASE role \in {"operator", "public"} /\ Limited(request, key, "rate_limited", laterCode, asked)
    <3>1. \/ last' = Answer(request, Status("rate_limited"), {})
          \/ last' = Answer(request, Status(laterCode), {})
          \/ last' = Answer(request, 200, asked) /\ laterCode = "ok"
      BY <2>2 DEF Limited
    <3> HIDE DEF request, role, asked, laterCode, key
    <3>2. \A status, what :
            /\ Answer(request, status, what).asked = what
            /\ Answer(request, status, what).public =
                 (request.headers \subseteq {config.demoPublicToken, NoValue})
      BY Zenon DEF Answer
    <3>3. CASE last' = Answer(request, 200, asked) /\ laterCode = "ok"
      <4>1. Answer(request, 200, asked).asked = asked /\ Answer(request, 200, asked).public =
              (request.headers \subseteq {config.demoPublicToken, NoValue})
        BY <3>2
      <4>2. Answer(request, 200, asked).public
        BY <3>3
      <4>3. request.headers \subseteq {config.demoPublicToken, NoValue}
        BY <4>1, <4>2, Zenon
      <4> QED
        BY <2>2, <3>3, <4>1, <4>3
    <3>4. CASE last' = Answer(request, Status("rate_limited"), {})
      BY <3>2, <3>4
    <3>5. CASE last' = Answer(request, Status(laterCode), {})
      BY <3>2, <3>5
    <3> QED
      BY <3>1, <3>3, <3>4, <3>5
  <2> QED
    BY <1>1, <2>1, <2>2
<1>3. role # "operator" \/ last'.asked = {}
  BY <1>2, PublicIsNoOperator
<1>4. role = "public" /\ laterCode = "ok" => asked = {"list channel"}
  OBVIOUS
<1> QED
  BY <1>2, <1>3, <1>4 DEF Harmless

\* What a session's report is read for on the public token alone is no write.
LEMMA GetSessionIsPublic ==
  ASSUME NEW operatorHeader, NEW tokenHeader, NEW recompute \in BOOLEAN,
         GetSession(operatorHeader, tokenHeader, recompute), last'.public
  PROVE  last'.asked \subseteq Harmless
<1> DEFINE request == [route |-> "session", headers |-> {operatorHeader, tokenHeader}]
           role == HistoryRole(operatorHeader, tokenHeader)
           asked == {"report"} \union (IF recompute THEN {"recompute"} ELSE {})
                               \union (IF role = "operator" THEN {"write"} ELSE {})
           laterCode == IF recompute /\ role # "operator" THEN "forbidden" ELSE "ok"
           key == HistoryKey(operatorHeader, tokenHeader)
<1>1. \/ Refused(request, role)
      \/ role \in {"operator", "public"} /\ Limited(request, key, "rate_limited", laterCode, asked)
  BY DEF GetSession
<1>2. \/ last'.asked = {}
      \/ /\ role \in {"operator", "public"} /\ laterCode = "ok"
         /\ last'.asked = asked
         /\ request.headers \subseteq {config.demoPublicToken, NoValue}
  <2>1. CASE Refused(request, role)
    BY <2>1 DEF Refused, Answer
  <2>2. CASE role \in {"operator", "public"} /\ Limited(request, key, "rate_limited", laterCode, asked)
    <3>1. \/ last' = Answer(request, Status("rate_limited"), {})
          \/ last' = Answer(request, Status(laterCode), {})
          \/ last' = Answer(request, 200, asked) /\ laterCode = "ok"
      BY <2>2 DEF Limited
    <3> HIDE DEF request, role, asked, laterCode, key
    <3>2. \A status, what :
            /\ Answer(request, status, what).asked = what
            /\ Answer(request, status, what).public =
                 (request.headers \subseteq {config.demoPublicToken, NoValue})
      BY Zenon DEF Answer
    <3>3. CASE last' = Answer(request, 200, asked) /\ laterCode = "ok"
      <4>1. Answer(request, 200, asked).asked = asked /\ Answer(request, 200, asked).public =
              (request.headers \subseteq {config.demoPublicToken, NoValue})
        BY <3>2
      <4>2. Answer(request, 200, asked).public
        BY <3>3
      <4>3. request.headers \subseteq {config.demoPublicToken, NoValue}
        BY <4>1, <4>2, Zenon
      <4> QED
        BY <2>2, <3>3, <4>1, <4>3
    <3>4. CASE last' = Answer(request, Status("rate_limited"), {})
      BY <3>2, <3>4
    <3>5. CASE last' = Answer(request, Status(laterCode), {})
      BY <3>2, <3>5
    <3> QED
      BY <3>1, <3>3, <3>4, <3>5
  <2> QED
    BY <1>1, <2>1, <2>2
<1>3. role # "operator" \/ last'.asked = {}
  BY <1>2, PublicIsNoOperator
<1>4. role = "public" /\ laterCode = "ok" => asked = {"report"}
  OBVIOUS
<1> QED
  BY <1>2, <1>3, <1>4 DEF Harmless

\* The other routes are no reads of the history.
LEMMA OtherRoutes ==
  ASSUME NEW secret, NEW bodyCode,
         \/ PostInbound(secret, bodyCode) \/ PostTools(secret, bodyCode)
         \/ PostOrchestrate(secret, bodyCode)
  PROVE  last'.route \in {"inbound", "tools", "orchestrate"}
<1>1. CASE PostInbound(secret, bodyCode)
  BY <1>1 DEF PostInbound, Refused, Limited, Answer
<1>2. CASE PostTools(secret, bodyCode)
  BY <1>2 DEF PostTools, Refused, Limited, Answer
<1>3. CASE PostOrchestrate(secret, bodyCode)
  BY <1>3 DEF PostOrchestrate, Refused, Limited, Answer
<1> QED
  BY <1>1, <1>2, <1>3

\* Whatever secrets a deployment sets, leaves out or uses twice, the public token
\* alone reads and never writes (authenticateSessionHistory,
\* assertOperatorRecompute).
THEOREM PublicOnlyReads == Spec => []PublicReadsOnly
<1>1. Init => PublicReadsOnly
  BY DEF Init, PublicReadsOnly
<1>2. PublicReadsOnly /\ [Next]_vars => PublicReadsOnly'
  <2> SUFFICES ASSUME PublicReadsOnly, [Next]_vars,
                      last'.route \in {"sessions", "session"}, last'.public, last' # NoValue
               PROVE  last'.asked \subseteq Harmless
    BY DEF PublicReadsOnly, Harmless
  <2>1. CASE UNCHANGED last
    BY <2>1 DEF PublicReadsOnly, Harmless
  <2>2. CASE \E operatorHeader, tokenHeader \in Optional, flag \in BOOLEAN :
               \/ GetSessions(operatorHeader, tokenHeader, flag)
               \/ GetSession(operatorHeader, tokenHeader, flag)
    BY <2>2, GetSessionsIsPublic, GetSessionIsPublic
  <2>3. CASE \E secret \in Optional :
               \/ \E bodyCode \in VoiceBodyCodes : PostInbound(secret, bodyCode)
               \/ \E bodyCode \in {"ok", "VOICE_PAYLOAD_INVALID"} : PostTools(secret, bodyCode)
               \/ \E bodyCode \in {"ok", "payload_invalid", "session_invalid"} :
                    PostOrchestrate(secret, bodyCode)
    BY <2>3, OtherRoutes
  <2> QED
    BY <2>1, <2>2, <2>3 DEF Next, Start, Tick, vars
<1> QED
  BY <1>1, <1>2, PTL DEF Spec

-----------------------------------------------------------------------------
(* The windows.                                                            *)

\* How a step that changes a window answers.
Counted ==
  /\ last'.status \notin {401, 503}
  /\ last'.route = "inbound" => last'.status \in {200, 429}

\* A request that takes a place in a window was let in, or found the window full.
LEMMA InboundCounts ==
  ASSUME NEW secret, NEW bodyCode, PostInbound(secret, bodyCode), hits' # hits
  PROVE  Counted
  BY DEF PostInbound, Refused, Limited, Answer, Status, limiterVars, Counted

\* The tools route: its limiter comes after the secret.
LEMMA ToolsCount ==
  ASSUME NEW secret, NEW bodyCode \in {"ok", "VOICE_PAYLOAD_INVALID"},
         PostTools(secret, bodyCode), hits' # hits
  PROVE  Counted
  BY DEF PostTools, Refused, Limited, Answer, Status, limiterVars, Counted

\* The demo route: the same.
LEMMA OrchestrateCounts ==
  ASSUME NEW secret, NEW bodyCode \in {"ok", "payload_invalid", "session_invalid"},
         PostOrchestrate(secret, bodyCode), hits' # hits
  PROVE  Counted
  BY DEF PostOrchestrate, Refused, Limited, Answer, Status, limiterVars, Counted

\* The reads of the history: the same, under the key of the role.
LEMMA ReadsCount ==
  ASSUME NEW operatorHeader, NEW tokenHeader, NEW flag \in BOOLEAN,
         \/ GetSessions(operatorHeader, tokenHeader, flag)
         \/ GetSession(operatorHeader, tokenHeader, flag),
         hits' # hits
  PROVE  Counted
<1> DEFINE role == HistoryRole(operatorHeader, tokenHeader)
           key == HistoryKey(operatorHeader, tokenHeader)
<1>1. \E request, asked : \E laterCode \in {"ok", "forbidden"} :
        /\ request.route \in {"sessions", "session"}
        /\ Limited(request, key, "rate_limited", laterCode, asked)
  <2>1. CASE GetSessions(operatorHeader, tokenHeader, flag)
    <3> DEFINE request == [route |-> "sessions", headers |-> {operatorHeader, tokenHeader}]
               asked == IF flag THEN {"list channel"} ELSE {"list all"}
               laterCode == IF role = "public" /\ ~flag THEN "forbidden" ELSE "ok"
    <3>1. Refused(request, role) \/ Limited(request, key, "rate_limited", laterCode, asked)
      BY <2>1 DEF GetSessions
    <3>2. ~Refused(request, role)
      BY DEF Refused, limiterVars
    <3>3. laterCode \in {"ok", "forbidden"} /\ request.route = "sessions"
      OBVIOUS
    <3> HIDE DEF request, asked, laterCode, role, key
    <3> QED
      BY <3>1, <3>2, <3>3
  <2>2. CASE GetSession(operatorHeader, tokenHeader, flag)
    <3> DEFINE request == [route |-> "session", headers |-> {operatorHeader, tokenHeader}]
               asked == {"report"} \union (IF flag THEN {"recompute"} ELSE {})
                                   \union (IF role = "operator" THEN {"write"} ELSE {})
               laterCode == IF flag /\ role # "operator" THEN "forbidden" ELSE "ok"
    <3>1. Refused(request, role) \/ Limited(request, key, "rate_limited", laterCode, asked)
      BY <2>2 DEF GetSession
    <3>2. ~Refused(request, role)
      BY DEF Refused, limiterVars
    <3>3. laterCode \in {"ok", "forbidden"} /\ request.route = "session"
      OBVIOUS
    <3> HIDE DEF request, asked, laterCode, role, key
    <3> QED
      BY <3>1, <3>2, <3>3
  <2> QED
    BY <2>1, <2>2
<1> HIDE DEF role, key
<1> QED
  BY <1>1 DEF Limited, Answer, Status, Counted

\* A request refused for its credentials, and a voice event refused for its body
\* or its age, leave every window as it was, whatever the limits.
THEOREM RefusalsAreFree == Spec => RefusalsLeaveTheWindow
<1>1. [Next]_vars => (hits' # hits => Counted)
  <2> SUFFICES ASSUME [Next]_vars, hits' # hits PROVE Counted
    OBVIOUS
  <2>1. CASE \E operatorHeader, tokenHeader \in Optional, flag \in BOOLEAN :
               \/ GetSessions(operatorHeader, tokenHeader, flag)
               \/ GetSession(operatorHeader, tokenHeader, flag)
    BY <2>1, ReadsCount
  <2>2. CASE \E secret \in Optional :
               \/ \E bodyCode \in VoiceBodyCodes : PostInbound(secret, bodyCode)
               \/ \E bodyCode \in {"ok", "VOICE_PAYLOAD_INVALID"} : PostTools(secret, bodyCode)
               \/ \E bodyCode \in {"ok", "payload_invalid", "session_invalid"} :
                    PostOrchestrate(secret, bodyCode)
    BY <2>2, InboundCounts, ToolsCount, OrchestrateCounts
  <2>3. ~(\E env \in Environments : Start(env)) /\ ~Tick /\ ~UNCHANGED vars
    BY DEF Start, Tick, ClockAdvances, vars, limiterVars
  <2> QED
    BY <2>1, <2>2, <2>3 DEF Next
<1>2. [Next]_vars =>
        [hits' # hits => /\ last'.status \notin {401, 503}
                         /\ last'.route = "inbound" => last'.status \in {200, 429}]_vars
  BY <1>1 DEF Counted
<1> QED
  BY <1>2, PTL DEF Spec, RefusalsLeaveTheWindow

-----------------------------------------------------------------------------
(* The limiter and the window.                                             *)

\* The numbers up to n are n.
LEMMA CountTo ==
  ASSUME NEW n \in Nat
  PROVE  IsFiniteSet(1 .. n) /\ Cardinality(1 .. n) = n
<1>1. 1 \in Int /\ n \in Int
  OBVIOUS
<1>2. /\ IsFiniteSet(1 .. n)
      /\ Cardinality(1 .. n) = IF 1 > n THEN 0 ELSE n - 1 + 1
  BY <1>1, FS_Interval
<1> QED
  BY <1>2

\* A set of places that holds all the places before each of its own is the first
\* ones, as many as there are of them.
LEMMA InitialPlaces ==
  ASSUME NEW n \in Nat, NEW S \in SUBSET (1 .. n),
         \A i \in S : 1 .. i \subseteq S
  PROVE  Cardinality(S) \in 0 .. n /\ S = 1 .. Cardinality(S)
<1>1. IsFiniteSet(S) /\ Cardinality(S) <= Cardinality(1 .. n)
  BY CountTo, FS_Subset
<1>2. Cardinality(S) \in Nat /\ Cardinality(S) <= n
  BY <1>1, CountTo, FS_CardinalityType
<1>3. ASSUME NEW i \in S PROVE i \in 1 .. Cardinality(S)
  <2>1. i \in Nat /\ 1 <= i
    OBVIOUS
  <2>2. Cardinality(1 .. i) = i
    BY <2>1, CountTo
  <2>3. Cardinality(1 .. i) <= Cardinality(S)
    BY <1>1, FS_Subset
  <2> QED
    BY <1>2, <2>1, <2>2, <2>3
<1>4. S \subseteq 1 .. Cardinality(S)
  BY <1>3
<1>5. IsFiniteSet(1 .. Cardinality(S)) /\ Cardinality(1 .. Cardinality(S)) = Cardinality(S)
  BY <1>2, CountTo
<1>6. S = 1 .. Cardinality(S)
  BY <1>4, <1>5, FS_Subset
<1> QED
  BY <1>2, <1>6

\* Expired hits of a key are its first, as many as there are of them.
LEMMA ExpiredComeFirst ==
  ASSUME NEW times \in Seq(Nat), NEW t \in Nat,
         \A i \in 1 .. Len(times) : \A j \in 1 .. i : times[j] <= times[i]
  PROVE  LET expired == {i \in DOMAIN times : t - times[i] >= WindowMs} IN
         /\ Cardinality(expired) \in 0 .. Len(times)
         /\ expired = 1 .. Cardinality(expired)
<1> DEFINE expired == {i \in DOMAIN times : t - times[i] >= WindowMs}
<1>1. DOMAIN times = 1 .. Len(times) /\ Len(times) \in Nat
  OBVIOUS
<1>2. expired \in SUBSET (1 .. Len(times))
  BY <1>1
<1>3. ASSUME NEW i \in expired PROVE 1 .. i \subseteq expired
  <2>1. i \in 1 .. Len(times) /\ t - times[i] >= WindowMs
    BY <1>1
  <2>2. \A j \in 1 .. Len(times) : times[j] \in Nat
    OBVIOUS
  <2>3. ASSUME NEW j \in 1 .. i PROVE j \in 1 .. Len(times) /\ t - times[j] >= WindowMs
    BY <1>1, <2>1, <2>2, LimitsAssumption
  <2> QED
    BY <1>1, <2>3
<1> QED
  <2> HIDE DEF expired
  <2>1. \A i \in expired : 1 .. i \subseteq expired
    BY <1>3
  <2>2. Cardinality(expired) \in 0 .. Len(times) /\ expired = 1 .. Cardinality(expired)
    BY <1>1, <1>2, <2>1, InitialPlaces
  <2> QED
    BY <2>2 DEF expired

\* allow keeps the hits that still count, and no other.
LEMMA KeptFacts ==
  ASSUME NEW times \in Seq(Nat), NEW t \in Nat,
         \A i \in 1 .. Len(times) : \A j \in 1 .. i : times[j] <= times[i]
  PROVE  \E c \in 0 .. Len(times) :
           /\ Kept(times, t) \in Seq(Nat)
           /\ Len(Kept(times, t)) = Len(times) - c
           /\ \A i \in 1 .. Len(times) - c : Kept(times, t)[i] = times[c + i]
           /\ \A i \in 1 .. Len(times) : i <= c <=> t - times[i] >= WindowMs
<1> DEFINE expired == {i \in DOMAIN times : t - times[i] >= WindowMs}
           c == Cardinality(expired)
<1>1. c \in 0 .. Len(times) /\ expired = 1 .. c
  BY ExpiredComeFirst
<1>2. Kept(times, t) = SubSeq(times, c + 1, Len(times))
  BY DEF Kept, AfterExpired
<1>3. \A i \in 1 .. Len(times) : i <= c <=> t - times[i] >= WindowMs
  BY <1>1
<1> HIDE DEF c, expired
<1>4. /\ Kept(times, t) \in Seq(Nat)
      /\ Len(Kept(times, t)) = Len(times) - c
      /\ \A i \in 1 .. Len(times) - c : Kept(times, t)[i] = times[c + i]
  BY <1>1, <1>2
<1> QED
  BY <1>1, <1>3, <1>4

\* The hits kept of a key are the last of its admitted requests, those before
\* them are expired, and both are in the order they came, none of them in the
\* future.
HitsAgree(k) ==
  /\ hits[k] \in Seq(Nat) /\ admitted[k] \in Seq(Nat)
  /\ \A i \in 1 .. Len(admitted[k]) :
       /\ admitted[k][i] <= now
       /\ \A j \in 1 .. i : admitted[k][j] <= admitted[k][i]
  /\ Len(hits[k]) <= Len(admitted[k])
  /\ \A i \in 1 .. Len(hits[k]) :
       hits[k][i] = admitted[k][Len(admitted[k]) - Len(hits[k]) + i]
  /\ \A i \in 1 .. Len(admitted[k]) - Len(hits[k]) : now - admitted[k][i] >= WindowMs

LimiterInv ==
  /\ now \in Nat
  /\ DOMAIN hits = Keys /\ DOMAIN admitted = Keys
  /\ \A k \in Keys : HitsAgree(k)

\* The keys under which the routes count requests are keys of the limiters.
ConfigOK ==
  server = "up" => config.inboundSecret \in Optional /\ config.demoOrchestrateSecret \in Optional

BoundaryInv == LimiterInv /\ ConfigOK

\* What pruning a key's hits keeps: the admitted requests that are not expired.
LEMMA PrunedFacts ==
  ASSUME NEW k \in Keys, LimiterInv
  PROVE  LET kept == Kept(hits[k], now)
             gone == Len(admitted[k]) - Len(kept) IN
         /\ kept \in Seq(Nat) /\ Len(kept) <= Len(admitted[k])
         /\ \A i \in 1 .. Len(kept) : kept[i] = admitted[k][gone + i]
         /\ \A i \in 1 .. Len(admitted[k]) : i <= gone <=> now - admitted[k][i] >= WindowMs
<1> DEFINE kept == Kept(hits[k], now)
           times == hits[k]
           all == admitted[k]
           old == Len(all) - Len(times)
<1>1. /\ now \in Nat /\ times \in Seq(Nat) /\ all \in Seq(Nat) /\ Len(times) <= Len(all)
      /\ \A i \in 1 .. Len(all) : all[i] <= now /\ \A j \in 1 .. i : all[j] <= all[i]
      /\ \A i \in 1 .. Len(times) : times[i] = all[old + i]
      /\ \A i \in 1 .. old : now - all[i] >= WindowMs
  BY DEF LimiterInv, HitsAgree
<1> HIDE DEF times, all
<1>2. \A i \in 1 .. Len(times) : \A j \in 1 .. i : times[j] <= times[i]
  <2> SUFFICES ASSUME NEW i \in 1 .. Len(times), NEW j \in 1 .. i PROVE times[j] <= times[i]
    OBVIOUS
  <2>1. times[i] = all[old + i] /\ times[j] = all[old + j]
    BY <1>1
  <2>2. old + i \in 1 .. Len(all) /\ old + j \in 1 .. old + i
    BY <1>1
  <2> QED
    BY <1>1, <2>1, <2>2
<1>3. PICK c \in 0 .. Len(times) :
        /\ Kept(times, now) \in Seq(Nat)
        /\ Len(Kept(times, now)) = Len(times) - c
        /\ \A i \in 1 .. Len(times) - c : Kept(times, now)[i] = times[c + i]
        /\ \A i \in 1 .. Len(times) : i <= c <=> now - times[i] >= WindowMs
  BY <1>1, <1>2, KeptFacts
<1>4. kept = Kept(times, now)
  BY DEF times
<1> HIDE DEF kept
<1> DEFINE size == Len(kept)
<1>5. /\ size = Len(times) - c /\ size \in Nat
      /\ Len(times) \in Nat /\ Len(all) \in Nat /\ old \in Nat /\ c \in Nat
      /\ old = Len(all) - Len(times) /\ Len(all) - size = old + c
  <2>1. Len(times) \in Nat /\ Len(all) \in Nat
    BY <1>1
  <2>2. size = Len(times) - c
    BY <1>3, <1>4
  <2> HIDE DEF size
  <2> QED
    BY <1>1, <2>1, <2>2
<1> HIDE DEF size, old
<1>6. \A i \in 1 .. Len(kept) : kept[i] = all[old + c + i]
  <2> SUFFICES ASSUME NEW i \in 1 .. Len(kept) PROVE kept[i] = all[old + c + i]
    OBVIOUS
  <2>1. kept[i] = times[c + i] /\ c + i \in 1 .. Len(times)
    <3>1. i \in 1 .. Len(times) - c
      BY <1>5 DEF size
    <3> QED
      BY <1>3, <1>4, <1>5, <3>1
  <2>2. times[c + i] = all[old + (c + i)]
    BY <1>1, <2>1
  <2>3. old + (c + i) = old + c + i
    BY <1>5
  <2> QED
    BY <2>1, <2>2, <2>3
<1>7. \A i \in 1 .. Len(all) : i <= old + c <=> now - all[i] >= WindowMs
  <2> SUFFICES ASSUME NEW i \in 1 .. Len(all) PROVE i <= old + c <=> now - all[i] >= WindowMs
    OBVIOUS
  <2>1. CASE i <= old
    BY <1>1, <1>5, <2>1
  <2>2. CASE i > old
    <3>1. i - old \in 1 .. Len(times)
      BY <1>5, <2>2
    <3>2. times[i - old] = all[old + (i - old)]
      BY <1>1, <3>1
    <3>3. i - old <= c <=> now - times[i - old] >= WindowMs
      BY <1>3, <3>1
    <3>4. old + (i - old) = i
      BY <1>5
    <3>5. i - old <= c <=> i <= old + c
      BY <1>5
    <3> QED
      BY <3>2, <3>3, <3>4, <3>5
  <2> QED
    BY <1>5, <2>1, <2>2
<1>8. /\ kept \in Seq(Nat) /\ Len(kept) <= Len(all)
      /\ \A i \in 1 .. Len(kept) : kept[i] = all[Len(all) - Len(kept) + i]
      /\ \A i \in 1 .. Len(all) : i <= Len(all) - Len(kept) <=> now - all[i] >= WindowMs
  <2>1. kept \in Seq(Nat)
    BY <1>3, <1>4
  <2>2. Len(kept) <= Len(all) /\ Len(all) - Len(kept) = old + c
    BY <1>5 DEF size
  <2> QED
    BY <1>6, <1>7, <2>1, <2>2
<1> QED
  BY <1>8 DEF all, kept

\* A key has no place left for the limiter just when the window is full: nothing
\* but the pruned hits was admitted within it.
LEMMA FullMeansFull ==
  ASSUME NEW k \in Keys, LimiterInv
  PROVE  Len(Kept(hits[k], now)) >= MaxHits <=> Window!Full(k)
<1> DEFINE kept == Kept(hits[k], now)
           all == admitted[k]
<1>1. /\ kept \in Seq(Nat) /\ Len(kept) <= Len(all)
      /\ \A i \in 1 .. Len(all) : i <= Len(all) - Len(kept) <=> now - all[i] >= WindowMs
  BY PrunedFacts
<1>2. now \in Nat /\ all \in Seq(Nat)
  BY DEF LimiterInv, HitsAgree
<1>3. Window!Full(k) <=> Len(all) >= MaxHits /\ now - all[Len(all) - MaxHits + 1] < WindowMs
  BY DEF Window!Full
<1> HIDE DEF kept, all
<1>4. Len(kept) >= MaxHits <=> Len(all) >= MaxHits /\ now - all[Len(all) - MaxHits + 1] < WindowMs
  <2> DEFINE i == Len(all) - MaxHits + 1
  <2>0. Len(kept) \in Nat /\ Len(all) \in Nat
    BY <1>1, <1>2
  <2>1. CASE Len(all) >= MaxHits
    <3>1. i \in 1 .. Len(all) /\ all[i] \in Nat
      BY <1>2, <2>1, LimitsAssumption
    <3>2. i <= Len(all) - Len(kept) <=> Len(kept) < MaxHits
      BY <2>0, LimitsAssumption
    <3>3. i <= Len(all) - Len(kept) <=> now - all[i] >= WindowMs
      BY <1>1, <3>1
    <3> HIDE DEF i
    <3>4. now - all[i] >= WindowMs <=> ~(now - all[i] < WindowMs)
      BY <1>2, <3>1, LimitsAssumption
    <3>5. Len(kept) < MaxHits <=> ~(Len(kept) >= MaxHits)
      BY <2>0, LimitsAssumption
    <3> QED
      BY <2>1, <3>2, <3>3, <3>4, <3>5 DEF i
  <2>2. CASE Len(all) < MaxHits
    BY <1>1, <2>0, <2>2, LimitsAssumption
  <2> QED
    BY <2>0, <2>1, <2>2, LimitsAssumption
<1> QED
  BY <1>3, <1>4 DEF kept, all

\* An admitted request is the last hit and the last admitted request of its key.
LEMMA AdmitKeepsInv ==
  ASSUME NEW k \in Keys, LimiterInv, Admit(k)
  PROVE  LimiterInv'
<1> DEFINE kept == Kept(hits[k], now)
           all == admitted[k]
           gone == Len(all) - Len(kept)
<1>1. /\ now \in Nat /\ all \in Seq(Nat)
      /\ \A i \in 1 .. Len(all) : all[i] <= now /\ \A j \in 1 .. i : all[j] <= all[i]
  BY DEF LimiterInv, HitsAgree
<1>2. /\ kept \in Seq(Nat) /\ Len(kept) <= Len(all)
      /\ \A i \in 1 .. Len(kept) : kept[i] = all[gone + i]
      /\ \A i \in 1 .. Len(all) : i <= gone <=> now - all[i] >= WindowMs
  BY PrunedFacts
<1>3. /\ hits' = [hits EXCEPT ![k] = Append(kept, now)]
      /\ admitted' = [admitted EXCEPT ![k] = Append(all, now)]
      /\ now' = now
  BY DEF Admit
<1>4. DOMAIN hits = Keys /\ DOMAIN admitted = Keys
  BY DEF LimiterInv
<1>5. ASSUME NEW l \in Keys PROVE HitsAgree(l)'
  <2>1. CASE l # k
    <3>1. hits'[l] = hits[l] /\ admitted'[l] = admitted[l]
      BY <1>3, <1>4, <2>1
    <3>2. HitsAgree(l)
      BY DEF LimiterInv
    <3> QED
      BY <1>3, <3>1, <3>2 DEF HitsAgree
  <2>2. CASE l = k
    <3>1. hits'[l] = Append(kept, now) /\ admitted'[l] = Append(all, now)
      BY <1>3, <1>4, <2>2
    <3> HIDE DEF kept, all
    <3> DEFINE newHits == Append(kept, now)
               newAll == Append(all, now)
    <3>2. /\ newHits \in Seq(Nat) /\ Len(newHits) = Len(kept) + 1
          /\ \A i \in 1 .. Len(kept) : newHits[i] = kept[i]
          /\ newHits[Len(kept) + 1] = now
      BY <1>1, <1>2
    <3>3. /\ newAll \in Seq(Nat) /\ Len(newAll) = Len(all) + 1
          /\ \A i \in 1 .. Len(all) : newAll[i] = all[i]
          /\ newAll[Len(all) + 1] = now
      BY <1>1
    <3> HIDE DEF newHits, newAll
    <3>4. \A i \in 1 .. Len(newAll) :
            newAll[i] <= now /\ \A j \in 1 .. i : newAll[j] <= newAll[i]
      <4> SUFFICES ASSUME NEW i \in 1 .. Len(newAll), NEW j \in 1 .. i
                   PROVE  newAll[i] <= now /\ newAll[j] <= newAll[i]
        OBVIOUS
      <4>0. Len(all) \in Nat /\ i \in 1 .. Len(all) + 1
        BY <1>1, <3>3
      <4>1. CASE i <= Len(all)
        <5>1. i \in 1 .. Len(all) /\ j \in 1 .. Len(all)
          BY <4>0, <4>1
        <5>2. newAll[i] = all[i] /\ newAll[j] = all[j]
          BY <3>3, <5>1
        <5> QED
          BY <1>1, <5>1, <5>2
      <4>2. CASE i = Len(all) + 1 /\ j <= Len(all)
        BY <1>1, <3>3, <4>2
      <4>3. CASE i = Len(all) + 1 /\ j = i
        BY <1>1, <3>3, <4>3
      <4> QED
        BY <4>0, <4>1, <4>2, <4>3
    <3>5. \A i \in 1 .. Len(newHits) : newHits[i] = newAll[Len(newAll) - Len(newHits) + i]
      <4> SUFFICES ASSUME NEW i \in 1 .. Len(newHits)
                   PROVE  newHits[i] = newAll[Len(newAll) - Len(newHits) + i]
        OBVIOUS
      <4>1. Len(newAll) - Len(newHits) + i = gone + i
        BY <1>1, <1>2, <3>2, <3>3
      <4>2. CASE i <= Len(kept)
        <5>1. gone + i \in 1 .. Len(all)
          BY <1>1, <1>2, <4>2
        <5>2. newHits[i] = all[gone + i]
          BY <1>2, <3>2, <4>2
        <5> QED
          BY <3>3, <4>1, <5>1, <5>2
      <4>3. CASE i = Len(kept) + 1
        <5>1. gone + i = Len(all) + 1
          BY <1>1, <1>2, <4>3
        <5> QED
          BY <3>2, <3>3, <4>1, <4>3, <5>1
      <4> QED
        BY <1>2, <3>2, <4>2, <4>3
    <3>6. \A i \in 1 .. Len(newAll) - Len(newHits) : now - newAll[i] >= WindowMs
      <4> SUFFICES ASSUME NEW i \in 1 .. Len(newAll) - Len(newHits)
                   PROVE  now - newAll[i] >= WindowMs
        OBVIOUS
      <4>1. Len(all) \in Nat /\ Len(kept) \in Nat
        BY <1>1, <1>2
      <4>2. Len(newAll) = Len(all) + 1 /\ Len(newHits) = Len(kept) + 1
        BY <3>2, <3>3
      <4>3. i \in 1 .. gone
        BY <4>1, <4>2
      <4>4. i \in 1 .. Len(all) /\ i <= gone
        BY <1>2, <4>3, <4>1
      <4> QED
        BY <1>2, <3>3, <4>4
    <3>7. Len(newHits) <= Len(newAll)
      BY <1>1, <1>2, <3>2, <3>3
    <3> QED
      BY <1>3, <3>1, <3>2, <3>3, <3>4, <3>5, <3>6, <3>7 DEF HitsAgree, newHits, newAll
  <2> QED
    BY <2>1, <2>2
<1>6. DOMAIN hits' = Keys /\ DOMAIN admitted' = Keys
  BY <1>3, <1>4
<1> QED
  BY <1>1, <1>3, <1>5, <1>6 DEF LimiterInv

\* A refused request prunes the hits of its key and is none of them.
LEMMA RefuseKeepsInv ==
  ASSUME NEW k \in Keys, LimiterInv, Refuse(k)
  PROVE  LimiterInv'
<1> DEFINE kept == Kept(hits[k], now)
           all == admitted[k]
           gone == Len(all) - Len(kept)
<1>1. /\ now \in Nat /\ all \in Seq(Nat)
      /\ \A i \in 1 .. Len(all) : all[i] <= now /\ \A j \in 1 .. i : all[j] <= all[i]
  BY DEF LimiterInv, HitsAgree
<1>2. /\ kept \in Seq(Nat) /\ Len(kept) <= Len(all)
      /\ \A i \in 1 .. Len(kept) : kept[i] = all[gone + i]
      /\ \A i \in 1 .. Len(all) : i <= gone <=> now - all[i] >= WindowMs
  BY PrunedFacts
<1>3. /\ hits' = [hits EXCEPT ![k] = kept]
      /\ admitted' = admitted /\ now' = now
  BY DEF Refuse
<1>4. DOMAIN hits = Keys /\ DOMAIN admitted = Keys
  BY DEF LimiterInv
<1>5. ASSUME NEW l \in Keys PROVE HitsAgree(l)'
  <2>1. CASE l # k
    <3>1. hits'[l] = hits[l] /\ admitted'[l] = admitted[l]
      BY <1>3, <1>4, <2>1
    <3>2. HitsAgree(l)
      BY DEF LimiterInv
    <3> QED
      BY <1>3, <3>1, <3>2 DEF HitsAgree
  <2>2. CASE l = k
    <3>1. hits'[l] = kept /\ admitted'[l] = all
      BY <1>3, <1>4, <2>2
    <3> HIDE DEF kept, all
    <3>2. \A i \in 1 .. gone : now - all[i] >= WindowMs
      BY <1>1, <1>2
    <3> QED
      BY <1>1, <1>2, <1>3, <3>1, <3>2 DEF HitsAgree
  <2> QED
    BY <2>1, <2>2
<1>6. DOMAIN hits' = Keys /\ DOMAIN admitted' = Keys
  BY <1>3, <1>4
<1> QED
  BY <1>1, <1>3, <1>5, <1>6 DEF LimiterInv

\* Time only makes more hits expire.
LEMMA ClockKeepsInv ==
  ASSUME LimiterInv, ClockAdvances
  PROVE  LimiterInv'
<1>1. now \in Nat /\ now' = now + 1 /\ hits' = hits /\ admitted' = admitted
  BY DEF LimiterInv, ClockAdvances
<1>2. ASSUME NEW k \in Keys PROVE HitsAgree(k)'
  <2>1. HitsAgree(k)
    BY DEF LimiterInv
  <2> DEFINE all == admitted[k]
             old == Len(all) - Len(hits[k])
  <2>2. \A i \in 1 .. Len(all) : all[i] <= now' /\ \A j \in 1 .. i : all[j] <= all[i]
    <3> SUFFICES ASSUME NEW i \in 1 .. Len(all) PROVE all[i] <= now'
      BY <2>1 DEF HitsAgree
    <3>1. all[i] <= now /\ all[i] \in Nat
      BY <2>1 DEF HitsAgree
    <3> QED
      BY <1>1, <3>1
  <2>3. \A i \in 1 .. old : now' - all[i] >= WindowMs
    <3> SUFFICES ASSUME NEW i \in 1 .. old PROVE now' - all[i] >= WindowMs
      OBVIOUS
    <3>0. /\ all \in Seq(Nat) /\ hits[k] \in Seq(Nat) /\ Len(hits[k]) <= Len(all)
          /\ now - all[i] >= WindowMs
      BY <2>1 DEF HitsAgree
    <3>1. now - all[i] >= WindowMs /\ i \in 1 .. Len(all) /\ all \in Seq(Nat)
      <4> HIDE DEF all
      <4> QED
        BY <3>0
    <3>2. all[i] \in Nat
      BY <3>1
    <3> QED
      BY <1>1, <3>1, <3>2, LimitsAssumption
  <2> QED
    BY <1>1, <2>1, <2>2, <2>3 DEF HitsAgree
<1> QED
  BY <1>1, <1>2 DEF LimiterInv

\* The limiter starts as an empty window, with its hits agreeing.
LEMMA LimiterStarts ==
  LimiterInit => LimiterInv /\ Window!Init
  BY DEF LimiterInit, LimiterInv, HitsAgree, Window!Init

\* A step of the limiter is the step of the window of the same kind.
LEMMA LimiterSteps ==
  ASSUME LimiterInv, LimiterNext \/ UNCHANGED limiterVars
  PROVE  LimiterInv' /\ [Window!Next]_(Window!windowVars)
<1>1. CASE ClockAdvances
  BY <1>1, ClockKeepsInv DEF ClockAdvances, Window!ClockAdvances, Window!Next
<1>2. ASSUME NEW k \in Keys, Admit(k)
      PROVE  LimiterInv' /\ [Window!Next]_(Window!windowVars)
  <2>1. ~Window!Full(k)
    <3>1. Kept(hits[k], now) \in Seq(Nat)
      BY PrunedFacts
    <3>2. ~(Len(Kept(hits[k], now)) >= MaxHits)
      BY <1>2, <3>1, LimitsAssumption DEF Admit
    <3> QED
      BY <3>2, FullMeansFull
  <2>2. Window!Admit(k)
    BY <1>2, <2>1 DEF Admit, Window!Admit
  <2> QED
    BY <1>2, <2>2, AdmitKeepsInv DEF Window!Next
<1>3. ASSUME NEW k \in Keys, Refuse(k)
      PROVE  LimiterInv' /\ [Window!Next]_(Window!windowVars)
  <2>1. Window!Full(k)
    BY <1>3, FullMeansFull DEF Refuse
  <2>2. Window!Refuse(k)
    BY <1>3, <2>1 DEF Refuse, Window!Refuse
  <2> QED
    BY <1>3, <2>2, RefuseKeepsInv DEF Window!Next
<1>4. CASE UNCHANGED limiterVars
  BY <1>4 DEF limiterVars, LimiterInv, HitsAgree, Window!windowVars
<1> QED
  BY <1>1, <1>2, <1>3, <1>4 DEF LimiterNext

\* A request's key is one of the limiters', and its step is the limiter's.
LEMMA RoutesAskTheLimiter ==
  ASSUME BoundaryInv, [Next]_vars
  PROVE  LimiterNext \/ UNCHANGED limiterVars
<1> DEFINE Asks == \E k \in Keys : Admit(k) \/ Refuse(k)
<1>1. ASSUME NEW request, NEW key \in Keys, NEW limitCode, NEW laterCode, NEW asked,
             Limited(request, key, limitCode, laterCode, asked)
      PROVE  Asks
  BY <1>1 DEF Limited
<1>2. ASSUME NEW request, NEW code, Refused(request, code)
      PROVE  UNCHANGED limiterVars
  BY <1>2 DEF Refused
<1> HIDE DEF Asks
<1>3. ASSUME NEW secret \in Optional, NEW bodyCode,
             \/ PostInbound(secret, bodyCode) \/ PostTools(secret, bodyCode)
             \/ PostOrchestrate(secret, bodyCode)
      PROVE  Asks \/ UNCHANGED limiterVars
  <2>1. server = "up"
    BY <1>3 DEF PostInbound, PostTools, PostOrchestrate, Arrives
  <2>2. <<"inbound", config.inboundSecret>> \in Keys /\ <<"demo", OperatorSecret>> \in Keys
    BY <2>1, KeysAssumption DEF BoundaryInv, ConfigOK, OperatorSecret
  <2>3. CASE PostInbound(secret, bodyCode)
    BY <1>1, <1>2, <2>2, <2>3 DEF PostInbound
  <2>4. CASE PostTools(secret, bodyCode)
    BY <1>1, <1>2, <2>2, <2>4 DEF PostTools
  <2>5. CASE PostOrchestrate(secret, bodyCode)
    BY <1>1, <1>2, <2>2, <2>5 DEF PostOrchestrate
  <2> QED
    BY <1>3, <2>3, <2>4, <2>5
<1>4. ASSUME NEW operatorHeader \in Optional, NEW tokenHeader \in Optional, NEW flag \in BOOLEAN,
             \/ GetSessions(operatorHeader, tokenHeader, flag)
             \/ GetSession(operatorHeader, tokenHeader, flag)
      PROVE  Asks \/ UNCHANGED limiterVars
  <2>1. HistoryKey(operatorHeader, tokenHeader) \in Keys
    BY KeysAssumption DEF HistoryKey
  <2>2. CASE GetSessions(operatorHeader, tokenHeader, flag)
    BY <1>1, <1>2, <2>1, <2>2 DEF GetSessions
  <2>3. CASE GetSession(operatorHeader, tokenHeader, flag)
    BY <1>1, <1>2, <2>1, <2>3 DEF GetSession
  <2> QED
    BY <1>4, <2>2, <2>3
<1>5. ASSUME NEW env \in Environments, Start(env) PROVE UNCHANGED limiterVars
  BY <1>5 DEF Start
<1>6. CASE Tick
  BY <1>6 DEF Tick, LimiterNext
<1>7. CASE UNCHANGED vars
  BY <1>7 DEF vars
<1> QED
  BY <1>3, <1>4, <1>5, <1>6, <1>7 DEF Next, LimiterNext, Asks

\* The configuration comes from the environment at the start and stays.
LEMMA ConfigStays ==
  ASSUME ConfigOK, [Next]_vars
  PROVE  ConfigOK'
<1>1. ASSUME NEW env \in Environments, Start(env) PROVE ConfigOK'
  <2>1. CASE Admissible(env)
    <3>1. config' = Configuration(env)
      BY <1>1, <2>1 DEF Start
    <3> QED
      BY <3>1 DEF ConfigOK, Configuration, Environments
  <2>2. CASE ~Admissible(env)
    BY <1>1, <2>2 DEF Start, ConfigOK
  <2> QED
    BY <2>1, <2>2
<1>2. CASE UNCHANGED <<server, config>>
  BY <1>2 DEF ConfigOK
<1>3. (\E env \in Environments : Start(env)) \/ UNCHANGED <<server, config>>
  BY DEF Next, vars, Tick, PostInbound, PostTools, PostOrchestrate, GetSessions, GetSession, Arrives
<1> QED
  BY <1>1, <1>2, <1>3

\* The limiter in front of the routes keeps the promise of a sliding window over
\* the whole history of admitted requests, although it forgets all but the hits
\* of a key's last call: for any limit, any window, any secrets and any mix of
\* requests, a request is refused just when MaxHits of its key were admitted
\* within the last WindowMs.
THEOREM LimiterImplementsWindow == Spec => ImplementsSlidingWindow
<1>1. Init => BoundaryInv /\ Window!Init
  BY LimiterStarts DEF Init, BoundaryInv, ConfigOK
<1>2. BoundaryInv /\ [Next]_vars => BoundaryInv' /\ [Window!Next]_(Window!windowVars)
  BY RoutesAskTheLimiter, LimiterSteps, ConfigStays DEF BoundaryInv
<1> QED
  BY <1>1, <1>2, PTL DEF Spec, ImplementsSlidingWindow, Window!Spec

-----------------------------------------------------------------------------
(* What the promise of a window bounds.                                    *)

\* The invariant holds at first: nothing was admitted.
LEMMA WindowInit ==
  Window!Init => Window!WindowInv
BY LimitsAssumption
   DEF Window!Init, Window!WindowInv, Window!TimesType, Window!InOrder, Window!NeverOverLimit

\* Every request and every tick of the clock keeps the invariant.
LEMMA WindowStep ==
  Window!WindowInv /\ [Window!Next]_(Window!windowVars) => Window!WindowInv'
<1> SUFFICES ASSUME Window!WindowInv, [Window!Next]_(Window!windowVars) PROVE Window!WindowInv'
    OBVIOUS
<1> USE LimitsAssumption DEF Window!WindowInv
<1>1. CASE Window!ClockAdvances
  BY <1>1 DEF Window!ClockAdvances, Window!TimesType, Window!InOrder, Window!NeverOverLimit
<1>2. ASSUME NEW k \in Keys, Window!Admit(k) PROVE Window!WindowInv'
  <2> DEFINE times == admitted[k]
  <2>1. /\ now' = now /\ times \in Seq(Nat) /\ now \in Nat
        /\ admitted' = [admitted EXCEPT ![k] = Append(times, now)]
    BY <1>2 DEF Window!Admit, Window!TimesType
  <2>2. Window!TimesType'
    BY <2>1 DEF Window!TimesType
  <2>3. /\ admitted'[k] = Append(times, now)
        /\ \A other \in Keys \ {k} : admitted'[other] = admitted[other]
    BY <2>1 DEF Window!TimesType
  <2>4. /\ Len(admitted'[k]) = Len(times) + 1
        /\ admitted'[k][Len(times) + 1] = now
        /\ \A i \in 1 .. Len(times) : admitted'[k][i] = times[i]
    BY <2>1, <2>3
  <2>5. Window!InOrder'
    <3> SUFFICES ASSUME NEW l \in Keys, NEW i \in 1 .. Len(admitted'[l]), NEW j \in 1 .. i
                 PROVE  admitted'[l][i] <= now /\ admitted'[l][j] <= admitted'[l][i]
      BY <2>1 DEF Window!InOrder
    <3>1. CASE l # k
      BY <3>1, <2>3 DEF Window!InOrder
    <3>2. CASE l = k /\ i <= Len(times)
      BY <3>2, <2>1, <2>4 DEF Window!InOrder
    <3>3. CASE l = k /\ i = Len(times) + 1
      BY <3>3, <2>1, <2>4 DEF Window!InOrder
    <3> QED BY <3>1, <3>2, <3>3, <2>1, <2>4
  <2>6. Window!NeverOverLimit'
    <3> SUFFICES ASSUME NEW l \in Keys, NEW i \in 1 .. Len(admitted'[l]) - MaxHits
                 PROVE  admitted'[l][i + MaxHits] - admitted'[l][i] >= WindowMs
      BY DEF Window!NeverOverLimit
    <3>1. CASE l # k
      BY <3>1, <2>3 DEF Window!NeverOverLimit
    <3>2. CASE l = k /\ i + MaxHits <= Len(times)
      BY <3>2, <2>1, <2>4 DEF Window!NeverOverLimit
    <3>3. CASE l = k /\ i + MaxHits = Len(times) + 1
      <4>1. now - times[i] >= WindowMs
        BY <3>3, <1>2, <2>1 DEF Window!Admit, Window!Full
      <4> QED BY <4>1, <3>3, <2>1, <2>4
    <3> QED BY <3>1, <3>2, <3>3, <2>1, <2>4
  <2> QED BY <2>2, <2>5, <2>6
<1>3. ASSUME NEW k \in Keys, Window!Refuse(k) PROVE Window!WindowInv'
  BY <1>3 DEF Window!Refuse, Window!TimesType, Window!InOrder, Window!NeverOverLimit
<1>4. CASE UNCHANGED Window!windowVars
  BY <1>4 DEF Window!windowVars, Window!TimesType, Window!InOrder, Window!NeverOverLimit
<1> QED BY <1>1, <1>2, <1>3, <1>4 DEF Window!Next

\* However the requests of a key come, never more than MaxHits of them are let
\* through within WindowMs: what the window promises bounds every window of its
\* length, and the limiter keeps the promise.
THEOREM WindowIsBounded == Spec => []Window!NeverOverLimit
<1>1. Window!Init => Window!WindowInv
  BY WindowInit
<1>2. Window!WindowInv /\ [Window!Next]_(Window!windowVars) => Window!WindowInv'
  BY WindowStep
<1>3. Window!WindowInv => Window!NeverOverLimit
  BY DEF Window!WindowInv
<1>4. Window!Spec => []Window!NeverOverLimit
  BY <1>1, <1>2, <1>3, PTL DEF Window!Spec
<1> QED
  BY <1>4, LimiterImplementsWindow, PTL DEF ImplementsSlidingWindow
=============================================================================
