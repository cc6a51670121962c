--------------------------- MODULE HttpBoundary ---------------------------
(***************************************************************************)
(* The checks between an HTTP request and the use case it asks for: the    *)
(* configuration the process starts with (loadConfig), the routes of       *)
(* createServer (src/src/adapters/http/create-server.ts) and what they     *)
(* check in which order, three rate limiters, and the status an error is   *)
(* answered with (mapErrorToEnvelope).                                     *)
(*                                                                         *)
(* The checks of a request run without a wait, so a request is one step.   *)
(* What the use cases then do is modelled by VoiceRuntime, AgentTurn and   *)
(* Orchestration; here a request that passes is handed over.               *)
(***************************************************************************)
EXTENDS InboundRateLimiter

CONSTANTS
  Secrets,      \* values of secrets and tokens
  MaxRequests   \* bound on the requests admitted by a limiter

VARIABLES
  server,   \* "starting", "up" or "refused"
  config,   \* the part of the configuration the checks read
  last,     \* the last request's route, whether it carried nothing but the
            \* public token, its status and what it was handed over to
  requests  \* how many requests the limiters admitted, for the bound

vars == <<limiterVars, server, config, last, requests>>

\* A header, or an optional variable of the environment; an empty variable
\* counts as none.
Optional == Secrets \union {NoValue}

\* The limiters and their keys.  The voice and the tools route share one; the
\* demo's key without a secret is "anonymous", here NoValue.
ASSUME KeysAssumption == Keys = {"inbound", "history", "demo"} \X Optional

ASSUME RequestsAssumption == MaxRequests \in Nat

-----------------------------------------------------------------------------
(* The configuration.                                                      *)

\* valid: every variable there is passes its own schema and the required ones
\* are there.
Environments ==
  [inboundSecret : Optional, demoOrchestrateSecret : Optional, demoPublicToken : Optional,
   llmUrl : BOOLEAN, llmKey : BOOLEAN, supabaseUrl : BOOLEAN, supabaseKey : BOOLEAN,
   valid : BOOLEAN]

Admissible(env) ==
  env.valid /\ env.llmUrl = env.llmKey /\ env.supabaseUrl = env.supabaseKey

Configuration(env) ==
  [inboundSecret |-> env.inboundSecret,
   demoOrchestrateSecret |-> env.demoOrchestrateSecret,
   demoPublicToken |-> env.demoPublicToken,
   mode |-> IF env.llmUrl /\ env.llmKey THEN "http" ELSE "fake"]

Init ==
  /\ LimiterInit
  /\ server = "starting"
  /\ config = NoValue
  /\ last = NoValue
  /\ requests = 0

Start(env) ==
  /\ server = "starting"
  /\ IF Admissible(env)
       THEN server' = "up" /\ config' = Configuration(env)
       ELSE server' = "refused" /\ UNCHANGED config
  /\ UNCHANGED <<limiterVars, last, requests>>

-----------------------------------------------------------------------------
(* Credentials.                                                            *)

\* resolveDemoOrchestrateSecret.
OperatorSecret ==
  IF config.demoOrchestrateSecret # NoValue THEN config.demoOrchestrateSecret
  ELSE config.inboundSecret

\* Mutant: the token is compared with the demo's own secret only.
DistinctFromDemoSecret ==
  config.demoPublicToken # NoValue => config.demoPublicToken # config.demoOrchestrateSecret

\* assertDemoPublicTokenDistinct.
PublicTokenIsDistinct ==
  config.demoPublicToken # NoValue =>
    config.demoPublicToken \notin {OperatorSecret, config.inboundSecret}

\* authenticateSessionHistory: the operator's header is looked at first.  The
\* result is a role or the code of an error.
HistoryRole(operatorHeader, tokenHeader) ==
  IF ~PublicTokenIsDistinct THEN "orchestration_config"
  ELSE IF OperatorSecret = NoValue /\ config.demoPublicToken = NoValue THEN "orchestration_config"
  ELSE IF operatorHeader # NoValue /\ operatorHeader = OperatorSecret THEN "operator"
  ELSE IF tokenHeader # NoValue /\ tokenHeader = config.demoPublicToken THEN "public"
  ELSE "unauthorized"

\* authenticateInbound: "ok" or the code of an error.
InboundAuth(secret) ==
  IF config.inboundSecret = NoValue THEN "VOICE_CONFIG"
  ELSE IF secret # config.inboundSecret THEN "VOICE_UNAUTHORIZED"
  ELSE "ok"

\* authenticateDemoOrchestrate.  Without any secret the route is open, but only
\* to the fake model.
OrchestrateAuth(secret) ==
  IF OperatorSecret = NoValue
    THEN IF config.mode = "http" THEN "orchestration_config" ELSE "ok"
  ELSE IF secret # OperatorSecret THEN "unauthorized"
  ELSE "ok"

\* statusCodeForErrorCode, for the codes of the checks.
Status(code) ==
  CASE code \in {"VOICE_PAYLOAD_INVALID", "VOICE_SESSION_INVALID", "VOICE_EVENT_UNSUPPORTED",
                 "VOICE_STALE", "payload_invalid", "session_invalid"} -> 400
    [] code \in {"VOICE_UNAUTHORIZED", "unauthorized"} -> 401
    [] code = "forbidden" -> 403
    [] code \in {"VOICE_RATE_LIMITED", "rate_limited"} -> 429
    [] code \in {"VOICE_CONFIG", "orchestration_config"} -> 503

-----------------------------------------------------------------------------
(* The routes.                                                             *)

\* asked says what the use case is to do and may do.
Answer(request, status, asked) ==
  [route |-> request.route, public |-> request.headers \subseteq {config.demoPublicToken, NoValue},
   status |-> status, asked |-> asked]

\* A request refused before it came to a limiter.
Refused(request, code) ==
  /\ last' = Answer(request, Status(code), {})
  /\ UNCHANGED <<limiterVars, requests>>

\* A request that asks its limiter, for key: over the limit it is answered with
\* limitCode; else with the code of a later check, or handed over when that is
\* "ok".
Limited(request, key, limitCode, laterCode, asked) ==
  \/ /\ Refuse(key)
     /\ UNCHANGED requests
     /\ last' = Answer(request, Status(limitCode), {})
  \/ /\ Admit(key)
     /\ requests' = requests + 1
     /\ last' = IF laterCode = "ok" THEN Answer(request, 200, asked)
                ELSE Answer(request, Status(laterCode), {})

Arrives == server = "up" /\ requests < MaxRequests /\ UNCHANGED <<server, config>>

\* What mapInboundToVoiceTurn and assertInboundFreshness make of a body.
VoiceBodyCodes ==
  {"ok", "VOICE_PAYLOAD_INVALID", "VOICE_SESSION_INVALID", "VOICE_EVENT_UNSUPPORTED", "VOICE_STALE"}

\* Mutant: the limiter is asked before the body is looked at.
PostInboundLimitedFirst(secret, bodyCode) ==
  LET request == [route |-> "inbound", headers |-> {secret}]
      auth == InboundAuth(secret) IN
  /\ Arrives
  /\ IF auth # "ok" THEN Refused(request, auth)
     ELSE Limited(request, <<"inbound", config.inboundSecret>>, "VOICE_RATE_LIMITED", bodyCode, {"turn"})

\* POST /adapters/voice/inbound: secret, body, freshness, limit.
PostInbound(secret, bodyCode) ==
  LET request == [route |-> "inbound", headers |-> {secret}]
      auth == InboundAuth(secret) IN
  /\ Arrives
  /\ IF auth # "ok" THEN Refused(request, auth)
     ELSE IF bodyCode # "ok" THEN Refused(request, bodyCode)
     ELSE Limited(request, <<"inbound", config.inboundSecret>>, "VOICE_RATE_LIMITED", "ok", {"turn"})

\* POST /adapters/voice/tools: secret, limit, body.
PostTools(secret, bodyCode) ==
  LET request == [route |-> "tools", headers |-> {secret}]
      auth == InboundAuth(secret) IN
  /\ Arrives
  /\ IF auth # "ok" THEN Refused(request, auth)
     ELSE Limited(request, <<"inbound", config.inboundSecret>>, "VOICE_RATE_LIMITED", bodyCode, {"tools"})

\* The history's limit is counted per header as sent, the token's first.
HistoryKey(operatorHeader, tokenHeader) ==
  <<"history", IF tokenHeader # NoValue THEN tokenHeader ELSE operatorHeader>>

\* GET /sessions: role, limit, scope.
GetSessions(operatorHeader, tokenHeader, scoped) ==
  LET request == [route |-> "sessions", headers |-> {operatorHeader, tokenHeader}]
      role == HistoryRole(operatorHeader, tokenHeader) IN
  /\ Arrives
  /\ IF role \notin {"operator", "public"} THEN Refused(request, role)
     ELSE Limited(request, HistoryKey(operatorHeader, tokenHeader), "rate_limited",
                  IF role = "public" /\ ~scoped THEN "forbidden" ELSE "ok",
                  IF scoped THEN {"list channel"} ELSE {"list all"})

\* GET /sessions/:sessionId: role, limit, recomputation.  An operator's read
\* may store the evaluation.
GetSession(operatorHeader, tokenHeader, recompute) ==
  LET request == [route |-> "session", headers |-> {operatorHeader, tokenHeader}]
      role == HistoryRole(operatorHeader, tokenHeader) IN
  /\ Arrives
  /\ IF role \notin {"operator", "public"} THEN Refused(request, role)
     ELSE Limited(request, HistoryKey(operatorHeader, tokenHeader), "rate_limited",
                  IF recompute /\ role # "operator" THEN "forbidden" ELSE "ok",
                  {"report"} \union (IF recompute THEN {"recompute"} ELSE {})
                             \union (IF role = "operator" THEN {"write"} ELSE {}))

\* POST /demo/orchestrate: secret, limit, body.
PostOrchestrate(secret, bodyCode) ==
  LET request == [route |-> "orchestrate", headers |-> {secret}]
      auth == OrchestrateAuth(secret) IN
  /\ Arrives
  /\ IF auth # "ok" THEN Refused(request, auth)
     ELSE Limited(request, <<"demo", OperatorSecret>>, "rate_limited", bodyCode, {"orchestrate"})

Tick == server = "up" /\ ClockAdvances /\ UNCHANGED <<server, config, last, requests>>

Next ==
  \/ \E env \in Environments : Start(env)
  \/ Tick
  \/ \E secret \in Optional :
       \/ \E bodyCode \in VoiceBodyCodes : PostInbound(secret, bodyCode)
       \/ \E bodyCode \in {"ok", "VOICE_PAYLOAD_INVALID"} : PostTools(secret, bodyCode)
       \/ \E bodyCode \in {"ok", "payload_invalid", "session_invalid"} : PostOrchestrate(secret, bodyCode)
  \/ \E operatorHeader, tokenHeader \in Optional, flag \in BOOLEAN :
       GetSessions(operatorHeader, tokenHeader, flag) \/ GetSession(operatorHeader, tokenHeader, flag)

Spec == Init /\ [][Next]_vars

-----------------------------------------------------------------------------
(* Properties.                                                             *)

\* The types of the variables.
TypeOK ==
  /\ now \in 0 .. LastTime /\ hits \in [Keys -> Seq(Nat)] /\ admitted \in [Keys -> Seq(Nat)]
  /\ requests \in 0 .. MaxRequests
  /\ server \in {"starting", "up", "refused"}
  /\ server = "up" <=> config # NoValue
  /\ last # NoValue => last.status \in {200, 400, 401, 403, 429, 503}

\* Whatever secrets a deployment sets, leaves out or uses twice, a history request
\* that carries the public token and nothing else is handed to nothing but the
\* list of one channel and the report, without the right to write or recompute:
\* what VoiceRuntime assumes of the requests that reach it.
PublicReadsOnly ==
  last # NoValue /\ last.route \in {"sessions", "session"} /\ last.public
    => last.asked \subseteq {"list channel", "report"}

\* A request that is refused for its credentials, and a voice event refused for
\* its body or its age, leave every window as it was: they take no authenticated
\* request's place.
RefusalsLeaveTheWindow ==
  [][hits' # hits => /\ last'.status \notin {401, 503}
                     /\ last'.route = "inbound" => last'.status \in {200, 429}]_vars
=============================================================================
