# Specifications of the voice agent runtime

TLA+ models of the runtime in `src/src` (the Node service behind the voice demo) and of the call
screen in `src/web`, the TLC runs that check them and the theorems that TLAPS proves about them.

    tlc -workers 2 -config MCVoiceRuntime_turns.cfg MCVoiceRuntime     # one run
    tlapm MemoryPersistence_proofs.tla                                 # one proof module

`PROJECT.json` lists the components, the regular runs, for each property a mutation of the
code it must detect, the hazards of the code and where each definition comes from.

## 1. The system

A voice platform (Vapi, or the simulator) holds the call. It posts *voice events*
(`call_started`, `transcript`, `call_ended`) and *tool-calls messages* to the runtime. The
runtime answers each transcript with what the assistant says, keeps a *session history* and
scores a call when it ends. Operators and the web client read reports.

    platform --events--> HTTP server --> handleVoiceTurn --> handleAgentTurn --> LLM, tools, retrieval
             --tools---> HTTP server --> executeChannelToolInvocation --> tool port
    client   --reads---> HTTP server --> getSessionReport / ensureSessionEvaluation --> scoreSessionCall
                          all of them --> PersistencePort: MemoryPersistence, or Supabase with a memory fallback

The service is one Node process. A handler runs alone until it awaits; at an await any other
handler may run. The handlers share the history and the rate limiters, so that is where they meet.
The web client is a process of its own: it starts and ends calls through the vendor's client and
reads reports over HTTP. The quality gate is a third program, run by CI over the checked-in files.

### Inventory

| Component (source under `src/src`) | State it keeps | Operations | What is hard | Correct when |
| --- | --- | --- | --- | --- |
| In-process store, `adapters/persistence/memory-persistence.ts` | sessions, channel index, keys seen, turns, tool calls, events | upsertSession, recordTurn, persistSpan, saveSessionEvaluation, reports | redelivered and out-of-order events; events that name a session, a channel or both | a channel keeps its session, an ended call stays ended, rows are stored once and turns numbered densely |
| Hosted store, `adapters/persistence/supabase-persistence.ts` | four tables, and a memory store per process for failures | the same, each as several REST requests | read-modify-write of whole rows, unique keys that race, lost replies, silent fallback | as above, and nothing acknowledged is lost |
| Voice handler, `application/handle-voice-turn.ts` | none across requests | one turn: agent against a timer, then three writes | the abandoned agent, partial failure, unawaited timer | question before answer, no reply the caller never heard, call ends are scored |
| Channel tools, `application/execute-channel-tool-invocation.ts` | none | resolve a session by channel, run tools, record them | a minted session id racing the call's own events | tool rows join their call |
| Evaluation, `application/ensure-session-evaluation.ts`, `score-session-call.ts` | the evaluation column | score once, recompute on request | rows and other scorers come between the read and the write | only finished calls are scored, evidence is real, a scorer keeps the breach it found |
| Agent turn, `application/handle-agent-turn.ts` with `adapters/tools/native-tool-port.ts` and `adapters/llm/http-llm.ts` | none | retrieval, model calls, one tool hop | timers per call, one shared retry, late tool results | only authorized tools run, no reply after a failed tool, bounded work |
| Orchestrated turn, `application/handle-orchestrated-turn.ts` | none | route to a specialist within budgets | charges in several places, budgets partly consumed | every transition is paid for |
| HTTP boundary, `adapters/http/create-server.ts`, `demo-orchestrate.ts`, `adapters/voice/inbound.ts`, `application/load-config.ts`, `map-error.ts` | the configuration, hits per key of three limiters | authenticate, map the body, limit, check the role, answer | three optional secrets with fallbacks, checks in another order on every route, the edge of a window | a public token only reads, refused requests take nobody's place, limits are neither exceeded nor refused early |
| Knowledge retrieval, `application/chunk-document.ts`, `ingest-document.ts`, `assemble-retrieval.ts`, `adapters/retrieval/in-memory-retrieval.ts` | the chunks | chunk and ingest at start, rank and pack per turn | seams between windows, a budget that counts separators, two embeddings | no passage is lost, the context is the best evidence that fits |
| Tracing, `adapters/observability/` | none of its own | spans to events and tool rows | rows written before their session exists | |
| Web call screen, `src/web/src/lib/voice`, `pages/DemoApp.tsx` | call state (set, rendered, copied to a ref), connect timer, transcript, report | start and end clicks, vendor events, report loads | events without a call, effects that run after the events they should precede, late reports | the screen shows its call and never hangs |
| Quality gate, `application/run-quality-gate.ts`, `compare-baseline.ts`, `adapters/eval/` | last-run.json | execute suites, score, compare with the baseline, exit | files edited while it runs, one verdict told in three places | exit 0 exactly if the published rules hold, security is never waived |
| Health probes, fake model, canned tools | none | pure functions | | out of scope, see section 7 |

The hazards in `PROJECT.json` name, for each of these, the line where it can go wrong and the
property that watches it.

## 2. Modules

| Module | Models | Relation |
| --- | --- | --- |
| `MemoryPersistence` | the in-process store: one action per method, since no method awaits; `StoreSpec` lets any caller make any call | the abstract specification of the history |
| `VoiceRuntime` | the three kinds of request and their interleaving over that store | EXTENDS `MemoryPersistence`; implements `StoreSpec` (`RefinesStore`) |
| `SupabasePersistence` | the hosted adapter, request by request, with the tables' constraints and `withFallback` | EXTENDS `MemoryPersistence`, which is the fallback |
| `AgentThread` | what a voice request can see of its agent turn | abstract; one instance per request in `VoiceRuntime` |
| `AgentTurn` | one agent turn with its timers and its tool port | implements `AgentThread` (`ImplementsAgentThread`) |
| `GroundedTurn` | chunking, ingestion, ranking and assembly, and the turn that uses the evidence | EXTENDS `AgentTurn` |
| `SessionCallScore` | the scorer, and scoring as it goes: what each adapter's reads show of rows that still come in, and the save | detail of the score that `VoiceRuntime` and `SupabasePersistence` take as the set of rows it was made from |
| `Orchestration` | one orchestrated request | stands alone, as in the code |
| `SlidingWindow` | what a rate limit promises, over the whole history of requests | abstract |
| `InboundRateLimiter` | `allow`, with the pruned list of hits | implements `SlidingWindow` (`ImplementsSlidingWindow`) |
| `HttpBoundary` | configuration, credentials and the routes' checks in their order | EXTENDS `InboundRateLimiter`, calls `Admit` and `Refuse` |
| `WebCall` | the call screen over the vendor's client | a client of the routes in `HttpBoundary` |
| `QualityGate` | the gate over files that change | stands alone |
| `MemoryPersistence_proofs` | theorems on the store | EXTENDS `MemoryPersistence` |
| `VoiceRuntime_proofs` | theorems on the runtime | EXTENDS `VoiceRuntime` and `MemoryPersistence_proofs`, whose theorems it lifts |
| `SupabasePersistence_proofs` | theorems on the hosted store | EXTENDS `SupabasePersistence` and `MemoryPersistence_proofs`, for the fallback's memory |
| `AgentTurn_proofs` | theorems on the turn, its evidence and the grounded turn | EXTENDS `GroundedTurn` |
| `HttpBoundary_proofs` | theorems on the routes, the limiters and the sliding window | EXTENDS `HttpBoundary` |
| `Evaluation_proofs` | theorems on the call scorer and the quality gate | EXTENDS `SessionCallScore` and `QualityGate` |
| `Orchestration_proofs`, `WebCall_proofs` | theorems | each EXTENDS its module |
| `MC*` | instances for TLC | |

The order was: the store first, because everything meets there; the handlers over it; the agent
turn they wait for; then the hosted replacement of the store, the orchestrator and the scorer;
then what surrounds them: the HTTP boundary, retrieval, the web client and the gate.

### How state and actions correspond to the code

*MemoryPersistence.* The six variables are the private maps of the class under their names;
`sessionIdByExternal` is the channel index and `turnKeys`/`toolKeys`/`eventKeys` are the keys
of the rows. `UpsertSession` is `ReplayUpsert` (key seen before) or `ApplyUpsert`, with
`Activated`, `Ended` and `Linked` for what each event type does to a record. Rows are records
under their idempotency key; random ids and columns that are only copied are left out. An
evaluation is the set of row keys it was made from.

*VoiceRuntime.* A request is a process. `pc[r]` is the await it is suspended at, and an action is
the code up to the next await: `ReceiveVoice`, `VoiceUpsert`, `VoiceUserTurn`,
`VoiceAssistantTurn`, `ReadForEvaluation`, `SaveEvaluation`, `VoiceReply`, `ReceiveTools`,
`ToolUpsert`, `ToolOpen`, `ToolCallSettles`, `ReceiveReport`, `FetchReport`. `agent[r]` is the
agent turn started by `Promise.race`: `VoiceTimeout` stops waiting for it and leaves it
running. A request stands for what `randomUUID()` gives it (trace id, minted session id).
`VoiceWriteFails` and its kin are the rejections `persistSafely` logs; `UnhandledTimeout` is the
timer firing where nobody awaits it. The memory store resolves at once, so letting other requests
run at each of its awaits allows more than it does; a port that does I/O needs exactly that.

*SupabasePersistence.* A client makes the port calls of one handler, `program[c]`; `pc[c]` is
the REST request it waits for and `got[c]` what earlier ones returned. `PostSession` writes
back the whole row read by `FindByChannel` or `FindById`. `Insert` is subject to the foreign
key and the unique keys of the migration; what it refuses goes to `FallBack`, as do
`RequestFails` and a write whose reply is lost. `QuestionFirstAssumption` says of the programs what the
voice handler's code does: it records an exchange's question before its answer.

*AgentTurn.* Time is in units of 500 ms: model timer 3, tool timer 1, voice timer 4, the defaults
of the configuration. `Tick` may not pass a due timer. The model's answers are kinds of answers
(reply, tool proposal, malformed, prose, sensitive, failure); `Refusal` and `Executable` are the
checks of the agent's allowlist, the port's allowlist and the registry.

*SessionCallScore.* A text is the set of result leaves it contains and whether it breaches policy
or sounds Spanish; a result is the sequence of its leaves. `Hosted` chooses whether the report is
the stored rows or copies with ids of their own, tool calls in any order. `brought` records what a
tool really returned, which an agent's row does not keep. A scorer is one call of
`ensureSessionEvaluation`; it reads (`ReadSession`, and from the hosted tables then `ReadTurns` and
`ReadTools`) and later stores its score (`SaveEvaluation`) over whatever is there by then, while rows
come in and other scorers do the same. The memory adapter reads everything at once, a promise turn
before it saves; the model lets others run in that turn, too. Requests that fail, and session rows
written back with the evaluation they had, are `SupabasePersistence`'s. The specification is `ScoreSpec`.

*Orchestration.* The steps before the model call have no await between them but are actions of
their own, as each can end the request; each caller's budgets may be partly consumed.

*InboundRateLimiter, SlidingWindow.* `allow` is one action, `Admit` or `Refuse`. `admitted` is a
history variable. `SlidingWindow` decides by it alone; the code, by the hits it has not pruned.

*HttpBoundary.* A request is answered in one action, as nothing before the use case awaits. An
operator per route applies its checks in the order of its handler; `asked` is what it hands to
the use case. `Start` takes any environment: which optional variables are set, whether one value is
used twice. Secrets are compared, hence symmetric; a secret's hash is the secret.

*AgentThread.* `VoiceRuntime`'s `agent[r]` is `AgentThread`'s `thread` of request `r`, and
`AgentState` maps the twelve states of `AgentTurn` to it: a turn that ended as the caller sees it
(reply, timeout, other error), and before that whether its tool has failed.

*GroundedTurn.* A document is the set of positions that hold a letter, so that `trim` and blank
windows are what they are; a chunk is its locator, the length of its trimmed text and its
embedding's identity. A query is any assignment of scores to chunks. A hit's rank (`Rank`) is how many come
before it by score, then by place, which is what a stable sort gives. `Retrieve` of `AgentTurn` splits
into `RetrieveForTurn` and `RetrievalFails`.

*WebCall.* React holds the call state three times: `queued` (set), `shown` (rendered) and `effected`
(what the effects last saw, `callStateRef`). Events set; `Render` and `RunEffects` follow. A click
is flushed at once. `phase[a]` is the vendor's call of attempt `a`, `instance[a]` the sdk it is
on, as two attempts before the sdk is loaded make two. `reported` and `gaveUp` are history.

*QualityGate.* A case id is a pair of segments. `RunCase` is one case of one executor, the five
interleaved by `Promise.all`. The edits are actions of their own, also while a gate runs: suite
files and baseline are read at its start, a prompt before each case. `Acceptable` is the rule
as `eval/gate/README.md` and the specification publish it. The code departs from it in three ways, each
named and each shown in section 5: of two suites of one name it compares the first with the pin
(`NamedApart` excludes that), it takes a case scored twice for no collision (`ScoredOnce`), and it fails
a run for a case that nobody requires (`ExtraCaseFails`). `ExitFollowsThePassRules` is what is left.

## 3. Runs

| Run | Instance | Shows |
| --- | --- | --- |
| `store` | 2 sessions, 2 channels, 3 event keys, 1 row key, 2 instants | `StoreTypeOK`, `ChannelBinding`, `LifecycleConsistent`, `OneRowPerKey`, `BindingIsPermanent`, `FinishedIsForever` for any three effective events in any order, with any number of replays |
| `voice_turns` | 3 requests, transcripts and the end of one named call, writes that fail or stall, the agent in `runtime` | what is answered is stored in order (`AnsweredTranscriptIsStored`, `NoAnswerWithoutItsQuestion`, `TurnIndexesAreDense`, `TurnsJoinASession`), a reply that came too late is not stored (`FailedTurnLeavesNoReply`), and a named call's end is scored (`CallEndIsScored`) |
| `voice_requests` | 2 requests of any kind, `FairSpec` | `RefinesStore`, `ToolCallsJoinTheirCall`, `EveryRequestIsAnswered` |
| `agent_turn` | five documents of up to 7 positions, one blank and one that cannot be ingested, in windows of 3 with an overlap of 1, the 2 best of up to 3 chunks, 3 scores, 2 embeddings; one tool for each reason to refuse and one that runs; fair | `PassagesAreKeptWhole`, `SourcesAreEvidence`; `OnlyAuthorizedToolsRun`, `TurnWithinBudget`, `ImplementsAgentThread`, `TurnEnds` |
| `http_boundary` | 2 secrets for three purposes, every environment, 2 hits per 2 ms, 3 instants, 3 limited requests | `PublicReadsOnly`, `RefusalsLeaveTheWindow`, `ImplementsSlidingWindow` |
| `hosted` | 2 handlers among three programs of one call (an exchange and a tool span, an exchange and a rescore, the end and a rescore), requests and replies lost | `HostedLifecycleConsistent`, `AcknowledgedRowsAreKept`; while nothing went to the fallback `QuestionsPrecedeAnswers` and `ReportCoversItsScore` |
| `orchestration_budgets` | every budget up to one beyond its limit, all intents | `TransitionsArePaidFor`, `OneSpecialistPerRequest` |
| `score_verdicts` | 2 scorers of one session over the hosted tables, read in any order they may list; up to 2 tool calls and 1 turn that may come at any time | `FailedForAReason`, `RescoringKeepsVerdicts` |
| `web_call` | 2 attempts, 3 messages of which 2 are shown, a right and a wrong passcode; fair | `CompletedOnlyAfterTheEnd`, `LiveCallHasAnEnd`, `TranscriptIsRecent`, `EvaluationOfAnEndedCall`, `ConnectingEnds` |
| `quality_gate` | 2 suites, 2 edits, 2 gates | `ExitFollowsThePassRules` outside its three exceptions, `SecurityIsNeverWaived`, `RecordAgreesWithExit` |
| `voice_unnamed_end` | 2 requests that name only the channel, reasoning owner `vapi` | **violated**: `CallEndIsScored` |
| `hosted_reopen` | a transcript in flight with the end of its call | **violated**: `HostedFinishedIsForever` |

Every module states its type invariant (`TypeOK`, `HostedTypeOK`); they hold in these instances, can
be added to any configuration, and are proved where a proof module says so. The same goes for
`NoTimerInACall` of `WebCall`, `EvaluationOnlyWhenFinished` and `RowsAreNeverRewritten` of the store,
and `NoReplyAfterFailedTool` of the agent turn, which are proved.
`MCHttpBoundary` also compares `AfterExpired`, which drops a prefix, with the filter of `allow` on every
sorted list of up to four times (`KeptIsAFilter`).

Deadlock is not an error in any of the runs: requests, attempts and gates are finite, and an
instance ends when all are done.

### Refinements

- `VoiceRuntime` => `MemoryPersistence!StoreSpec` (`RefinesStore`): whatever the handlers do is a
  sequence of the store's operations, so what is proved of the store holds of the service.
- `AgentTurn` => `AgentThread` (`ImplementsAgentThread`), and each `agent[r]` of `VoiceRuntime` moves
  as `AgentThread` allows: the voice handler's races are checked against every agent the real one
  can be. `GroundedTurn` implements `AgentTurn`, hence the same abstraction.
- `InboundRateLimiter`, under the routes of `HttpBoundary`, => `SlidingWindow`
  (`ImplementsSlidingWindow`), so that the server as a whole exceeds no window.

All of these are proved as well as checked.

### Why the bounds are enough

- A key takes effect once, so `UpsertKeys` bounds effective events: three are a start, an end and
  anything late. Two instants are enough for an end that precedes its start, the clamp of the
  duration. The store's properties are also proved without bounds.
- Two requests meet at every pair of awaits; `voice_turns` has three so that a redelivery, a
  second transcript and the end of the call are in flight together. `voice_requests` has two since
  `RefinesStore` evaluates every input of the store at every step.
- Faults are not counted: any write may fail. A request makes at most three writes.
- One tool hop and one retry bound an agent turn, so the instance is complete for its timers.
- Two hits and a window of two in three instants put a full window, its expiry and both edges within
  reach of three limited requests; `WindowIsBounded` needs no bounds. Refused requests are free.
- Two secrets give every pair of the three configured ones both values, equal and distinct, and a
  request the right one, a wrong one or none.
- The documents are none, one of one chunk, two of three chunks (one with a blank inside, one ending in
  a short chunk) and one with a blank window, which aborts the start; of three chunks two are
  retrieved and at most two fit, so that one is left out for each reason.
- Two attempts are enough for an event, a timer, an sdk and a report of an earlier call to meet the
  current one.
- Two suites tell a suite from another; two edits rename, pin or waive and undo; two gates
  make an old record.
- In `score_verdicts`, two tool calls give a first and a last of each result, and one turn an answer,
  a breach or neither, before, between and after what each of two scorers reads. `MaxTokens` is 1
  in place of 24, so that results longer than the cap exist. Theorem `CallsFailForAReason` covers
  reports of every size.
- Symmetry is used over ids that the specifications only compare, and never with liveness.

### Fairness

- `VoiceRuntime!FairSpec`: weak fairness of `Serve(r)` for each request: a promise the store or
  the timer will settle is settled, and its continuation runs, as Node's event loop does. Nothing
  is assumed of the agent (it may hang), of the sender, or of faults. `EveryRequestIsAnswered`
  needs the voice timer for exactly that reason. It is checked without `port_stalls`: with it, the
  process may die (see `NoUnhandledTimeout`).
- `WebCall!Spec`: weak fairness of `Render`, `RunEffects` and `ConnectingTimesOut`: React commits what
  was set, flushes passive effects, and the browser fires a timer that is armed. Nothing is assumed of
  the vendor, the backend or the user; an attempt that never reports anything is ended by the timer.
- `AgentTurn!FairSpec`, `GroundedTurn!GroundedSpec`: weak fairness of `Runtime` (the handler's own steps and due timers) and of
  `Tick`. Nothing is assumed of the model or a tool's body; `TurnEnds` follows from the timers.

## 4. Proofs

| Module | Theorems | By |
| --- | --- | --- |
| `MemoryPersistence_proofs` | `StoreTypeCorrect`, `ChannelsAreBound`, `CallsEndAsOne`, `ScoresAreFounded`, `TurnsAreDense`, `KeysAreUnique`, `BindingsArePermanent`, `FinishedStaysFinished`, `RowsAreKept` | `StoreInvariance`: `StoreInv` is inductive |
| `VoiceRuntime_proofs` | `RuntimeTypeCorrect`, `RuntimeImplementsStore`, `RuntimeKeepsStoreInvariant`, `FailuresLeaveNoReply`, `QuestionsComeFirst`, `AnswersAreStored`, `ToolCallsReachTheirCall`, `TurnsReachTheirSession`, `EndsReachTheirScore`, `NamedCallsAreWhole` | `RuntimeInvariance`: `Calm` is inductive; on top of it `TranscriptInvariance` and `ToolRowsInvariance` |
| `SupabasePersistence_proofs` | `HostedTypeCorrect`, `HostedCallsEndAsOne`, `AcknowledgedIsKept`, `HostedQuestionsComeFirst`, `ReportsCoverTheirScores` | `HostedInvariance`, then `HostedTranscriptInvariance` and `HostedScoresInvariance` |
| `AgentTurn_proofs` | `TurnTypeCorrect`, `ToolsAreAuthorized`, `FailedToolsFailTheTurn`, `TurnsAreBounded`, `TurnImplementsThread`; `PassagesStayWhole`, `ContextIsEvidence`, `GroundedTurnIsATurn`, `GroundedTurnIsSafe` | `TurnInvariance`: `TurnInv` is inductive; `WindowsCover`, `RankingFacts` and `AssembledIsPacked` on the evidence |
| `Orchestration_proofs` | `OrchestrationTypeCorrect`, `TransitionsPaid`, `OneSpecialistAsked` | `OrchestrationInvariance`: `OrchestrationInv` is inductive |
| `HttpBoundary_proofs` | `PublicOnlyReads`, `RefusalsAreFree`, `LimiterImplementsWindow`, `WindowIsBounded` | one lemma per route; `LimiterInv` is inductive |
| `WebCall_proofs` | `CompletedCallsEnded`, `LiveCallsHaveAnEnd`, `EvaluationsAreOfEndedCalls`, `TimerIsCleared`, `TranscriptsAreRecent` | `CallInvariance`: `CallInv` is inductive, and so is `TranscriptInv` |
| `Evaluation_proofs` | `ScoresAreTyped`, `CallsFailForAReason`, `RescoresKeepVerdicts`, `MemoryEvidenceIsStored`; `GateTypeCorrect`, `ExitTellsTheRules`, `SecurityStaysRequired`, `RecordTellsTheExit` | `ScoreInv` and `GateInv` are inductive; lemmas on `Conclusion` |

*The store.* For any finite or infinite sets of ids, channels and keys, and any instants in `Nat`
(`TimesAssumption`, `NoValueAssumption`). `StoreInv` joins the type invariant, `ChannelBinding`,
`LifecycleConsistent`, `EvaluationOnlyWhenFinished`, `TurnIndexesAreDense` and `OneRowPerKey`. None
of them stands alone. That a late event cannot reopen a call needs that status, media status, end and
duration always change together. That `Linked` leaves the channel index right needs the index and
the records to agree beforehand. That a new turn's index is free needs the indexes to be dense and the
set of turns finite, so finiteness is part of it. The action properties follow from
`StoreInv` and one lemma per kind of step.

*The runtime.* For any requests, bodies, channels, either reasoning owner and any faults, under the
assumptions `VoiceRuntime` states of its constants: bodies have the schema's fields, a tools message
has a call (`map-vapi-tools.ts:21`), what requests mint are session ids, `NoValue` is neither an id nor an error, `UpsertKeys`
and `RowKeys` hold every key a handler can form. `Calm` says for each request where it may be in its
handler and what it works on there (`Local`), and of a score between its read and its save that the
call has ended and the rows it was made from are still stored (`Founded`). That is what makes the
save a `ScoreSession` step of the store, however many requests ran since the read, and the only part
of `RefinesStore` that is not about one step: `StepKeepsFounded` uses that rows are only added and that
an ended call stays ended, both from the store's proofs. So `RuntimeImplementsStore` holds, and with
`StoreInvariance` it carries all of the store's theorems into the runtime.

*The transcript.* `FailedTurnLeavesNoReply` and its kin speak of what a finished request left;
what carries them is `Transcripts`, which says of each stored turn which request wrote it and how far
that one must be. That the caller was not told of a failure is part of it, so no reply of a failed turn
is ever stored; that its utterance is not stored either is no virtue (`UtteranceIsPersisted`, section 5),
and no property asks for it. `QuestionsComeFirst` compares numbers: a reply's is the count of its session's turns,
and dense numbers (from the store) make that greater than its question's. It and `AnswersAreStored`
assume `OneSessionPerEvent`: all requests for one event name one session. Clients that name their
session satisfy it, and the instances of the runs do; two deliveries of an event that names only
its channel do not, since each mints an id, and there the property fails: the question is stored under
the first one's, the second's reply under another. That is the divergence `TurnsJoinASession` of
section 5.

*A call's session and score.* That turns join a session and a call's end is scored does not hold of
every client, so the theorems say of which: `BoundAsNamed`, every channel a voice event names is bound,
if at all, to the session that event is given. A binding is permanent, so a run that breaks the
condition never meets it again, and the properties hold up to there (`TurnsReachTheirSession`,
`EndsReachTheirScore`). `NamedCallsAreWhole` discharges it where the events of one channel name one
session (`CallsAreNamed`) and a tools message over that channel comes after the first of them was
stored, so that it finds the channel bound (`ToolsFindTheirCall`, a condition on the behaviour). That is
the ordinary call, its tools included. Events that name only the channel, or whose channel a tools
message bound first, are outside it: `MCVoiceRuntime_unnamed_end` shows both properties violated for
the former.

*Channel tools.* `ToolRows` ties a request past `ensureSession` to the binding of its channel; that a
bound channel is never bound again keeps it there while others write.

*The HTTP boundary.* For any secrets, configuration and limits. `PublicReadsOnly` rests on the start-up
check that the public token is distinct: with it no request whose headers are the token is given the
operator's role.

*The web screen.* For any number of attempts and messages. Until the screen gives up, at most one
attempt is going on and each of the three copies of the screen is in a state its phase allows
(`Beside`); a copy may lag behind the vendor but not by more than that. `NoTimerInACall` needs it of
all three copies, since a click acts on the rendered one and an event on what the effects copied.

*The agent turn.* For any catalog, allowlists and positive timers. `TurnWithinBudget` is not
inductive: how much time a turn has used depends on how many model calls and tool hops are behind it,
and those on the retry flag and on where the turn is. `TurnInv` says so, state by state.

*The orchestrated request.* For any intents and any budgets in `Nat`. The properties speak of a
request's end; what carries them there is `Paid`, which ties the recorded states and the steps charged
to where the handler is, and `Asked`, which says that no model is asked before routing, so that the
one invocation left is the first.

*The refinement.* `TurnImplementsThread` needs `TurnInv`: that a turn whose tool failed does not go
back to the model is a fact about where it may be, not about any one step. With it, each action is a
step of `AgentThread` under `AgentState`, or a stutter.

*The limiter.* For any keys, limit and window, and a clock that never goes back. `LimiterInv` says that
the hits kept of a key are the last of its admitted requests and that those before them have
expired; since the clock only advances they stay so, whichever calls prune the list. So the list and the history count the same requests, and
each call of `allow` is a step of `SlidingWindow`. A limit on the last `MaxHits` admissions alone does
not bound every window: that times are sorted carries it to every stretch of the history, and the refinement carries it
to the whole server (`WindowIsBounded`).

*The hosted store.* For any sessions, clients and programs that meet `QuestionFirstAssumption`, whichever
requests fail or lose their reply. `HostedInv` is about one request at a time: what a client has read is
well typed and as coherent as what is stored, so that writing a stale row back whole may reopen a
call but never leaves it half ended; an acknowledged row is in a table or in memory. `TranscriptInv` and
`ScoresInv` hold while nothing went to memory (`OneHistory`). An answer's number is counted after its
question was acknowledged, and rows are only added; a score's evidence lies in the rows a report
has read or has still to read (`Unread`), whichever of its four requests comes next.

*The scorer.* For any tools, results and texts, in the order any store lists the rows.
A scorer keeps
what it found because of the order it reads in: the session and its evaluation first, then the rows.
`ScoreInv` says of the stored evaluation that the rows its lasting verdicts rest on are stored, and of a
scorer that the evaluation it found rests on rows it has read or has still to read. A breach remains in
the transcript and a selected tool in the calls, since rows are only added. `RescoresKeepVerdicts` is
about the evaluation a scorer found; over one stored since, it says nothing (`VerdictsAreForever`,
section 5).
`MemoryEvidenceIsStored` assumes `~Hosted`; of the hosted copies it is false (section 5).

*The evidence.* For any documents, chunk sizes, scores and limits. `WindowsCover` is by induction on
the rest of the text, as `Windows` is. `RankingFacts` shows that counting ranks the hits without gaps or
doubles, by the pigeonhole principle (`FS_Injection`); `AssembledIsPacked` goes along the fold that
packs them. `GroundedTurnIsATurn` gives the grounded turn every theorem on `AgentTurn`.

*The screen's transcript.* A message is appended only if it is not shown, and then the front is cut:
`TranscriptInv` says that this keeps doubles out and the newest in, and how long the list is.

*The gate.* For any suites, baselines, edits and runs. `PassedConclusion` says what a passed
`Conclusion` implies of the scores it records, `StatusIsTheVerdict` that the recorded status is the
verdict, on both ways to fail. The record's theorem needs `RecordInv`: a record names the
run that wrote it, and while a gate runs the file is an earlier gate's. `ExitTellsTheRules` has two halves, an exit of 0
from what passed and an accepted run's 0 from what the rule asks; the exceptions are what either proof
could not do without, and each is a divergence of section 5. It speaks of the folds over
suites: `FoldDefined` justifies them for every finite set, by counting through the sets' greatest members
(`NatSets`, `SubsetsByGreatest`).

Only model-checked: the liveness properties (`TurnEnds`, `EveryRequestIsAnswered`, `ConnectingEnds`),
since fairness and ENABLED are out of the prover's reach, and the violations of section 5, which are
counterexamples. Every invariant and every other property of a passing run is stated by a theorem.

## 5. Known divergences

Where the code does something else than the repository's own documents say. The first two are
regular runs; the others are kept as configurations to be run by hand. TLC finds every property they
list violated; where there are several, `-continue` reports each. Four properties have no
configuration: give the named one the property instead of its own. Specification paths are under
`src/openspec/specs/`, if no other is given.

| Configuration | Property | What the code does | What the document says |
| --- | --- | --- | --- |
| `MCVoiceRuntime_unnamed_end` | `CallEndIsScored` | the result of the upsert is dropped (`handle-voice-turn.ts:117`); an event that names only its channel is scored under the id minted for it, so the call's session never is | `docs/evaluation-call.md:35` |
| `MCSupabasePersistence_reopen` | `HostedFinishedIsForever` | a stale row written back whole undoes a call's end (`supabase-persistence.ts:70`) | `session-persistence/spec.md:57` |
| `MCAgentTurn_wide` | `FinishesInsideTurnTimeout` | timers are per model call and add up to more than the turn's | `first-agent/spec.md:138` |
| `MCSessionCallScore_hosted` | `EvidenceIsStored` | hosted reports copy rows under new ids, and the evaluation stores those (`supabase-persistence.ts:223`) | `docs/evaluation-call.md:22` |
| `MCSessionCallScore_stale` | `VerdictsAreForever` | a scorer's PATCH replaces whatever was stored since it read: a breach that another scorer found is lifted (`ensure-session-evaluation.ts:11-24`, `supabase-persistence.ts:304`) | `src/openspec/changes/evaluation-public-demo/specs/session-call-evaluation/spec.md:51` |
| `MCSupabasePersistence_reopen`, other property | `ScoresNeverShrink` | a stale row written back whole takes the score that was stored meanwhile with it; between two rescores of the programs of `MCSupabasePersistence_call`, the slower one stores the smaller score (`supabase-persistence.ts:32,304`) | the same |
| `MCMemoryPersistence_duration` | `DurationMatchesTimestamps` | a start after the end moves `startedAt` and leaves the duration (`memory-persistence.ts:53`) | `session-persistence/spec.md:57` |
| `MCVoiceRuntime_unnamed_end`, other property | `TurnsJoinASession` | turns of an event that names only its channel go under a minted id (`handle-voice-turn.ts:184`) | `session-persistence/spec.md:21` |
| `MCVoiceRuntime_trace` | `OneTracePerSession` | each request has its own trace id | `session-persistence/spec.md:53` |
| `MCVoiceRuntime_stall` | `NoUnhandledTimeout` | on paths without an agent nothing awaits the timer; a write that outlasts it leaves an unhandled rejection (`handle-voice-turn.ts:106`) | `voice-interaction/spec.md:86` |
| `MCVoiceRuntime_utterance` | `UtteranceIsPersisted` | the utterance is not stored when the agent fails (`handle-voice-turn.ts:173`) | `voice-interaction/spec.md:151` |
| `MCAgentTurn_wide` | `InvalidOutputIsTyped` | prose from the model ends the turn as `llm_provider`, without the retry | `first-agent/spec.md:58-59` |
| `MCOrchestration_prose` | `UnparseableIsInvalidOutput` | the same, as `specialist_failed` | `multi-agent-orchestration/spec.md:105-106` |
| `MCSupabasePersistence_fork` | `OneSessionPerChannel` | the loser of two first events keeps its session in process memory | `session-persistence/spec.md:11` |
| `MCSupabasePersistence_rebind` | `HostedBindingIsPermanent` | a session found by id takes the event's channel (`supabase-persistence.ts:51`) | `session-persistence/spec.md:15-16` |
| `MCSupabasePersistence_split` | `OneHistory` | rows written before their session exists stay in process memory | `docs/persistence.md:25` |
| `MCSessionCallScore_hosted` | `SameRowsSameScore` | tool calls are selected without an order, and the first successful one counts | `docs/evaluation-call.md:3` |
| `MCSessionCallScore_memory` | `SecondToolMeetsTheGoal` | only the first successful tool is compared with the last reply | `docs/evaluation-call.md:28` |
| `MCSessionCallScore_memory` | `AgentAnswerMeetsTheGoal` | an agent's tool row keeps `{ok: true}`, not the result | `docs/evaluation-call.md:28` |
| `MCAgentTurn_rank` | `LowestRankIsDroppedFirst` | a hit that does not fit is passed over and a lower-ranked one packed (`assemble-retrieval.ts:45`) | `knowledge-retrieval/spec.md:67` |
| `MCWebCall_screen` | `EndedCallIsCompleted` | a click on end sets "ending" after the call-end that was not yet rendered; nothing moves the screen on (`use-voice-agent.ts:133`) | `wom-voice-demo/spec.md:77-78` |
| `MCWebCall_screen` | `LiveCallIsShown` | a call-start after the screen gave up is ignored, while the call goes on (`use-voice-agent.ts:54`) | `wom-voice-demo/spec.md:67-68` |
| `MCWebCall_screen` | `EvaluationIsOfThisCall` | a report load is not tied to its call; one of an earlier call shows with the current one (`DemoApp.tsx:72`) | |
| `MCQualityGate_prompts` | `RecordedPromptsWereRun` | the recorded prompt version is the suite file's, cases run with the prompt on disk (`run-quality-gate.ts:96`) | `evaluation-gate/spec.md:16` |
| `MCQualityGate_prompts`, other property | `ExtraCasesDoNotFail` | the status is that of all scores, extra ones included (`run-quality-gate.ts:90`) | `eval/gate/README.md:33` |
| `MCQualityGate_prompts`, other property | `DuplicateSegmentsFail` | one full id scored twice is not a duplicate (`compare-baseline.ts:39`) | `evaluation-gate/spec.md:100` |
| `MCQualityGate_names` | `AllSuitesCarryTheirPins` | of two executed suites of one name only the first is compared with the pin (`compare-baseline.ts:61`) | `eval/gate/README.md:27` |

## 6. Abstractions to keep in mind

- `handleVoiceTurn` refuses a session id that is no UUID (`handle-voice-turn.ts:98`). The route cannot
  hand it one: `inbound.ts:96` refuses such a body by the same pattern and `inbound.ts:110` mints the id of
  a body without one. `VoiceRuntime` starts behind that; the refusal would store nothing.
- The agent in `VoiceRuntime` is an `AgentThread`: it may run one tool and end in any way such a
  thread may. `AgentTurn` implements it, and is not run inside `VoiceRuntime` itself.
- `VoiceRuntime` runs over the in-process store. With the hosted store a port call is itself
  interruptible: that is `SupabasePersistence`, whose clients run the handlers' port calls in
  their order, without the handlers' branching.
- Of the two reasoning owners the passing runs take `runtime`; with `vapi` a transcript takes the
  same path without its agent and its assistant turn. The theorems hold for both.
- The limiter's clock never goes back; `Date.now` may.
- In `VoiceRuntime` a request is one that passed the boundary; `HttpBoundary` is where the others are
  refused. Schema checks and freshness are there as the codes they may return; Fastify's body limit
  and its own errors are not.
- The embedding's similarities are arbitrary integers; what words two texts share is not modelled.
- `WebCall` lets a call-start name its channel or not, as `VoiceMediaClient` does. The vendor's client
  never names it (`create-vapi-client.ts:24`), and then no report is fetched; what is said of reports is
  about clients that do, like the one in `DemoApp.test.tsx:160`.
- `WebCall` has one screen. Its vendor may end a call, fail or stay silent at any point, but reports on
  a call only between its start and its end.
- `QualityGate` takes what a case asserts as a choice, pass or fail.

## 7. Not modelled, and the plan

Not modelled: health probes (they read a flag or ping, and change nothing), logging, the canned tools'
payloads and the fake model (data and test code); listing and metrics of sessions (reads); the
lexical embedding; the screen's duration counter and tool label; what the eval cases assert. Every
other component in `PROJECT.json` has a module.

Next, in this order:

1. Proofs: action properties of the hosted store (a row once inserted is never rewritten), and
   the safety part of each liveness property, that a waiting request or screen always has a timer armed.
2. The composition of the voice handler with the hosted store: `VoiceRuntime`'s handlers over
   `SupabasePersistence`'s requests.
