---------------------------- MODULE QualityGate ----------------------------
(***************************************************************************)
(* The offline quality gate (npm run test:eval-gate): five executors run   *)
(* the cases of their suite files at the same time, and runQualityGate     *)
(* judges the scores against the fixed membership and the checked-in       *)
(* baseline, writes eval/gate/last-run.json and sets the exit code that CI *)
(* reads.  Between two gates, and while one runs, people edit the files.   *)
(*                                                                         *)
(* A case id "suite/case" is the pair of its two segments.  Every executor *)
(* scores 1 for a case that passes and 0 for one that fails, and every     *)
(* baseline entry reads pass: true, value: 1, so "newly failing" and       *)
(* "dropped below baseline" are one comparison, and an entry is its id.    *)
(***************************************************************************)
EXTENDS Integers, Sequences, SequencesExt

CONSTANTS
    Keys,          \* REQUIRED_SUITE_KEYS, in the order the gate lists them
    Names,         \* what a suite file may call itself
    Segments,      \* what it may call a case
    Versions,      \* dataset and prompt versions
    NoVersion,     \* a suite without promptVersion, a pin that names none
    Security,      \* SECURITY_CASE_IDS
    FirstFiles,    \* the suite files as checked in
    FirstBaseline, \* the baseline as checked in
    MaxEdits,      \* bound: edits of the repository
    MaxRuns        \* bound: gates started

CaseIds == Names \X Segments
KeySet == Range(Keys)
MembershipId == <<"gate", "membership">>

ASSUME KeysAssumption == Keys \in Seq(KeySet) /\ Keys # <<>> /\ IsInjective(Keys)
ASSUME SecurityAssumption == Security \subseteq CaseIds
ASSUME BoundsAssumption == MaxEdits \in Nat /\ MaxRuns \in Nat

\* The checked-in files have the shape the executors and compareBaseline read.
PromptVersions == Versions \cup {NoVersion}
Suites == [name : Names, dataset : Versions, prompt : PromptVersions, cases : Seq(Segments)]
Pins == [dataset : Versions, prompt : PromptVersions]
Baselines == [required : SUBSET CaseIds, pins : UNION {[ns -> Pins] : ns \in SUBSET Names}]

ASSUME FilesAssumption == FirstFiles \in [KeySet -> Suites] /\ FirstBaseline \in Baselines

VARIABLES
    files,      \* eval/<key>/cases.json
    baseline,   \* eval/gate/baseline.json
    prompts,    \* the version of the prompt the executor of a key loads
    listed,     \* the suites executeDefaultEvalSuites runs, in order
    gate,       \* the gate that runs: what it read, and the scores so far
    verdict,    \* what the last finished gate saw, and its exit code
    lastRun,    \* eval/gate/last-run.json
    edits, runs

repository == <<files, baseline, prompts, listed, edits>>
vars == <<repository, gate, verdict, lastRun, runs>>

None == [state |-> "none"]
Scores == [caseId : CaseIds, pass : BOOLEAN, ranWith : PromptVersions]
Gates == [state : {"executing"}, baseline : Baselines, keys : Seq(KeySet),
          suites : [KeySet -> Suites], scores : [KeySet -> Seq(Scores)]]

Init ==
    /\ files = FirstFiles
    /\ baseline = FirstBaseline
    /\ prompts = [k \in KeySet |-> FirstFiles[k].prompt]
    /\ listed = Keys
    /\ gate = None
    /\ verdict = None
    /\ lastRun = None
    /\ edits = 0
    /\ runs = 0

-----------------------------------------------------------------------------
(* People edit the repository, also while a gate runs. *)

Edited == edits < MaxEdits /\ edits' = edits + 1 /\ UNCHANGED <<gate, verdict, lastRun, runs>>

RenameSuite(k, name) ==
    /\ Edited
    /\ files' = [files EXCEPT ![k].name = name]
    /\ UNCHANGED <<baseline, prompts, listed>>

RedateSuite(k, version) ==
    /\ Edited
    /\ files' = [files EXCEPT ![k].dataset = version]
    /\ UNCHANGED <<baseline, prompts, listed>>

RepromptSuite(k, version) ==
    /\ Edited
    /\ files[k].prompt # NoVersion
    /\ files' = [files EXCEPT ![k].prompt = version]
    /\ UNCHANGED <<baseline, prompts, listed>>

AddCase(k, segment) ==
    /\ Edited
    /\ files' = [files EXCEPT ![k].cases = Append(@, segment)]
    /\ UNCHANGED <<baseline, prompts, listed>>

DropCase(k) ==
    /\ Edited
    /\ files[k].cases # <<>>
    /\ files' = [files EXCEPT ![k].cases = Tail(@)]
    /\ UNCHANGED <<baseline, prompts, listed>>

ChangePrompt(k, version) ==
    /\ Edited
    /\ prompts[k] # NoVersion
    /\ prompts' = [prompts EXCEPT ![k] = version]
    /\ UNCHANGED <<files, baseline, listed>>

DropSuite(i) ==
    /\ Edited
    /\ listed' = RemoveAt(listed, i)
    /\ UNCHANGED <<files, baseline, prompts>>

WaiveCase(id) ==
    /\ Edited
    /\ baseline' = [baseline EXCEPT !.required = @ \ {id}]
    /\ UNCHANGED <<files, prompts, listed>>

WaivePin(name) ==
    /\ Edited
    /\ name \in DOMAIN baseline.pins
    /\ baseline' = [baseline EXCEPT !.pins = [n \in DOMAIN @ \ {name} |-> @[n]]]
    /\ UNCHANGED <<files, prompts, listed>>

Edit ==
    \/ \E k \in KeySet :
         \/ \E name \in Names : RenameSuite(k, name)
         \/ \E version \in Versions :
              RedateSuite(k, version) \/ RepromptSuite(k, version) \/ ChangePrompt(k, version)
         \/ \E segment \in Segments : AddCase(k, segment)
         \/ DropCase(k)
    \/ \E i \in DOMAIN listed : DropSuite(i)
    \/ \E id \in CaseIds : WaiveCase(id)
    \/ \E name \in Names : WaivePin(name)

-----------------------------------------------------------------------------
(* One gate.  The baseline, and every suite file, is read before the first *)
(* executor waits for anything.                                            *)

StartGate ==
    /\ gate = None
    /\ runs < MaxRuns
    /\ gate' = [state |-> "executing", baseline |-> baseline, keys |-> listed,
                suites |-> files, scores |-> [k \in KeySet |-> <<>>]]
    /\ runs' = runs + 1
    /\ UNCHANGED <<repository, verdict, lastRun>>

\* The prompt is read again for each case: it may have changed since the start.
RunCase(k, pass) ==
    LET suite == gate.suites[k]
        done == Len(gate.scores[k])
        score == [caseId |-> <<suite.name, suite.cases[done + 1]>>, pass |-> pass,
                  ranWith |-> prompts[k]]
    IN /\ done < Len(suite.cases)
       /\ gate' = [gate EXCEPT !.scores[k] = Append(@, score)]
       /\ UNCHANGED <<repository, verdict, lastRun, runs>>

\* An executor that throws rejects Promise.all: the process ends, and writes nothing.
ExecutorThrows ==
    /\ gate' = None
    /\ verdict' = [state |-> "crashed", run |-> runs, exit |-> 1]
    /\ UNCHANGED <<repository, lastRun, runs>>

Executed(g) == {g.keys[i] : i \in DOMAIN g.keys}
AllScores(g) == FoldLeft(LAMBDA all, k : all \o g.scores[k], <<>>, g.keys)

StatusFromScores(scores) ==
    IF \A i \in DOMAIN scores : scores[i].pass THEN "passed" ELSE "failed"

\* Mutant: Only suites are checked for membership; security cases are the baseline's business.
SuitesMissing(g, scores) == KeySet \ Executed(g) # {}

\* A suite the gate requires was not executed, or a security case has no score.
Incomplete(g, scores) ==
    \/ KeySet \ Executed(g) # {}
    \/ \E id \in Security : \A i \in DOMAIN scores : scores[i].caseId # id

FinalSegment(id) == id[2]

\* Array.find: compareBaseline looks at the first score of an id, and the first
\* suite of a name.
IsFirst(i, found) == i \in found /\ \A j \in found : i <= j

SuffixesAreUnique(scores) ==
    \A i, j \in DOMAIN scores :
        FinalSegment(scores[i].caseId) = FinalSegment(scores[j].caseId)
            => scores[i].caseId = scores[j].caseId

\* Mutant: A required case counts by its final segment, whatever its suite.
RequiredBySegment(scores, required) ==
    \A id \in required : \E i \in DOMAIN scores :
        FinalSegment(scores[i].caseId) = FinalSegment(id) /\ scores[i].pass

RequiredCasesPass(scores, required) ==
    \A id \in required : \E i \in DOMAIN scores :
        /\ IsFirst(i, {n \in DOMAIN scores : scores[n].caseId = id})
        /\ scores[i].pass

\* Mutant: A pin on the prompt is not compared.
DatasetPinsMatch(g) ==
    \A name \in DOMAIN g.baseline.pins : \E i \in DOMAIN g.keys :
        /\ g.suites[g.keys[i]].name = name
        /\ g.suites[g.keys[i]].dataset = g.baseline.pins[name].dataset

PinsMatch(g) ==
    \A name \in DOMAIN g.baseline.pins : \E i \in DOMAIN g.keys :
        LET suite == g.suites[g.keys[i]]
            pin == g.baseline.pins[name]
        IN /\ IsFirst(i, {n \in DOMAIN g.keys : g.suites[g.keys[n]].name = name})
           /\ suite.dataset = pin.dataset
           /\ pin.prompt # NoVersion => suite.prompt = pin.prompt

BaselineOk(g, scores) ==
    /\ SuffixesAreUnique(scores)
    /\ RequiredCasesPass(scores, g.baseline.required)
    /\ PinsMatch(g)

\* Mutant: The run is stored as its scores say, and not downgraded by the baseline.
ConclusionNotDowngraded(g) ==
    LET scores == AllScores(g)
        status == IF Incomplete(g, scores) THEN "failed" ELSE StatusFromScores(scores)
    IN [scores |-> scores, passed |-> status = "passed" /\ BaselineOk(g, scores), status |-> status]

\* What the gate concludes: the scores it records, its verdict and its status.
\* No judge is configured, and it would be given no case to score.
Conclusion(g) ==
    LET given == AllScores(g)
        incomplete == Incomplete(g, given)
        scores == IF incomplete
                    THEN Append(given, [caseId |-> MembershipId, pass |-> FALSE, ranWith |-> NoVersion])
                    ELSE given
        status == IF incomplete THEN "failed" ELSE StatusFromScores(scores)
        ok == BaselineOk(g, scores)
    IN [scores |-> scores, passed |-> status = "passed" /\ ok,
        status |-> IF ok THEN status ELSE "failed"]

\* The file is written last: where that fails the verdict is lost with the process.
Decide(written) ==
    /\ \A k \in Executed(gate) : Len(gate.scores[k]) = Len(gate.suites[k].cases)
    /\ LET c == Conclusion(gate) IN
       /\ verdict' = [state |-> "decided", run |-> runs, saw |-> gate, scores |-> c.scores,
                      written |-> written, exit |-> IF written /\ c.passed THEN 0 ELSE 1]
       /\ lastRun' = IF written
                       THEN [state |-> "written", run |-> runs, status |-> c.status, scores |-> c.scores]
                       ELSE lastRun
    /\ gate' = None
    /\ UNCHANGED <<repository, runs>>

Next ==
    \/ Edit
    \/ StartGate
    \/ /\ gate # None
       /\ \/ \E k \in Executed(gate), pass \in BOOLEAN : RunCase(k, pass)
          \/ ExecutorThrows
          \/ \E written \in BOOLEAN : Decide(written)

Spec == Init /\ [][Next]_vars

-----------------------------------------------------------------------------
(* Properties. *)

Decided == verdict.state = "decided"

\* The values every variable may have: suite files, pins by suite name, the keys
\* that are run, and the version each executor's prompt has.
TypeOK ==
    /\ files \in [KeySet -> Suites]
    /\ baseline \in Baselines
    /\ prompts \in [KeySet -> PromptVersions]
    /\ listed \in Seq(KeySet)
    /\ gate \in {None} \cup Gates
    /\ verdict.state \in {"none", "crashed", "decided"}
    /\ lastRun.state \in {"none", "written"}
    /\ edits \in 0 .. MaxEdits
    /\ runs \in 0 .. MaxRuns

\* What must be executed and pass: the baseline's cases and the security cases.
RequiredIds(v) == Security \cup v.saw.baseline.required

\* PASS as eval/gate/README.md:22-33 and openspec/specs/evaluation-gate/spec.md:100
\* publish it: no suite was skipped, every required case was executed and passed, no
\* two scores share a final segment, and each pinned suite ran at its pin.
Acceptable(v) ==
    LET suites == {v.saw.suites[k] : k \in Executed(v.saw)}
    IN /\ Executed(v.saw) = KeySet
       /\ \A id \in RequiredIds(v) :
            /\ \E s \in Range(v.scores) : s.caseId = id
            /\ \A s \in Range(v.scores) : s.caseId = id => s.pass
       /\ \A i, j \in DOMAIN v.scores :
            FinalSegment(v.scores[i].caseId) = FinalSegment(v.scores[j].caseId) => i = j
       /\ \A name \in DOMAIN v.saw.baseline.pins :
            /\ \E s \in suites : s.name = name
            /\ \A s \in suites : s.name = name =>
                 LET pin == v.saw.baseline.pins[name]
                 IN s.dataset = pin.dataset /\ pin.prompt \in {NoVersion, s.prompt}

\* Where the code departs from the published rule: two suites of one name, of which
\* only the first is compared with its pin; a case scored twice, which is no
\* collision; a case nobody requires that fails, and fails the gate.
NamedApart(g) ==
    \A j, k \in Executed(g) : g.suites[j].name = g.suites[k].name => j = k
ScoredOnce(v) ==
    \A i, j \in DOMAIN v.scores : v.scores[i].caseId = v.scores[j].caseId => i = j
ExtraCaseFails(v) ==
    \E s \in Range(v.scores) : s.caseId \notin RequiredIds(v) /\ ~s.pass

\* A gate that ends with 0 saw a run the published rule accepts, unless suites
\* share a name or a case was scored twice; an accepted run whose record could be
\* written ends with 0, unless an extra case fails (run-quality-gate.ts:99,
\* run-eval-gate.ts:28).  Each exception is real: see the three properties at the end.
ExitFollowsThePassRules ==
    Decided =>
        /\ verdict.exit = 0 /\ NamedApart(verdict.saw) /\ ScoredOnce(verdict)
             => Acceptable(verdict)
        /\ verdict.written /\ Acceptable(verdict) /\ ~ExtraCaseFails(verdict)
             => verdict.exit = 0

\* However the baseline was edited, a gate that ends with 0 executed and passed
\* every security case: the membership list is code, no entry of a file waives it.
SecurityIsNeverWaived ==
    Decided /\ verdict.exit = 0 =>
        \A id \in Security :
            /\ \E i \in DOMAIN verdict.scores : verdict.scores[i].caseId = id
            /\ \A i \in DOMAIN verdict.scores : verdict.scores[i].caseId = id => verdict.scores[i].pass

\* last-run.json never calls a run passed that CI was told failed, or the reverse:
\* a run the baseline refuses is downgraded before it is written.
RecordAgreesWithExit ==
    lastRun.state = "written" /\ Decided /\ lastRun.run = verdict.run =>
        (lastRun.status = "passed") = (verdict.exit = 0)

\* "The run records suite names, dataset versions, and the prompt or retrieval
\* versions under test" (openspec/specs/evaluation-gate/spec.md:16): a green run's
\* prompt versions are those its cases were run with.
RecordedPromptsWereRun ==
    Decided /\ verdict.exit = 0 =>
        \A k \in Executed(verdict.saw) : \A i \in DOMAIN verdict.saw.scores[k] :
            verdict.saw.scores[k][i].ranWith = verdict.saw.suites[k].prompt

\* "Extra cases beyond the baseline do not fail the gate unless they collide on
\* suffix" (eval/gate/README.md:33): a gate fails for a required or security case,
\* a suite, a suffix or a pin.
ExtraCasesDoNotFail ==
    Decided /\ verdict.written /\ verdict.exit = 1 =>
        \/ Incomplete(verdict.saw, AllScores(verdict.saw))
        \/ ~BaselineOk(verdict.saw, verdict.scores)
        \/ \E i \in DOMAIN verdict.scores : verdict.scores[i].caseId \in Security /\ ~verdict.scores[i].pass

\* "Duplicate final segments among executed scores MUST fail the gate"
\* (openspec/specs/evaluation-gate/spec.md:100).
DuplicateSegmentsFail ==
    Decided /\ verdict.exit = 0 =>
        \A i, j \in DOMAIN verdict.scores :
            FinalSegment(verdict.scores[i].caseId) = FinalSegment(verdict.scores[j].caseId) => i = j

\* "Executed suite `datasetVersion` and `promptVersion` must equal the baseline
\* `suiteVersions` pin" (eval/gate/README.md:27), every suite of a pinned name.
AllSuitesCarryTheirPins ==
    Decided /\ verdict.exit = 0 =>
        \A k \in Executed(verdict.saw) :
            LET suite == verdict.saw.suites[k]
                pins == verdict.saw.baseline.pins
            IN suite.name \in DOMAIN pins =>
                 /\ suite.dataset = pins[suite.name].dataset
                 /\ pins[suite.name].prompt \in {NoVersion, suite.prompt}
=============================================================================
