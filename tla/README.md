# Verification of the Unified Assurance Platform

TLA+ models of the platform's stateful parts, the TLC configurations that check
them on small instances, and TLAPS proofs of the properties that matter most.
Paths below are relative to `src/`; `scripts/x` is the canonical copy of the
duplicate `x` at the top of the tree. `PROJECT.json` names the source lines of
every definition.

Run a check with `tlc -config MCRunQueue_faults.cfg MCRunQueue`, a proof with
`tlapm RunQueueProofs.tla`.

## 1. The system

An API process takes requests for assurance work and reports about software
executions. Workers run the requested commands, chiefly
`scripts/run-assurance.sh`, whose stages write status files and `results.json`
into one shared directory, `artifacts/latest`. Gates read that file and decide
whether a build may be promoted.

    client --HTTP--> API server --SQL--> control_plane.db <--SQL-- workers
                        |  ingest, policy                            | spawn
                        v                                            v
                 assurance_* tables                       run-assurance.sh, make ...
                                                                     |
      run directory <--copy-- artifacts/latest <--status, results ---+
                                     |
                       validate-exceptions, evaluate-promotion, report, metrics

### Inventory

| Component | State | Operations | Interacts by | Hard behaviour | What makes it correct |
|---|---|---|---|---|---|
| Run queue: `apps/control-plane/api/server.mjs`, `worker/worker.mjs`, `lib/repository.mjs`, `lib/artifacts.mjs` | `runs`, `run_events`, run directories, the worker's `active` | enqueue; claim; execute; heartbeat; complete; finalize; reconcile at start | SQLite rows shared by processes; child-process callbacks | interleaved workers, a completion in three statements, two callbacks for one failed spawn, death of a worker, swallowed exceptions | no command starts twice; verdicts are earned and final; accepted runs settle |
| Assurance API: `lib/assurance-repository.mjs`, `packages/adapters`, `packages/policy-engine`, `packages/assurance-schema` | `assurance_*` tables, one write lock | upsert execution; ingest evidence, signals, a JUnit report; evaluate policy; queries | transactions of several requests | a batch that fails in the middle, ids used again, a decision computed and not stored | atomic batches; ids keep their execution; replies are true; the gate fails closed |
| Assurance pipeline: `scripts/run-assurance.sh`, wrapper scripts, `run-chaos-checks.sh` | `artifacts/latest/*.status`, `results.json`, `FAILURES` | one stage after the other, then the results | status files that several scripts write and that outlive a run; the worker copies `results.json` | `set -e`, scripts that die, stale files, torn output, one directory for all runs | reported passes happened; a run has its own results |
| Resilience intelligence: `scripts/run-resilience-intelligence.sh`, `resilience-incident-trigger.py`, `validate-resilience-adapter.py`, `resilience-scorecard.py`, `resilience-trend-export.py`, `generate-resilience-report.py` | k6, chaos and summary files of each directory, `artifacts/history` | load path with retries, chaos path, adapters, correlation, archive; trigger with a timeout; score | files of a directory several runs share; the archive, read by the scorecard | attempts that fail late, k6 and chaos processes that outlive a killed script, one run in several files | a passed trigger speaks of its own run, and of a load path with nothing against it; a run is counted once |
| Promotion gate: `scripts/evaluate-promotion.py`, `validate-exceptions.py`, `evaluate-flaky-policy.py`, `request-exception.py` | exception files, policies, decision file | request, approve, expire an exception; validate; evaluate | files; called in different orders by Makefile and CI | expiry, stale results, two gates that judge the same file | a promoted build passed its mandatory controls or has a live waiver for them |
| Flaky baseline: `assurance-repository.mjs:325` | none (query) | window, flip rate, rank | rows of ingested signals | window and minimum boundaries | matches its definition |
| Database opening and migration: `lib/db.mjs` | schema, marker file | create, migrate `runs.json` | API and worker both do it on start | a crash between commit and marker, two first starts | every legacy run appears once |
| HTTP, token, validation: `lib/http.mjs`, `auth.mjs`, `validation.mjs` | none | read the body, refuse | request by request | a body over the limit | refused requests change nothing |
| Readout: `normalize-results-v2.py`, `generate-release-report.py`, `render-pr-comment.py`, `evaluate-flaky-policy.py`, `explain-failures.py`, `suggest-next-steps.py`, `export-assurance-metrics.py` | one file of `artifacts/latest` each | read the files of others, write one's own | files; called in any order by the Makefile, in one order by `reusable-assurance.yml` | three rules for one recommendation, files of different runs | the recommendations of one run are ordered; what is published belongs together |
| Evidence bundle, signature: `create-evidence-bundle.py`, `sign-evidence-bundle.sh` | bundle, marks | copy, sign | files and CI artifacts | order of calls | a bundle holds the decision it was made for |
| Onboarding: `onboard-service.py`, `preflight.py`, `onboarding-score.py`, `onboarding-plan.py` | service profile, checklist, snippet, score card, plan, one preflight summary | onboard, check, score, plan, export | files that several terminals write, some in the repository, some removed by `make clean` | interruption between two files, one summary for all modules | a service shown as ready has earned it |
| Governance checks, PR baseline | none | files or replies of GitHub to text | - | - | - |
| Dashboards, charts, CI, UI, demo, catalog | none | format, configure, render | - | - | - |

The hazards of these components are listed, with their lines and the
properties that cover them, in `PROJECT.json`.

## 2. Plan

| # | Module | Of | Status |
|---|---|---|---|
| 1 | `RunLifecycle` | abstract: what the control plane promises about a run | done |
| 2 | `RunQueue`, `MCRunQueue` | API and worker processes, shared tables; implements 1 | done |
| 3 | `RunQueueProofs` | inductive invariant, safety, order of events, refinement | done |
| 4 | `AssuranceStore`; `AssuranceIngest`, `MCAssuranceIngest` | abstract: a store of whole requests; requests, transactions, decisions, which implement it | done |
| 5 | `IngestProofs` | inductive invariant, safety, action properties, refinement | done |
| 6 | `AssurancePipeline`, `MCAssurancePipeline` | stages, status files, results, copies | done |
| 7 | `PipelineProofs` | with one worker: inductive invariant, results, counts, reasons; with any number: whose the reports are | done |
| 8 | `PromotionGate`, `MCPromotionGate` | exceptions over time, both gates, the commands of the Makefile, the release workflow | done |
| 9 | `PromotionProofs` | inductive invariant, safety, action properties, the two gates against each other, monotony | done |
| 10 | `ReleaseReadout`, `MCReleaseReadout` | report, results.v2, PR comment, metrics, flaky policy, explanations; the reusable CI job | done |
| 11 | `ReadoutProofs` | inductive invariant, order of the readouts, publication, the rules against each other, the flaky window | done |
| 12 | `ResilienceRuns`, `MCResilienceRuns` | the resilience script, the incident trigger, archive and scorecard | done |
| 13 | `ResilienceProofs` | inductive invariant, passed triggers, counted runs, bounds and order of the score | done |
| 14 | `Onboarding`, `MCOnboarding` | scaffolding, preflight, score, plan, dashboard rows | done |
| 15 | `OnboardingProofs` | inductive invariant, readiness, stages | done |
| 16 | first start of API and worker with a legacy `runs.json` | `lib/db.mjs` | not modelled, see section 6 |
| 17 | flaky-test baseline of the API | a query | not modelled, see section 6 |

The queue comes first because everything else is started by it, then what is
stored for good, then what the gates believe, then what people are told.
`AssurancePipeline` composes the pipeline with the worker's finalization;
`PromotionGate` and `ReleaseReadout` start from the results it publishes, the
first with all of the gate and little of the files around it, the second the
other way round.

## 3. The models and the code

In every module an operator introduced by a comment beginning `slip:` is a
plausible mistake in the definition after it. No behaviour uses one: they are
there to show that each property notices such a mistake.

### RunLifecycle and RunQueue

`RunLifecycle` says what a run may do, without processes or clocks: queued,
claimed, launched at most once, settled as passed only by exit code 0.
`RunQueue` is the code: a step is one autocommit statement, one transaction, or
one callback up to its next statement, which is what another process can see in
between.

| Model | Code |
|---|---|
| `status`, `created`, `beatAge`, `events` | `runs.status`, `created_at` order, age of `heartbeat_at`, `run_events` |
| `files` | `metadata.json`/`pointers.json`, `result-map.json` of a run |
| `apc`, `req`, `ApiRequest` ... `ApiAudit`, `ApiError` | `queueRun` and `createQueuedRun`, statement by statement, and the 500 |
| `pc`, `job` | the polling loop and its `active` run |
| `WorkerStart`, `SelectStale`, `Reconcile`, `StartupThrows` | start-up with `reconcileStaleRunningRuns`: a SELECT, then one transaction |
| `Claim` | `claimNextQueuedRun`, one `BEGIN IMMEDIATE` transaction |
| `Launch`, `SpawnError`, `ExecuteThrows` | `executeRun` up to its promise, the polling loop's catch |
| `hpc`, `settling`, `verdict`, `late` | the callback in progress, its run and outcome, 'close' events to come after an 'error' |
| `CompleteRead`, `CompleteWrite`, `CompleteLog`, `NoteSpawnError`, `HandlerThrows` | `completeRun`: SELECT, guarded UPDATE, INSERT; the callbacks' catch |
| `Finalize`, `FinalizeThrows`, `Return` | `finalizeSafely`, `done()` |
| `launches`, `exit` | history of the command |
| `Crash`, `Tick` | death of a worker, time |

Time is the age of a heartbeat, capped just above the timeout, because the code
only ever compares it with `staleRunTimeoutMs`. Commands and templates are not
modelled: no property tells them apart. `canceled` has no writer.

### AssuranceStore and AssuranceIngest

`AssuranceStore` says what a client may rely on, without transactions or
processes: a request takes effect as a whole in the step that answers it, or not
at all; a lost reply leaves both open; an evaluation looks at its execution
first and at the signals when it decides. `AssuranceIngest` is the code, and
implements it under a mapping that keeps the tables and shows the batch of a
request once it has its answer (`Answered`). The commit and the reply are one
step of both, because nothing happens in a handler between them but the loss of
the reply.

`executions`, `rows` and `decisions` are the tables; `writer` and `work` are
the write transaction in progress and what it sees; `phase`, `batch`, `stored`,
`seen` are a request's handler. `PutExecution` is `upsertExecution`; `Begin`,
`StoreRow`, `RefuseRow`, `Abort`, `Commit` are the loop of
`insertEvidenceAndSignals` with its conflict (an id of another execution), its
foreign key and its rollback; `NothingToIngest` is the adapter that found
nothing; `ReadExecution` and `Evaluate` are the two halves of
`POST /policy/evaluate`, with a body to await in between; `Reject`, `Fail` and
the lost branch of `Answer` are the replies 4xx, 500 and none. A value is
abstracted to whether it meets the rules, a rule to its mode and scope. Ids that
the JUnit adapter makes are those of its request, as a UUID is nobody else's.
`rows[i].by` is history.

### AssurancePipeline

`status` and `results` are the files of `artifacts/latest`, shared by all runs;
`at`, `mode`, `failed` and `exit` are a shell process; `did` is history, what
its stages have really done; `copy` is the `results.json` in the run directory.
A step is one stage: `RunTool` (npm, semgrep, trivy, k6, smoke test, simulated
in pragmatic mode and skipped in real mode when the tool is missing),
`RunWrapper` and `WrapperDies` (`run_wrapper_step` believes the status file it
finds), `ScanZap`, `SkipStage` (`ONLY_ZAP_SMOKE`), `RunChaos` and `ChaosDies`,
`SkipIntelligence` and `RunIntelligence` (which runs chaos again and rewrites
its status). The end is `RateNothing` (grep finds no pass, `pipefail` and
`set -e` end the script), `OpenResults` (the file is truncated), `Publish` (the
document is complete) and `Summarize` (failure summary, log and exit code 0). A
script may be killed between any two of these, so a complete `results.json` may
be of a run that did not end with 0.
`Finalize` is `finalizeRunArtifacts`, which takes whatever lies there. Only one
stage of each kind is needed, as stages of a kind differ in name alone; in
zap-smoke mode the model skips stages in the order of the other modes. The
worker takes its next run after it has finalized the last (`Busy`); `Workers`
is how many there are.

### PromotionGate

`registry` is `config/exceptions`, `latest` the files of `artifacts/latest` that
the commands hand to each other (results, report, audit, flaky verdict,
decision), `marks` and `bundle` what is in `evidence/bundles`. A step is one
command. With `workflow = "make"` they come in any order, as the Makefile lets
them, and people change the registry in between; with `"ci"` they come in the
order of `Release`, the three jobs of `ci-release-gate.yml`, each on a fresh
checkout, with `step` the next one, `uploaded` the artifact that they hand on,
and `Exit` what a failing command does to a job. The first job is that of
`reusable-assurance.yml`, of which `Release`, like `Job` of `ReleaseReadout`,
follows the real one. Its pragmatic job (lines 108-189) has the same steps on
results of its own and uploads under the same artifact name (lines 180 and 265);
that two jobs compete for one name is not modelled.

| Model | Code |
|---|---|
| `Assure`, `Written`, `AssuranceDies` | `run-assurance.sh`, as its readers see it: the results, their failures counted, or no results |
| `Report`, `EvaluateFlaky` | `generate-release-report.py`, `evaluate-flaky-policy.py` |
| `Approved`, `ValidateExceptions`, `ValidationDies` | `validate-exceptions.py` |
| `Live`, `GateDies` | `load_active_exceptions` of `evaluate-promotion.py` |
| `Promotable` and its conjuncts, `EvaluatePromotion`, `PromotionDies` | its `main`, one conjunct for each reason to refuse |
| `Upload`, `Download`, `CreateBundle`, `SignBundle` | artifacts between jobs, `create-evidence-bundle.py`, `sign-evidence-bundle.sh` |
| `EditRegistry`, `Tick` | people, and the clock both scripts read |

The two scripts judge an exception differently (only the first asks for
`approved_at`), and compare a date without a time zone with the clock, which
ends them with a `TypeError` before they write. Entries of another service or
environment are ignored by both and left out. The flaky verdict is
nondeterministic, because no part of the repository writes the history it is
computed from; `ReleaseReadout` has the computation. `request-exception.py` writes drafts into a directory that
neither script reads. The environment's policy is a constant: a staging policy
is the instance of the run, the theorems cover all of them.

### ReleaseReadout

`files` are the outputs of the readout scripts in `artifacts/latest` and
`artifacts/metrics`; each keeps which run every one of its inputs was of, as the
scripts read whatever is there. A step is one command. With `workflow = "make"`
they come in any order; with `"ci"` in the order of `Job`, the steps of
`reusable-assurance.yml` on a fresh checkout, up to the upload.

| Model | Code |
|---|---|
| `Assure`, `Metrics`, `Validated` | `run-assurance.sh` as its readers see it: two metrics and the mandatory controls |
| `ReportVerdict`, `SummaryVerdict`, `MetricsVerdict` | the recommendations of `generate-release-report.py`, `normalize-results-v2.py`, `export-assurance-metrics.py` |
| `MakeReport`, `Normalize`, `RenderComment`, `ExportMetrics` | these scripts and `render-pr-comment.py`, with the fallbacks of the exporter (`ShownExceptions`, `ShownFlaky`, `ShownControls`, `ShownCritical`) |
| `Recent`, `Observed`, `FlakyTests`, `EvaluateFlaky` | `evaluate-flaky-policy.py` |
| `GateFailures`, `EvaluatePromotion`, `ValidateExceptions` | the gate and the audit, as far as their inputs are files of the readout |
| `ExplainFailures`, `SuggestNextSteps`, `SeverityOf` | `explain-failures.py`, `suggest-next-steps.py`, `remediation-map.yaml` |
| `Clean`, `ChangeExceptions`, `Upload`, `Uploaded` | `make clean`, people, `upload-artifact`, which takes neither the PR comment nor the metrics |

`ShownCritical` takes a 1 from the line of the comment that tells of critical
failures; the exporter takes a number from any line that says critical
(lines 95-110), such as the name of an exception, and no property depends on it.
Rates are whole per mille, rounded down. Exceptions are complete and live or
absent; what else may be wrong with them is in `PromotionGate`.

### ResilienceRuns

`runs` are processes of `run-resilience-intelligence.sh` with their variables,
`dirs` the files they share, `archive` is `artifacts/history`. A step is what
happens between two accesses to a file that others write. `Load` and `LoadFails`
are an attempt of k6; whether it ends with 0 or not, its summary file may be
new, torn, or what was there before, or missing. `Judge` is
`evaluate_k6_thresholds`, which reads that file: a missing one passes, a rate
that is missing, or a file that is not JSON, counts as perfect (`ErrorsOf`,
`PassesOf`), and an empty one fails (`Judged`). Its two reads, of the errors and
of the passes, are one step. `Remark` says, apart from the script's rule, what is
against a file. `Chaos`, `ChaosFails`, `ReadChaos` are the chaos path;
`Accepted`, `Heard`, `Mean`, `DegradationsOf` the adapters and
`validate-resilience-adapter.py`; `Correlate`, `Fill`, `Archive`, `Exit` the
summary, which is empty between the first two, its copy and the exit code.
`Trigger`, `AnswerTrigger` and `TimeOut` are `resilience-incident-trigger.py`:
`subprocess.run` kills the script it has started and not what the script has
started (`Started`), which is in `orphans` and may write once more
(`LastWrites`): k6, the chaos script, or the jq that writes the summary. `Found`,
`Identity`, `Kept` and `RowsOf` are `collect_artifacts` and `run_identity` of
the scorecard, which keeps one file of each identity, of those with the lowest
rank any, where the code has the first; `FailReasons` is the report: what they
write is not read back by anything modelled here, so they are operators on the
state. `measured`, `alone` (no other run and no jq of a killed one in the
directory) and `quiet` (no k6 of a killed one) are history.

### Onboarding

`jobs` are the commands in progress in each terminal, with what they have read;
a step is one file written or read. `Onboard`, `WriteProfile`, `WriteChecklist`,
`WriteSnippet` are `onboard-service.py`; `Preflight` is `preflight.py`, one step
because nothing it reads changes, with the checks it runs reduced to those that
fail (`Escalation` decides which are run); `ReadProfile`, `ReadPreflight`,
`WriteScore` are `onboarding-score.py`; `AskForPlan`, `WritePlan` are the
Makefile's `tee` and `onboarding-plan.py`; `Gather`, which reads its four kinds
of files in one step, and `Publish` are `parse_onboarding_metrics` and the
replacement of `assurance.prom`. `Interrupt` ends a command anywhere,
`EditProfile` is a person, `Clean` is `make clean` when nothing else runs.
`onboarded`, `vetted` and `declared` are history.

## 4. What is checked

| Run | Instance | Shows |
|---|---|---|
| `queue_faults` | 1 run, 1 API, 2 workers, 2 throws, 1 crash | `AtMostOnceLaunch`, `PassIsEarned`, `FailureHasCause`, `SingleVerdict`, `TerminalIsFinal`, refinement of `RunLifecycle`, and the inductive invariant |
| `queue_live` | 2 runs, 1 worker, 2 crashes | `RunningHasOwner`, `SettledBeforeFinalized`; `AcceptedRunSettles`, `QueueDrains`, `StaleOrphanRecovered` under `FairSpec` |
| `queue_atomic` | 1 run, 2 workers | violated: `EventAgreesWithRow` |
| `queue_expired` | 1 run, 2 workers | violated: `ReconciledOnlyWhenExpired` |
| `ingest` | 3 requests, 2 executions, 1 client id, 2 environments, 3 rule lists, batches of 2, 1 throw or death | `AllOrNothing`, `OwnerIsForever`, `ReportsAreBacked`, `DecisionsAsTold`, `AllowIsGrounded`, refinement of `AssuranceStore` (`ImplementsStore`), and the inductive invariant, with `NoOrphans` in it |
| `pipeline` | 2 runs, 6 stages, 1 worker, 1 death | `PassesAreExplained`, `FailuresCounted`, `PassedRunKeepsResults`, and the inductive invariant |
| `pipeline_chaos` | the same, high tier | violated: `ChaosIsTold` |
| `pipeline_copies` | the same | violated: `CopiesAreOwn` |
| `promotion` | 3 controls and 1 stage that none names, 6 outcomes in 3 tiers, 4 exceptions, 3 points in time, 2 runs | `NothingFailedIsPromoted`, `ControlsAreCovered`, `WaitingNeverHelps`, `UsesAreAudited`, `SignedTiersNeverRelease`, `BundleHoldsDecision`, and the inductive invariant |
| `readout` | 3 tests, 1 of them mandatory, 4 outcomes, 3 histories, a window of 4, 2 runs, 7 commands or the 13 steps of the job | `ReadoutsAreOrdered`, `PublishedIsComplete`, `NothingToFixMeansPassed`, `FlakyIsJudgedByWindow`, and the inductive invariant |
| `resilience` | 2 runs, scheduled or triggered by 1 incident, 2 attempts, 2 seconds, k6 files without rates, empty, old and missing, 1 adapter output | `PassedTriggerIsOwn`, `CountedOnce`, and the inductive invariant |
| `onboarding` | 1 service, 1 other module, 1 type, 2 tiers, 2 terminals, 4 commands, 1 profile written by hand | `ReadyIsEarned`, and the inductive invariant |

Bounds. A race about a run needs the two workers that race for it, so one run
and two workers show it; two runs are needed where one run waits for another
(`queue_live`). What a worker carries over from one run to the next, a late
'close' of an earlier command, is in neither instance together with a throw: it
is left to the proofs, which have any number of runs, workers and throws. Two
throws allow a failure and a failure while handling it; one crash at any step
allows every recovery, two allow a crash during recovery. `Timeout = 1` has a
heartbeat fresh, at the limit and past it.
Three requests allow two to conflict and a third to observe; batches of two
have a first and a later item. Two runs of the pipeline are a run and a later
one that finds its files. Three points in time have an exception not yet
approved, live and expired; two runs have a decision about results that have
been replaced. The environment is staging: the signature that prod asks for in
addition is in the theorems and not in the run. The outcomes are: all pass, a required control skipped that an
exception can waive or cannot (critical tier), a required control failed, and
resilience intelligence failed.

Two runs in `readout` have files of an earlier run beside those of a later one;
seven commands are enough to make results, report, decision, comment and
results.v2 of one run and to replace one of them after a second. The histories
are none, one shorter than the window and one longer, so that a test is judged
below, at and above the minimum, and forgotten; a failure rate that equals the
limit is left to the theorem. The outcomes have a pass rate that the environment
accepts and the dashboard does not. Two runs in `resilience` are one
and another that comes before, after or beside it in the same directory; two
seconds have runs archived in the same second and in two; the measurement of k6
lacks both rates, which passes, and the file may also be empty, which fails, old
or missing: a file without objection, one with, and none. Rates on either side
of the thresholds are left to the proofs. The adapter output is a gain beyond
the scale, from which the script must clamp the score; outputs that are refused,
and the absence of adapters, are covered by the proofs alone. In `onboarding` the
other module is one whose
preflight must not count, two terminals are two commands that race for the
files of the service, and four commands are an onboarding, a preflight, a score
and an export.

Symmetry is used for safety only, over ids that nothing compares or orders.

### Fairness

`FairSpec` assumes that a handler which has begun its statements goes on, that
the polling timer keeps firing, that `spawn` reports, and that commands end: the
event loop and the operating system do that. Nothing is assumed of statements
that throw, of crashes, or of heartbeats. Nothing is assumed of `WorkerStart`
either: `up.sh` and the Makefile start one worker and supervise nothing, so each
liveness property speaks of the time a worker is up, or of a worker that has
been started. `AcceptedRunSettles` excuses throws and crashes, because the code
swallows them: a run whose launch or completion throws stays running until some
worker starts again.

### Disagreements between code and documentation

1. `queue_atomic`. `completeRun` updates the row and inserts the event as two
   statements, and inserts `run.passed` even if its guarded UPDATE changed
   nothing. The control plane's README promises "atomic lifecycle transitions +
   event/audit writes".
2. `queue_expired`. The reconciliation selects stale rows, then fails them in a
   transaction that looks only at `status`: a heartbeat in between is ignored.
3. `pipeline_chaos`. `run_cmd_step` writes `pass` over the `skipped` or `fail`
   of the chaos script, which exits 0 in any case. The resilience intelligence
   stage puts a true word back, except without `jq` or when its chaos run times
   out, so the promotion gate can see a control passed that never ran.
4. `pipeline_copies`. A run that dies before it writes `results.json` is given
   the one an earlier run left, though run directories are said to be
   run-scoped and immutable.

Met while modelling `PromotionGate`, and visible in its definitions rather than
in a run of their own:

- Resilience intelligence is documented as observed only, yet its failure is
  counted in `critical_test_failures` and so refuses promotion
  (`NothingFailedIsPromoted` holds of it as of every test).
- For the same reason an exception can waive a control that was skipped, never
  one that failed, though `evaluate-promotion.py` has a branch for failed ones.
- In `ci-release-gate.yml` the bundle is signed after the gate that asks for
  its signature, so no build of the high or critical tier can be released by it
  (`SignedTiersNeverRelease`).
- One expired entry anywhere in `config/exceptions` for this service and
  environment refuses every promotion until it is removed.

Met while modelling the readouts (`ReleaseReadout`):

- `run-assurance.sh` writes two of the five metrics that the release report
  requires, so every report of its runs says NO-GO (`PipelineReportsNeverGo`),
  while the dashboard may say GO of the same run. The dashboard's verdict in
  turn ignores the vulnerabilities it shows beside it, which it reads from
  `trivy.json`.
- In `reusable-assurance.yml` the report is made before the decision, though
  the guide of phase 2 says that it combines both; and the PR comment that the
  job lists among the files of its artifact is not in it.
- `make promotion-check` stops before its metrics export when the gate refuses,
  so the dashboard keeps the decision before that.
- A comment, and the decision beside the dashboard's verdict, stand for the run
  of the decision that lies there. A checkout where `make promotion-check` was
  not repeated after a second run shows its GO beside the results of that run.
- An audit without active exceptions counts like none, and the dashboard then
  shows those that the last decision used.
- Nothing writes `artifacts/history/test-history.json`: with the current results
  alone no test has enough observations to be flaky.

Met while modelling resilience intelligence (`ResilienceRuns`):

- A load path passes if k6 exits with 0 and leaves no summary, one that is not
  JSON, or one without the rates under `.values.rate`; an older summary that k6
  has not replaced is judged as if it had. So a pass says that nothing was found
  against the thresholds, and not that anything was measured.
- A trigger that gives up kills the script only. A k6 or a chaos script that goes
  on may write into the next run of the same incident; a jq that goes on may put
  the killed run's summary into the answer of the next, which is what `alone`
  excludes.
- Two runs of one context that are archived in the same second are one file, and
  two summaries of a directory that are dated alike are one row of the
  scorecard (`Apart`); without `jq` a summary has no date at all, and all of
  those are one row.
- A summary of a wrong mode is a failure for which the report finds no reason.
- The "fail" of an adapter is never looked at, only its degradation.

Met while modelling onboarding (`Onboarding`):

- A preflight takes type and tier from the command line or the type's profile,
  never from the service, so a service may be credited for the checks of
  another type.
- 80 points are "ready", and each category has 20: a service can be ready
  without a passing preflight, or without owners (`ReadyLacksOne`).
- The entry criteria of the stages in `onboarding-stages.json` are enforced by
  nothing: a stage is what the profile says (`StagesWereSet`).
- `tee` leaves a plan for a service without a profile, and the dashboard says
  that a plan exists.

## 5. What is proved

All constants are arbitrary in the proofs, within the named assumptions
`QueueAssumption`, `IngestAssumption`, `PipelineAssumption` and
`PromotionAssumption`, `ReadoutAssumption`, `RunsAssumption`,
`OnboardingAssumption` and each module's `NoneAssumption` (constants have their
types), and `GateIsUrgent` (the remediation map of the repository, and the
default, call a refused promotion critical or high): the "none" values are different from the real ones, the bounds are natural numbers, and a
script goes through every stage once, chaos before resilience intelligence. The
fault bounds are arbitrary too, so the theorems hold for any number of throws
and deaths.

### RunQueueProofs

`IndInv` strengthens `AtMostOnceLaunch`, which is not inductive: to know that a
worker about to launch has an unlaunched run one must know that no other worker
has it (`LaunchesOwned`), which rests on rows never returning to the queue, on
one creator for each row (`RequestsFresh`), on a worker holding a run exactly
between claim and `done()` (`JobsHeld`), and on what a callback knows of its
command (`ExitsKnown`). What it needs for verdicts is `SettledByOne`: the worker
that runs a command is the only one to settle its run, its callback logs a
verdict only while the run has none, and a callback that did not throw leaves
the row terminal. A failed spawn completes a run twice, so the second callback
must find the row terminal, or the verdict still missing because the first one
threw.

From `Inductive` follow `LaunchedAtMostOnce`, `TypeCorrect`,
`VerdictsAreSingle`, `RunningRunsAreOwned` and `FinalizedRunsAreSettled`, with
further invariants `PassesAreEarned` and
`FailuresHaveCauses`, the action property `TerminalStays`, and
`QueueImplementsLifecycle`: the initial states map to initial states and every
step maps to a step of `RunLifecycle` or to a stutter, under `phase <- status`.

`EventsTellTheLife` is about the order of `run_events`, which an operator reads a
run's life from although few of the statements that write it share a transaction with
the row (those of a claim and of a reconciliation do). `LogInOrder` alone is not inductive: whoever is about to log must
know what has been logged, so `LogAgrees` ties the events to the row (a row is
past the queue exactly if `run.started` is logged), to the launch (`run.exec`
before it), to a worker that has claimed and not yet logged, and to the request
that is between its INSERTs. It promises no more than the code keeps:
`run.started` may come before `run.queued`, and after a crash nothing need
follow.

### IngestProofs

`AllOrNothing` alone is not inductive either, as its rows appear at `Commit`
all at once. `WorkExtends` says what the open transaction will make of the
tables: every committed row is kept under its execution, and the items executed
so far are there. `LockHeld` says whose it is, `AuthorsKnown` that every row was
written by a request that committed or is about to, `RequestsInOrder` what a
request has done by its phase, and `OwnIds` that the ids made for a report are
used by no other request before it has replied. `IngestInductive` proves them
together; `RowsHaveExecutions`, `BatchesAreAtomic`, `RepliesAreTrue`,
`SignalsAreBacked`, `RowsKeepExecution` and `AllowsAreGrounded` follow.

`IngestImplementsStore` is the refinement. The interesting step is a commit,
which must be an `Ingest` of the whole batch: `WorkIsBatch` keeps, statement by
statement, that the transaction's tables are the committed ones with the items
executed so far applied in their order (`WrittenMore`), and the foreign key and
the conflict rule make the batch `Storable`. A decision must be `Justified` by
the signals at the time it is stored, for the environment that was read before
the body was awaited. All else tells nobody anything and maps to a stutter, or
tells of a failure and changes nothing.

### PipelineProofs

Most theorems are about one worker (`Workers = 1`), the deployment of
`apps/control-plane/up.sh`; two workers on one checkout mix their files,
and the mutant of `PassedRunKeepsResults` that drops `Busy` shows it. The status
files are shared and nobody clears them, so `IndInv` says whose they are: at
most one run is between start and finalization (`RunsInOrder`), so every stage
the current script has behind it has written its own file (`StagesWritten`),
`failed` is what those files say (`CountAgrees`) and a pass among them has a
reason (`StagesExplained`). The subtle part of `CountAgrees` is the chaos file,
which resilience intelligence rewrites after the chaos stage was counted: it
says "fail" only if resilience intelligence failed, too, which is why the order
of the two stages is assumed. `ResultsAreFresh` carries a passed run from
`Publish` to `Finalize`. `PipelineInductive` proves them together;
`PassedRunsKeepResults`, `FailuresAreCounted` and `PassesHaveReasons` follow.

A failed run may be given another run's results (`CopiesAreOwn` is violated, see
section 4); what is left of that claim is proved. With any number of workers a
complete report, wherever it lies, is of a run that has gone through all its
stages, whatever became of the run then, and all copies of one run's report are
the same (`ReportsOfARunAreOne`); with one worker the same report also lies in the directory of
the run it is of (`ReportsStayAtHome`), because a run is finalized before
the next can truncate or copy the shared file.

### PromotionProofs

What a decision says is easily inductive once it keeps what it saw (`Sound`);
what a release has is not. `UsesAreAudited` needs `AuditHolds`: from the
validation to the gate of the same job every entry of the registry is in the
audit, because the validation fails the job otherwise and a job keeps its
commit. `SignedTiersNeverRelease` needs `MarksComeLast`: there is no mark of
signing before step 14. `BundleHoldsDecision` needs `ReleaseBacked`: from the
first gate on, `latest` and later `uploaded` hold a decision that promotes
their results, so the download cannot bring back anything else.
`PromotionInductive` proves them together; `PromotedHasNoFailure`,
`PromotedIsCovered`, `UnsignedNeverReleased` and `BundlesAreBacked` follow, and
`UsesAudited` with it. `WaitingIsUseless` rests on the clock alone: an entry that
is live later is live now, and the gate refuses unless all are live, so the
live entries are the same before and after.

A release is judged twice, by two jobs, on files that an upload and a download
hand on and at two points in time. `GatesAgree` says that the second
judgement differs for two reasons only, and that the gate's `TypeError` cannot
end it. Its invariant `PromotionStands` does not say that what was promoted stays
promotable, which is false once an exception expires, but that it does as long
as every exception is live (`Stands`): time can only falsify that condition
(`LastingOn`), and the files between the gates keep the results and the report.
`GateIsMonotone` compares two results in the same state: the gate counts passes,
looks at failures, waivers and mandatory controls, and reads two values that
`run-assurance.sh` derived from the same statuses; better statuses are never
refused where worse ones are promoted.

### ReadoutProofs

The pure part comes first: `VerdictsOrdered` compares the three recommendations
for every set of metrics with a rate and a number of failures, and
`PipelineReportsNeverGo` follows from `MetricsOf`, the metrics a run writes.
`ReadoutsAreOrdered` says too little to be inductive, since a file may be of any
run: `VerdictsStand` says what its verdict was made of, `GoesAreDeserved` what a
decision that passed and the comment about it have behind them. The theorem
(`ReadoutsOrdered`) does not say that the readouts agree, which they do not: the
report says NO-GO of every run, beside whatever GO, and a comment's GO may meet a
NO-GO for three reasons, an exception, an environment without policy validation,
and a pass rate between that of the environment and the dashboard's 95%. It says
that there are no others, for the run the comment's decision is of, and that in a
job this is the run whose results the comment shows (`CommentIsOfJob`).
`JobHolds` has a
clause for each step of the job, from which `PublishedIsComplete` follows at the
upload. For `NothingToFixMeansPassed` the explanation in between must keep
something urgent (`FailuresAreUrgent`), which is where `GateIsUrgent` is needed.
`FlakyJudgedByWindow` compares the policy, which cuts a window out of the history
and counts in it, with a definition on the whole history: the places of one are
those of the other, moved (`SameRuns`), and as many (`ShiftedCount`).

### ResilienceProofs

`IndInv` is about runs that are alone in their directory, since nothing holds of
the others: nobody else writes the summary there, nor, if the run is quiet, the
k6 file (`SoleHolder`), so what the load path was judged by and what was summed
up is what lies there (`MeasuredHere`, `SummedUpHere`), until the trigger has
answered. What a trigger's pass is worth is limited by the script, and
`PassedTriggersAreOwn` says no more: the summary is of the run that was started,
and the k6 file at the end of an attempt that exited with 0 is no objection; it
may be missing, without rates, or an earlier one. For the scorecard, `Signed`
says that a summary, wherever its copies are and even if its jq has yet to write
it, was made once by the run that it names, `Dated` when, and `ArchiveHolds`
that an archived run stays. `ResilienceInductive` proves them together;
`PassedTriggersAreOwn` and `RunsAreCountedOnce` follow. That no run is counted
twice needs no run to be alone or apart: all copies of what a run wrote are the
same, so they share an identity, of which the scorecard keeps one. That an
archived run is counted rests on the archive's rank, and on two runs with one
identity not being `Apart`: two runs of one second are the case that
`CountedOnce` excuses.
`CorrelationBounded` and `CorrelationIsMonotone` are about the score, with the
shares added, rounded and clamped as the script does it, and
`FailuresHaveReasons` about the report.

### OnboardingProofs

`ReadyIsEarned` is about a table that was gathered some time ago, from score
cards that were written before, from profiles and preflights that were read
before that. `ReadBefore` and `CardsHold` carry what was true through these
steps; it stays true since a profile and a checklist are never removed and the
history only grows. `InOrder` says that onboarding writes its files in an order,
so that a snippet, which `make clean` removes and an interruption leaves out,
stands for all of them. A score of 80 lacks one category at most (`ReadyLacksOne`).
`OnboardingInductive` proves them together; `ReadyServicesEarnedIt` and
`ShownStagesWereSet` follow.

### Only model-checked

The liveness properties, which need fairness and ENABLED, and the violated
claims of section 4. Everything else that a passing run checks is a theorem as
well, for the pipeline with one worker: with more, those that its run checks do
not hold.

## 6. What is not modelled

- The first start with a legacy `runs.json` (`lib/db.mjs`): it happens once in
  the life of an installation, in one transaction; the schema it creates is what
  `RunQueue` and `AssuranceIngest` start from. An API and a worker that make it
  at the same time are listed as a hazard without a property.
- The flaky-test baseline of the Assurance API, a query that changes nothing and
  that no decision reads.
- The checks of the HTTP layer: functions of one request, which appear as the
  requests that are refused.
- Governance checks and the developer experience baseline: one pass over files
  or replies of GitHub to a text or statistics for a person.
- `request-exception.py`, whose drafts lie where neither judge of exceptions
  looks; the trend exporter's file, which only a dashboard reads.
- The UI, dashboards, charts, the other workflows, the demo and the catalog:
  rendering and configuration. The wording of reports is left out everywhere.

Queries change nothing. The order of signals by `created_at` is abstracted: any
stored signal may be the newest, so nothing checked depends on it. The
replacement of `assurance.prom` is one step, though two exporters at the same
time share one temporary file.
