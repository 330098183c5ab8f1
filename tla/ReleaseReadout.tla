--------------------------- MODULE ReleaseReadout ---------------------------
(***************************************************************************)
(* What people and dashboards are told about an assurance run.  Each of    *)
(* these scripts reads some files of artifacts/latest and writes another:  *)
(* the release report, results.v2, the PR comment, the Prometheus file,    *)
(* the flaky policy result, failure explanations and next steps.  Nothing  *)
(* ties the files to one run: in a developer's checkout ("make") the       *)
(* commands run in any order, in reusable-assurance.yml ("ci") in the      *)
(* order of Job on a fresh checkout.  A file keeps the run of every input. *)
(*                                                                         *)
(* An operator introduced as a "slip" is the definition after it with a    *)
(* mistake in it; the behaviours never use it.                             *)
(***************************************************************************)
EXTENDS Integers, Sequences, FiniteSets

CONSTANTS
  Tests,        \* the checks of results.json that its pass rate counts
  Mandatory,    \* those the tier of the service requires
  Outcomes,     \* what a run may find: the status of every test
  Remediation,  \* config/remediation-map.yaml: a severity for some failures
  MinRate,      \* minimum_test_pass_rate of the environment, per mille
  Validation,   \* its require_policy_validation
  Window, MinObservations, FlakyRate, MaxFlaky, FailClosed,  \* flaky-policy.json
  Histories,    \* what artifacts/history/test-history.json may hold
  MaxRuns,      \* bound: assurance runs
  MaxCommands,  \* bound: commands taken in one checkout
  None          \* no file

Statuses == {"pass", "fail", "skipped"}
Verdicts == {"GO", "CONDITIONAL", "NO-GO"}
Levels   == {"critical", "high", "medium", "low"}
Gate     == "promotion_gate"

ASSUME ReadoutAssumption ==
  /\ IsFiniteSet(Tests) /\ Tests # {} /\ Mandatory \subseteq Tests /\ Gate \notin Tests
  /\ Outcomes \subseteq [Tests -> Statuses]
  /\ Remediation \in UNION {[D -> Levels] : D \in SUBSET (Tests \cup {Gate})}
  /\ MinRate \in Nat /\ Validation \in BOOLEAN /\ FailClosed \in BOOLEAN
  /\ Window \in Nat \ {0} /\ MinObservations \in Nat /\ FlakyRate \in Nat /\ MaxFlaky \in Nat
  /\ \A h \in Histories : h \in Seq(UNION {[D -> Statuses] : D \in SUBSET Tests})
  /\ MaxRuns \in Nat /\ MaxCommands \in Nat

(* The file says that the gate is critical, and so does the default.       *)
ASSUME GateIsUrgent == Gate \in DOMAIN Remediation => Remediation[Gate] \in {"critical", "high"}

VARIABLES
  found,      \* what each assurance run has found: the statuses of its tests
  waivers,    \* the controls with a live exception in config/exceptions
  history,    \* artifacts/history/test-history.json, written by nothing here
  files,      \* artifacts/latest and artifacts/metrics
  published,  \* the artifact the job has uploaded
  workflow,   \* "make" or "ci"
  enforce,    \* enforce-promotion of the job
  step        \* its next step, or that of the checkout

vars == <<found, waivers, history, files, published, workflow, enforce, step>>

(* slip: results.v2 is made once, by make run-assurance.                   *)
NormalizedOnce ==
  <<"assure", "export", "flaky", "normalize", "report", "export",
    "audit", "flaky", "promote", "export", "comment", "upload">>

(* make run-assurance (4 commands), make report (2), the gate and the rest *)
Job ==
  <<"assure", "export", "flaky", "normalize", "report", "export",
    "audit", "flaky", "promote", "export", "normalize", "comment", "upload">>

Stopped == Len(Job) + 1

------------------------------------------------------------------------------
(* Recommendations: three scripts, three rules *)

MandatoryGates == {"test_pass_rate", "critical_test_failures", "high_vulnerabilities",
                   "availability_slo", "p95_latency_ms"}
SoftGates      == {"medium_vulnerabilities", "flaky_tests", "test_coverage"}
LowerBounds    == {"test_pass_rate", "availability_slo", "test_coverage"}

(* Rates, availability and coverage are counted per mille.                 *)
Bound == [test_pass_rate |-> 950, critical_test_failures |-> 0, high_vulnerabilities |-> 0,
          availability_slo |-> 999, p95_latency_ms |-> 400,
          medium_vulnerabilities |-> 5, flaky_tests |-> 3, test_coverage |-> 750]

(* A metric nobody has measured is infinite: it meets every lower bound    *)
(* and no upper bound.                                                     *)
Holds(m, g) ==
  IF g \in LowerBounds THEN g \in DOMAIN m => m[g] >= Bound[g]
                       ELSE g \in DOMAIN m /\ m[g] <= Bound[g]

(* evaluate of generate-release-report.py                                  *)
ReportVerdict(m, validated) ==
  IF ~validated \/ \E g \in MandatoryGates : ~Holds(m, g) THEN "NO-GO"
  ELSE IF \E g \in SoftGates : ~Holds(m, g) THEN "CONDITIONAL" ELSE "GO"

Value(m, g, default) == IF g \in DOMAIN m THEN m[g] ELSE default

(* recommendation of normalize-results-v2.py                               *)
SummaryVerdict(m, validated) ==
  IF Value(m, "critical_test_failures", 0) > 0 \/ ~validated THEN "NO-GO"
  ELSE IF Value(m, "test_pass_rate", 0) < 950 THEN "CONDITIONAL" ELSE "GO"

(* slip: the rate and the failures, and no look at the controls           *)
RateVerdict(m, validated) ==
  IF Value(m, "test_pass_rate", 0) < MinRate \/ Value(m, "critical_test_failures", 1) > 0
  THEN "NO-GO" ELSE "GO"

(* recommendation_from_results of export-assurance-metrics.py              *)
MetricsVerdict(m, validated) ==
  IF \/ Value(m, "test_pass_rate", 0) < 950 \/ Value(m, "critical_test_failures", 1) > 0
     \/ ~validated \/ Value(m, "high_vulnerabilities", 0) > 0
  THEN "NO-GO"
  ELSE IF Value(m, "medium_vulnerabilities", 0) > 5 THEN "CONDITIONAL" ELSE "GO"

(* run-assurance.sh writes two of the metrics, and whether every mandatory *)
(* control has passed.                                                     *)
FailedTests(o) == {t \in Tests : o[t] = "fail"}
Rate(o)        == (1000 * Cardinality({t \in Tests : o[t] = "pass"})) \div Cardinality(Tests)
Metrics(o)     == [test_pass_rate |-> Rate(o),
                   critical_test_failures |-> IF FailedTests(o) = {} THEN 0 ELSE 1]
Validated(o)   == \A t \in Mandatory : o[t] = "pass"

------------------------------------------------------------------------------
(* The flaky policy *)

Smaller(a, b) == IF a < b THEN a ELSE b

(* history[-window:]                                                       *)
Recent(h) == SubSeq(h, Len(h) - Smaller(Len(h), Window) + 1, Len(h))

Seen(s, t)       == {i \in DOMAIN s : t \in DOMAIN s[i]}
SeenAs(s, t, st) == {i \in Seen(s, t) : s[i][t] = st}

(* slip: two observations are enough, a pass and a failure.                *)
FlakyAtOnce(s) ==
  {t \in Tests : SeenAs(s, t, "pass") # {} /\ SeenAs(s, t, "fail") # {}}

(* classify: enough observations, of both kinds, and enough failures       *)
FlakyTests(s) ==
  {t \in Tests :
    /\ Cardinality(Seen(s, t)) >= MinObservations
    /\ SeenAs(s, t, "pass") # {} /\ SeenAs(s, t, "fail") # {}
    /\ 1000 * Cardinality(SeenAs(s, t, "fail")) >= FlakyRate * Cardinality(Seen(s, t))}

(* The current results count as the latest run.                            *)
Observed == IF files.results = None THEN history ELSE Append(history, found[files.results])

FlakyAllowed(s) ==
  Cardinality(FlakyTests(s)) <= MaxFlaky /\ ~(s = <<>> /\ FailClosed)

------------------------------------------------------------------------------
(* State *)

Runs      == 0..MaxRuns     \* 0: a file that was not there when it was read
Failures  == {"pass_rate", "critical_test_failures", "control", "validation", "flaky", "evidence"}
Flaky     == [run : Runs, allowed : BOOLEAN]
Audits    == [run : Runs, active : SUBSET Mandatory]
Decisions == [run : Runs, failures : SUBSET Failures, used : SUBSET Mandatory,
              flaky : Flaky \cup {None}]
Reports   == [run : Runs, verdict : Verdicts, decided : Runs, flaky : Runs]
Summaries == [run : Runs, verdict : Verdicts, decided : Runs, flaky : Runs, audited : Runs]
Comments  == [run : Runs, decided : Runs, go : BOOLEAN, critical : BOOLEAN,
              used : SUBSET Mandatory]
Gauges    == [run : Runs, verdict : Verdicts, decided : Runs, allowed : BOOLEAN,
              active : SUBSET Mandatory, flaky : Runs, controls : Runs, critical : {0, 1}]
Causes    == [id : Tests \cup {Gate}, severity : Levels]
Explained == [decided : Runs, passed : BOOLEAN, causes : SUBSET Causes]
Steps     == [decided : Runs, passed : BOOLEAN, must : SUBSET Causes, may : SUBSET Causes]

Files ==
  [results : (1..MaxRuns) \cup {None}, flaky : Flaky \cup {None}, audit : Audits \cup {None},
   decision : Decisions \cup {None}, report : Reports \cup {None}, v2 : Summaries \cup {None},
   comment : Comments \cup {None}, prom : Gauges \cup {None},
   explained : Explained \cup {None}, steps : Steps \cup {None}]

Names   == {"results", "flaky", "audit", "decision", "report", "v2", "comment", "prom",
            "explained", "steps"}
NoFiles == [f \in Names |-> None]

ASSUME NoneAssumption ==
  /\ None \notin 1..MaxRuns /\ None \notin Flaky /\ None \notin Audits
  /\ None \notin Decisions /\ None \notin Reports /\ None \notin Summaries
  /\ None \notin Comments /\ None \notin Gauges /\ None \notin Explained /\ None \notin Steps

TypeOK ==
  /\ found \in Seq(Outcomes) /\ Len(found) <= MaxRuns
  /\ waivers \subseteq Mandatory
  /\ history \in Histories
  /\ files \in Files /\ published \in Files
  /\ workflow \in {"make", "ci"} /\ enforce \in BOOLEAN
  /\ step \in 1..(IF workflow = "make" THEN MaxCommands + 1 ELSE Stopped)

Init ==
  /\ found = <<>> /\ step = 1
  /\ waivers \in SUBSET Mandatory
  /\ history \in Histories
  /\ files = NoFiles /\ published = NoFiles
  /\ workflow \in {"make", "ci"} /\ enforce \in BOOLEAN
  /\ workflow = "make" => enforce

RunOf(f)      == IF f = None THEN 0 ELSE f.run
Current       == IF files.results = None THEN 0 ELSE files.results
Outcome       == found[files.results]
Passed(d)     == d # None /\ d.failures = {}
Write(f, c)   == files' = [files EXCEPT ![f] = c]
Turn(command) == IF workflow = "make" THEN step <= MaxCommands
                 ELSE step \in DOMAIN Job /\ Job[step] = command
Done          == step' = step + 1
Elsewhere     == <<history, published, workflow, enforce>>

------------------------------------------------------------------------------
(* Commands *)

(* run-assurance.sh writes results.json last.                              *)
Assure ==
  /\ Turn("assure") /\ Len(found) < MaxRuns
  /\ \E o \in Outcomes : found' = Append(found, o)
  /\ Write("results", Len(found'))
  /\ Done
  /\ UNCHANGED <<waivers, Elsewhere>>

(* evaluate-flaky-policy.py never fails: nobody asks for --strict.         *)
EvaluateFlaky ==
  /\ Turn("flaky")
  /\ Write("flaky", [run |-> Current, allowed |-> FlakyAllowed(Recent(Observed))])
  /\ Done
  /\ UNCHANGED <<found, waivers, Elsewhere>>

(* make validate-exceptions, over entries that are complete                *)
ValidateExceptions ==
  /\ Turn("audit") /\ files.results # None
  /\ Write("audit", [run |-> files.results, active |-> waivers])
  /\ Done
  /\ UNCHANGED <<found, waivers, Elsewhere>>

(* The failures of evaluate-promotion.py that its inputs here can cause;   *)
(* PromotionGate has all of them.                                          *)
GateFailures(o) ==
  {f \in Failures :
    \/ f = "pass_rate" /\ Rate(o) < MinRate
    \/ f = "critical_test_failures" /\ FailedTests(o) # {}
    \/ f = "control" /\ \E t \in Mandatory \ waivers : o[t] # "pass"
    \/ f = "validation" /\ Validation /\ ~Validated(o) /\ waivers = {}
    \/ f = "flaky" /\ files.flaky # None /\ ~files.flaky.allowed
    \/ f = "evidence" /\ Validation /\ files.report = None}

(* A job without enforce-promotion goes on, but make promotion-check stops *)
(* before its export.                                                      *)
EvaluatePromotion ==
  /\ Turn("promote") /\ files.results # None
  /\ LET failed == GateFailures(Outcome) IN
       /\ Write("decision", [run |-> files.results, failures |-> failed,
                             used |-> waivers, flaky |-> files.flaky])
       /\ step' = IF workflow = "make" \/ failed = {} THEN step + 1
                  ELSE IF enforce THEN Stopped ELSE step + 2
  /\ UNCHANGED <<found, waivers, Elsewhere>>

(* render of generate-release-report.py                                    *)
ReportText ==
  [run |-> files.results, verdict |-> ReportVerdict(Metrics(Outcome), Validated(Outcome)),
   decided |-> RunOf(files.decision), flaky |-> RunOf(files.flaky)]

MakeReport ==
  /\ Turn("report") /\ files.results # None
  /\ Write("report", ReportText)
  /\ Done
  /\ UNCHANGED <<found, waivers, Elsewhere>>

(* normalize of normalize-results-v2.py                                    *)
Summary ==
  [run |-> files.results, verdict |-> SummaryVerdict(Metrics(Outcome), Validated(Outcome)),
   decided |-> RunOf(files.decision), flaky |-> RunOf(files.flaky),
   audited |-> RunOf(files.audit)]

Normalize ==
  /\ Turn("normalize") /\ files.results # None
  /\ Write("v2", Summary)
  /\ Done
  /\ UNCHANGED <<found, waivers, Elsewhere>>

(* slip: no failures in the decision, or no decision                       *)
CommentUnlessFailed ==
  [run |-> Current, decided |-> RunOf(files.decision),
   go |-> files.decision = None \/ Passed(files.decision), critical |-> FALSE, used |-> {}]

(* The comment of render-pr-comment.py; a file that is missing is empty.   *)
CommentText ==
  LET d == files.decision IN
  [run |-> Current, decided |-> RunOf(d), go |-> Passed(d),
   critical |-> d # None /\ "critical_test_failures" \in d.failures,
   used |-> IF d = None THEN {} ELSE d.used]

RenderComment ==
  /\ Turn("comment")
  /\ Write("comment", CommentText)
  /\ Done
  /\ UNCHANGED <<found, waivers, Elsewhere>>

------------------------------------------------------------------------------
(* make assurance-metrics-export *)

(* audit.active_exceptions or promotion.exceptions_used: an audit without  *)
(* active exceptions counts like no audit.                                 *)
ShownExceptions ==
  IF files.audit # None /\ files.audit.active # {} THEN files.audit.active
  ELSE IF files.decision # None THEN files.decision.used ELSE {}

ShownFlaky ==
  IF files.flaky # None THEN files.flaky.run
  ELSE IF files.decision # None THEN RunOf(files.decision.flaky) ELSE 0

(* The control matrix: of the decision, or of the one results.v2 has seen  *)
ShownControls ==
  IF files.decision # None THEN files.decision.run
  ELSE IF files.v2 # None THEN files.v2.decided ELSE 0

(* The export takes a number from any line of the comment that says        *)
(* critical.  Here that is the line of the gate's failure, if it is there; *)
(* a number in the name of something else on such a line is left out, and  *)
(* no property looks at the count.                                         *)
ShownCritical ==
  IF files.comment # None /\ files.comment.critical THEN 1
  ELSE Metrics(Outcome).critical_test_failures

GaugesNow ==
  [run |-> files.results, verdict |-> MetricsVerdict(Metrics(Outcome), Validated(Outcome)),
   decided |-> RunOf(files.decision), allowed |-> Passed(files.decision),
   active |-> ShownExceptions, flaky |-> ShownFlaky, controls |-> ShownControls,
   critical |-> ShownCritical]

(* The file replaces the old one in one step.                              *)
ExportMetrics ==
  /\ Turn("export") /\ files.results # None
  /\ Write("prom", GaugesNow)
  /\ Done
  /\ UNCHANGED <<found, waivers, Elsewhere>>

------------------------------------------------------------------------------
(* make explain-last-fail and suggest-next-steps, not part of any job *)

SeverityOf(id) ==
  IF id \in DOMAIN Remediation THEN Remediation[id]
  ELSE IF id = Gate THEN "critical" ELSE "medium"

Cause(id) == [id |-> id, severity |-> SeverityOf(id)]

(* slip: only the tests are explained.                                     *)
TestCauses ==
  IF files.results = None THEN {} ELSE {Cause(t) : t \in FailedTests(Outcome)}

(* Every failed test of the results and every failure of the decision      *)
CausesNow ==
  (IF files.results = None THEN {} ELSE {Cause(t) : t \in FailedTests(Outcome)})
  \cup (IF files.decision = None \/ Passed(files.decision) THEN {} ELSE {Cause(Gate)})

ExplainFailures ==
  /\ workflow = "make" /\ Turn("explain")
  /\ Write("explained", [decided |-> RunOf(files.decision),
                         passed |-> Passed(files.decision), causes |-> CausesNow])
  /\ Done
  /\ UNCHANGED <<found, waivers, Elsewhere>>

Urgent(c) == c.severity \in {"critical", "high"}

(* It fails where nothing has been explained, and never looks at the files *)
(* the explanation came from.                                              *)
SuggestNextSteps ==
  /\ workflow = "make" /\ Turn("suggest") /\ files.explained # None
  /\ LET e == files.explained IN
       Write("steps", [decided |-> e.decided, passed |-> e.passed,
                       must |-> {c \in e.causes : Urgent(c)},
                       may  |-> {c \in e.causes : ~Urgent(c)}])
  /\ Done
  /\ UNCHANGED <<found, waivers, Elsewhere>>

------------------------------------------------------------------------------
(* make clean; an exception is approved, withdrawn or expires.             *)
Clean ==
  /\ workflow = "make" /\ Turn("clean") /\ files # NoFiles
  /\ files' = NoFiles
  /\ Done
  /\ UNCHANGED <<found, waivers, Elsewhere>>

ChangeExceptions ==
  /\ workflow = "make" /\ Turn("except")
  /\ \E c \in Mandatory : waivers' \in {waivers \cup {c}, waivers \ {c}}
  /\ Done
  /\ UNCHANGED <<found, files, Elsewhere>>

(* The PR comment and the metrics stay behind.                             *)
Uploaded == [files EXCEPT !.comment = None, !.prom = None]

(* actions/upload-artifact                                                 *)
Upload ==
  /\ workflow = "ci" /\ Turn("upload")
  /\ published' = Uploaded
  /\ Done
  /\ UNCHANGED <<found, waivers, history, files, workflow, enforce>>

Next ==
  \/ Assure \/ EvaluateFlaky \/ ValidateExceptions \/ EvaluatePromotion
  \/ MakeReport \/ Normalize \/ RenderComment \/ ExportMetrics
  \/ ExplainFailures \/ SuggestNextSteps \/ Clean \/ ChangeExceptions \/ Upload

Spec == Init /\ [][Next]_vars

------------------------------------------------------------------------------
(* Properties *)

SameRun(f, g) == f # None /\ g # None /\ f.run = g.run

(* What the stricter readout calls GO the other calls GO, and what the     *)
(* other calls NO-GO the stricter does.                                    *)
Stricter(f, g) == /\ f.verdict = "GO" => g.verdict = "GO"
                  /\ g.verdict = "NO-GO" => f.verdict = "NO-GO"

Rejects(f, run) == f # None /\ f.run = run /\ f.verdict = "NO-GO"

(* How far the recommendations for a run may differ, in whatever order and *)
(* however long after the run they were made.  The report is at least as   *)
(* strict as the dashboard, and the dashboard as results.v2.  A PR comment *)
(* stands for the run of the decision it was made of; its GO meets a       *)
(* NO-GO of results.v2 only by an exception or where the environment does  *)
(* not ask for policy validation, and one of the dashboard only so or with *)
(* a pass rate the environment accepts and the dashboard does not.  Only   *)
(* in a job is that run always the one whose results the comment shows.    *)
(* (generate-release-report.py, export-assurance-metrics.py,               *)
(* normalize-results-v2.py and render-pr-comment.py have a rule each.)     *)
ReadoutsAreOrdered ==
  /\ SameRun(files.report, files.prom) => Stricter(files.report, files.prom)
  /\ SameRun(files.report, files.v2) => Stricter(files.report, files.v2)
  /\ SameRun(files.prom, files.v2) => Stricter(files.prom, files.v2)
  /\ files.comment # None /\ files.comment.go =>
       LET run     == files.comment.decided
           excused == ~Validation \/ files.comment.used # {} IN
       /\ Rejects(files.v2, run) => excused
       /\ Rejects(files.prom, run) =>
            excused \/ (Rate(found[run]) >= MinRate /\ Rate(found[run]) < Bound["test_pass_rate"])
       /\ workflow = "ci" => run = files.comment.run

(* What a job uploads belongs together: results.v2 holds the decision, the *)
(* flaky result and the audit of the run it is about, and an enforced gate *)
(* has passed (the order of the steps in reusable-assurance.yml).          *)
PublishedIsComplete ==
  published # NoFiles =>
    LET run == published.results IN
    /\ RunOf(published.decision) = run
    /\ published.v2 # None /\ published.v2.run = run /\ published.v2.decided = run
    /\ published.v2.flaky = run /\ published.v2.audited = run
    /\ enforce => Passed(published.decision)

(* Next steps that have nothing to fix now were never made of a decision   *)
(* that failed (explain-failures.py, suggest-next-steps.py and the         *)
(* remediation map lie in between).                                        *)
NothingToFixMeansPassed ==
  files.steps # None /\ files.steps.must = {} /\ files.steps.decided > 0 => files.steps.passed

(* A test is unstable if, of the last Window runs, at least                *)
(* MinObservations report it, one passed, one failed, and the failures     *)
(* reach the rate.                                                         *)
Unstable(all, t) ==
  LET shown == {i \in DOMAIN all : i > Len(all) - Window /\ t \in DOMAIN all[i]}
      bad   == {i \in shown : all[i][t] = "fail"}
  IN /\ Cardinality(shown) >= MinObservations
     /\ bad # {} /\ \E i \in shown : all[i][t] = "pass"
     /\ 1000 * Cardinality(bad) >= FlakyRate * Cardinality(shown)

(* The flaky policy refuses exactly when more than MaxFlaky tests are      *)
(* unstable, the current results included, or nothing at all is known and  *)
(* the policy is to fail closed.                                           *)
FlakyIsJudgedByWindow ==
  [][files'.flaky # files.flaky /\ files'.flaky # None =>
       (files'.flaky.allowed <=>
          /\ Cardinality({t \in Tests : Unstable(Observed, t)}) <= MaxFlaky
          /\ Observed = <<>> => ~FailClosed)]_vars

------------------------------------------------------------------------------
(* The inductive strengthening ReadoutProofs rests on *)

(* Every file speaks of runs that have written results.                    *)
RunsKnown ==
  /\ files.results # None => files.results \in 1..Len(found)
  /\ files.v2 # None => files.v2.run \in 1..Len(found)
  /\ files.prom # None => files.prom.run \in 1..Len(found)
  /\ files.report # None => files.report.run \in 1..Len(found)
  /\ files.decision # None => files.decision.run \in 1..Len(found)
  /\ files.comment # None /\ files.comment.go => files.comment.decided \in 1..Len(found)

(* A verdict stays what the rule of its script makes of the run.           *)
VerdictsStand ==
  /\ files.v2 # None =>
       LET o == found[files.v2.run] IN
       files.v2.verdict = SummaryVerdict(Metrics(o), Validated(o))
  /\ files.prom # None =>
       LET o == found[files.prom.run] IN
       files.prom.verdict = MetricsVerdict(Metrics(o), Validated(o))
  /\ files.report # None =>
       LET o == found[files.report.run] IN
       files.report.verdict = ReportVerdict(Metrics(o), Validated(o))

(* What a promoted outcome has been                                        *)
Deserved(o, used) ==
  /\ FailedTests(o) = {} /\ Rate(o) >= MinRate
  /\ Validation => Validated(o) \/ used # {}

GoesAreDeserved ==
  /\ Passed(files.decision) => Deserved(found[files.decision.run], files.decision.used)
  /\ files.comment # None /\ files.comment.go =>
       Deserved(found[files.comment.decided], files.comment.used)

(* A decision that failed leaves something urgent behind.                  *)
FailuresAreUrgent ==
  /\ files.explained # None /\ files.explained.decided > 0 /\ ~files.explained.passed =>
       \E c \in files.explained.causes : Urgent(c)
  /\ NothingToFixMeansPassed

(* What a job has behind it at each of its steps                           *)
JobHolds ==
  workflow = "ci" =>
    /\ step \in 2..13 => files.results # None
    /\ step \in 4..13 => RunOf(files.flaky) = files.results
    /\ step \in 8..13 => RunOf(files.audit) = files.results
    /\ step \in 10..13 =>
         /\ files.decision # None /\ files.decision.run = files.results
         /\ enforce => Passed(files.decision)
    /\ step \in 12..13 =>
         /\ files.v2 # None /\ files.v2.run = files.results
         /\ files.v2.decided = files.results /\ files.v2.flaky = files.results
         /\ files.v2.audited = files.results
    /\ step = 13 =>
         /\ files.comment # None /\ files.comment.decided = files.results
         /\ files.comment.go <=> Passed(files.decision)

CommentIsOfJob ==
  workflow = "ci" /\ files.comment # None => files.comment.decided = files.comment.run

(* Every step preserves this: what each file says of its run, and what a   *)
(* job has behind it (the scripts of the readout, reusable-assurance.yml). *)
IndInv ==
  /\ TypeOK /\ RunsKnown /\ VerdictsStand /\ GoesAreDeserved /\ FailuresAreUrgent
  /\ JobHolds /\ CommentIsOfJob /\ PublishedIsComplete
=============================================================================
