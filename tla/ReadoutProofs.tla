---------------------------- MODULE ReadoutProofs ----------------------------
(***************************************************************************)
(* What the readouts keep, for any tests, outcomes, exceptions, histories  *)
(* and remediation map: a verdict stays that of its run (VerdictsStand), a *)
(* GO is deserved (GoesAreDeserved), a failed decision leaves an urgent    *)
(* cause (FailuresAreUrgent), and a job has its files behind it at each    *)
(* step (JobHolds).  The three recommendations are ordered, and a GO of    *)
(* the comment differs from them for three reasons only.                   *)
(***************************************************************************)
EXTENDS ReleaseReadout, FiniteSetTheorems, TLAPS

(* The steps of a job, by number *)
LEMMA JobSteps ==
  /\ Len(Job) = 13 /\ DOMAIN Job = 1..13 /\ Stopped = 14
  /\ \A k \in 1..13 :
       /\ Job[k] = "assure" <=> k = 1
       /\ Job[k] = "export" <=> k \in {2, 6, 10}
       /\ Job[k] = "flaky" <=> k \in {3, 8}
       /\ Job[k] = "normalize" <=> k \in {4, 11}
       /\ Job[k] = "report" <=> k = 5
       /\ Job[k] = "audit" <=> k = 7
       /\ Job[k] = "promote" <=> k = 9
       /\ Job[k] = "comment" <=> k = 12
       /\ Job[k] = "upload" <=> k = 13
       /\ Job[k] \notin {"explain", "suggest", "clean", "except"}
<1>1. Len(Job) = 13
  BY DEF Job
<1>2. DOMAIN Job = 1..13
  BY DEF Job
<1> QED
  BY <1>1, <1>2 DEF Job, Stopped

(* Where a job is when it is a command's turn *)
LEMMA TurnAt ==
  ASSUME workflow = "ci", NEW c, Turn(c)
  PROVE  /\ step \in 1..13 /\ Job[step] = c
         /\ c = "assure" => step = 1
         /\ c = "export" => step \in {2, 6, 10}
         /\ c = "flaky" => step \in {3, 8}
         /\ c = "normalize" => step \in {4, 11}
         /\ c = "report" => step = 5
         /\ c = "audit" => step = 7
         /\ c = "promote" => step = 9
         /\ c = "comment" => step = 12
         /\ c = "upload" => step = 13
<1>1. step \in 1..13 /\ Job[step] = c
  BY JobSteps DEF Turn
<1> QED
  BY <1>1, JobSteps

(* What a written file leaves alone *)
LEMMA Writing ==
  ASSUME files \in Files, NEW f \in Names, NEW content, Write(f, content)
  PROVE  files'[f] = content /\ \A g \in Names \ {f} : files'[g] = files[g]
BY DEF Files, Names, Write
------------------------------------------------------------------------------
(* Recommendations *)

(* The dashboard is stricter than results.v2: the defaults of the two      *)
(* rules meet only where both metrics are there.                           *)
LEMMA DashboardIsStricter ==
  ASSUME NEW m, {"test_pass_rate", "critical_test_failures"} \subseteq DOMAIN m, NEW v
  PROVE  /\ MetricsVerdict(m, v) = "GO" => SummaryVerdict(m, v) = "GO"
         /\ SummaryVerdict(m, v) = "NO-GO" => MetricsVerdict(m, v) = "NO-GO"
BY DEF MetricsVerdict, SummaryVerdict, Value

(* For every set of metrics that holds the pass rate and the critical      *)
(* failures, the three recommendations are ordered: what the report calls  *)
(* GO the dashboard calls GO, and what the dashboard calls GO results.v2   *)
(* does; what results.v2 calls NO-GO the dashboard does, and so does the   *)
(* report (generate-release-report.py, export-assurance-metrics.py and     *)
(* normalize-results-v2.py, each with a rule of its own).                  *)
THEOREM VerdictsOrdered ==
  ASSUME NEW m, \A g \in DOMAIN m : m[g] \in Int,
         {"test_pass_rate", "critical_test_failures"} \subseteq DOMAIN m, NEW v \in BOOLEAN
  PROVE  /\ ReportVerdict(m, v) = "GO" => MetricsVerdict(m, v) = "GO"
         /\ MetricsVerdict(m, v) = "GO" => SummaryVerdict(m, v) = "GO"
         /\ SummaryVerdict(m, v) = "NO-GO" => MetricsVerdict(m, v) = "NO-GO"
         /\ MetricsVerdict(m, v) = "NO-GO" => ReportVerdict(m, v) = "NO-GO"
<1>1. ASSUME ReportVerdict(m, v) = "GO"
      PROVE  MetricsVerdict(m, v) = "GO"
  <2>1. v /\ \A g \in MandatoryGates \cup SoftGates : Holds(m, g)
    BY <1>1 DEF ReportVerdict
  <2>2. m["test_pass_rate"] >= 950 /\ m["critical_test_failures"] <= 0
    BY <2>1 DEF Holds, Bound, LowerBounds, MandatoryGates
  <2>3. "high_vulnerabilities" \in DOMAIN m /\ m["high_vulnerabilities"] <= 0
    BY <2>1 DEF Holds, Bound, LowerBounds, MandatoryGates
  <2>4. "medium_vulnerabilities" \in DOMAIN m /\ m["medium_vulnerabilities"] <= 5
    BY <2>1 DEF Holds, Bound, LowerBounds, SoftGates
  <2> QED
    BY <2>1, <2>2, <2>3, <2>4 DEF MetricsVerdict, Value
<1>2. ASSUME MetricsVerdict(m, v) = "NO-GO"
      PROVE  ReportVerdict(m, v) = "NO-GO"
  <2>1. \/ m["test_pass_rate"] < 950 \/ m["critical_test_failures"] > 0 \/ ~v
        \/ "high_vulnerabilities" \in DOMAIN m /\ m["high_vulnerabilities"] > 0
    BY <1>2 DEF MetricsVerdict, Value
  <2>2. ~v \/ \E g \in MandatoryGates : ~Holds(m, g)
    BY <2>1 DEF Holds, Bound, LowerBounds, MandatoryGates
  <2> QED
    BY <2>2 DEF ReportVerdict
<1> QED
  BY <1>1, <1>2, DashboardIsStricter

(* The metrics of a run are two of the ten that are judged. *)
LEMMA MetricsOf ==
  ASSUME NEW o
  PROVE  /\ DOMAIN Metrics(o) = {"test_pass_rate", "critical_test_failures"}
         /\ FailedTests(o) = {} => Metrics(o).critical_test_failures = 0
         /\ Metrics(o).critical_test_failures \in {0, 1}
BY DEF Metrics

(* A pass rate is a number. *)
LEMMA RateType ==
  ASSUME NEW o
  PROVE  Rate(o) \in Int
<1> DEFINE P == {t \in Tests : o[t] = "pass"}
<1>1. Cardinality(P) \in Nat /\ Cardinality(Tests) \in Nat
  BY ReadoutAssumption, FS_Subset, FS_CardinalityType
<1>2. Cardinality(Tests) # 0
  BY ReadoutAssumption, FS_EmptySet
<1>3. Rate(o) = (1000 * Cardinality(P)) \div Cardinality(Tests)
  BY DEF Rate
<1> HIDE DEF P
<1> QED
  BY <1>1, <1>2, <1>3

(* Whatever a run of run-assurance.sh finds, its release report says       *)
(* NO-GO: the high vulnerabilities and the latency that the report asks    *)
(* for are not among the metrics the run writes, and count as infinite.    *)
THEOREM PipelineReportsNeverGo ==
  ASSUME NEW o, NEW v \in BOOLEAN
  PROVE  ReportVerdict(Metrics(o), v) = "NO-GO"
<1>1. "high_vulnerabilities" \in MandatoryGates /\ ~Holds(Metrics(o), "high_vulnerabilities")
  BY MetricsOf DEF MandatoryGates, Holds, LowerBounds
<1> QED
  BY <1>1 DEF ReportVerdict
------------------------------------------------------------------------------
(* Types *)

(* A file of a right type among files of the right types *)
LEMMA FilesType ==
  ASSUME files \in Files,
         \/ \E x \in 1..MaxRuns : Write("results", x)
         \/ \E x \in Flaky : Write("flaky", x)
         \/ \E x \in Audits : Write("audit", x)
         \/ \E x \in Decisions : Write("decision", x)
         \/ \E x \in Reports : Write("report", x)
         \/ \E x \in Summaries : Write("v2", x)
         \/ \E x \in Comments : Write("comment", x)
         \/ \E x \in Gauges : Write("prom", x)
         \/ \E x \in Explained : Write("explained", x)
         \/ \E x \in Steps : Write("steps", x)
  PROVE  files' \in Files
BY DEF Files, Write

(* A checkout may be empty. *)
LEMMA NoFilesType == NoFiles \in Files
BY DEF NoFiles, Files, Names

(* What a script reads has its type. *)
LEMMA ReadType ==
  ASSUME TypeOK
  PROVE  /\ files.results # None => files.results \in 1..MaxRuns /\ files.results \in Runs
         /\ Current \in Runs
         /\ RunOf(files.flaky) \in Runs /\ RunOf(files.audit) \in Runs
         /\ RunOf(files.decision) \in Runs
         /\ files.decision # None => files.decision \in Decisions
         /\ Passed(files.decision) \in BOOLEAN
<1>1. MaxRuns \in Nat
  BY ReadoutAssumption
<1>2. /\ files.results \in (1..MaxRuns) \cup {None} /\ files.flaky \in Flaky \cup {None}
      /\ files.audit \in Audits \cup {None} /\ files.decision \in Decisions \cup {None}
  BY DEF TypeOK, Files
<1> QED
  BY <1>1, <1>2 DEF Runs, Current, RunOf, Passed, Flaky, Audits, Decisions

(* So has what it writes. *)
LEMMA ReadoutType ==
  ASSUME TypeOK, files.results # None
  PROVE  ReportText \in Reports /\ Summary \in Summaries /\ GaugesNow \in Gauges
<1>1. files.results \in Runs /\ RunOf(files.flaky) \in Runs /\ RunOf(files.audit) \in Runs
      /\ RunOf(files.decision) \in Runs
  BY ReadType
<1>2. ReportText \in Reports
  BY <1>1 DEF ReportText, Reports, ReportVerdict, Verdicts
<1>3. Summary \in Summaries
  BY <1>1 DEF Summary, Summaries, SummaryVerdict, Verdicts
<1>4. MetricsVerdict(Metrics(Outcome), Validated(Outcome)) \in Verdicts
  BY DEF MetricsVerdict, Verdicts
<1>5. ShownExceptions \in SUBSET Mandatory
  BY DEF ShownExceptions, TypeOK, Files, Audits, Decisions
<1>6. ShownFlaky \in Runs /\ ShownControls \in Runs
  BY ReadoutAssumption
  DEF ShownFlaky, ShownControls, TypeOK, Files, Flaky, Decisions, Summaries, RunOf, Runs
<1>7. ShownCritical \in {0, 1}
  BY MetricsOf DEF ShownCritical
<1>8. Passed(files.decision) \in BOOLEAN
  BY ReadType
<1>9. GaugesNow \in Gauges
  BY <1>1, <1>4, <1>5, <1>6, <1>7, <1>8 DEF GaugesNow, Gauges
<1> QED
  BY <1>2, <1>3, <1>9

(* Failures are explained with a severity. *)
LEMMA CausesType ==
  ASSUME TypeOK
  PROVE  CausesNow \subseteq Causes /\ Cause(Gate) \in Causes /\ Urgent(Cause(Gate))
<1>1. \A d \in DOMAIN Remediation : Remediation[d] \in Levels
  BY ReadoutAssumption
<1>2. \A id : SeverityOf(id) \in Levels
  BY <1>1 DEF SeverityOf, Levels
<1>3. \A t \in Tests \cup {Gate} : Cause(t) \in Causes
  BY <1>2 DEF Cause, Causes
<1>4. SeverityOf(Gate) \in {"critical", "high"}
  BY GateIsUrgent DEF SeverityOf
<1> QED
  BY <1>3, <1>4 DEF CausesNow, FailedTests, Urgent, Cause

(* A command takes the checkout or the job to its next step. *)
LEMMA StepType ==
  ASSUME TypeOK, NEW c, Turn(c), step' = step + 1, UNCHANGED workflow
  PROVE  step' \in 1..(IF workflow' = "make" THEN MaxCommands + 1 ELSE Stopped)
<1>1. CASE workflow = "make"
  BY <1>1, ReadoutAssumption DEF TypeOK, Turn
<1>2. CASE workflow = "ci"
  BY <1>2, TurnAt, JobSteps
<1> QED
  BY <1>1, <1>2 DEF TypeOK

(* Every variable keeps its type in every step. *)
LEMMA TypeStep ==
  ASSUME TypeOK, [Next]_vars
  PROVE  TypeOK'
<1> USE DEF Elsewhere, Done
<1>1. files \in Files /\ waivers \subseteq Mandatory /\ found \in Seq(Outcomes)
  BY DEF TypeOK
<1>2. CASE Assure
  <2>1. PICK o \in Outcomes : found' = Append(found, o)
    BY <1>2 DEF Assure
  <2>2. found' \in Seq(Outcomes) /\ Len(found') = Len(found) + 1 /\ Len(found') \in 1..MaxRuns
    BY <1>1, <1>2, <2>1, ReadoutAssumption DEF Assure
  <2>3. files' \in Files
    BY <1>1, <1>2, <2>2, FilesType DEF Assure
  <2>4. step' \in 1..(IF workflow' = "make" THEN MaxCommands + 1 ELSE Stopped)
    BY <1>2, StepType DEF Assure
  <2> QED
    BY <1>2, <2>2, <2>3, <2>4 DEF Assure, TypeOK
<1>3. CASE EvaluateFlaky
  <2>1. [run |-> Current, allowed |-> FlakyAllowed(Recent(Observed))] \in Flaky
    BY ReadType DEF Flaky, FlakyAllowed
  <2>2. files' \in Files
    BY <1>1, <1>3, <2>1, FilesType DEF EvaluateFlaky
  <2>4. step' \in 1..(IF workflow' = "make" THEN MaxCommands + 1 ELSE Stopped)
    BY <1>3, StepType DEF EvaluateFlaky
  <2> QED
    BY <1>3, <2>2, <2>4 DEF EvaluateFlaky, TypeOK
<1>4. CASE ValidateExceptions
  <2>1. [run |-> files.results, active |-> waivers] \in Audits
    BY <1>1, <1>4, ReadType DEF Audits, ValidateExceptions
  <2>2. files' \in Files
    BY <1>1, <1>4, <2>1, FilesType DEF ValidateExceptions
  <2>4. step' \in 1..(IF workflow' = "make" THEN MaxCommands + 1 ELSE Stopped)
    BY <1>4, StepType DEF ValidateExceptions
  <2> QED
    BY <1>4, <2>2, <2>4 DEF ValidateExceptions, TypeOK
<1>5. CASE EvaluatePromotion
  <2>1. [run |-> files.results, failures |-> GateFailures(Outcome), used |-> waivers,
         flaky |-> files.flaky] \in Decisions
    BY <1>1, <1>5, ReadType DEF Decisions, EvaluatePromotion, GateFailures, Files
  <2>2. files' \in Files
    BY <1>1, <1>5, <2>1, FilesType DEF EvaluatePromotion
  <2>3. CASE step' = step + 1
    BY <1>5, <2>2, <2>3, StepType DEF EvaluatePromotion, TypeOK
  <2>4. CASE workflow = "ci" /\ step' \in {step + 2, Stopped}
    <3>1. step = 9
      BY <1>5, <2>4, TurnAt DEF EvaluatePromotion
    <3> QED
      BY <1>5, <2>2, <2>4, <3>1, JobSteps DEF EvaluatePromotion, TypeOK
  <2> QED
    BY <1>5, <2>3, <2>4 DEF EvaluatePromotion, TypeOK
<1>6. CASE MakeReport
  <2>1. files' \in Files
    BY <1>1, <1>6, ReadoutType, FilesType DEF MakeReport
  <2>4. step' \in 1..(IF workflow' = "make" THEN MaxCommands + 1 ELSE Stopped)
    BY <1>6, StepType DEF MakeReport
  <2> QED
    BY <1>6, <2>1, <2>4 DEF MakeReport, TypeOK
<1>7. CASE Normalize
  <2>1. files' \in Files
    BY <1>1, <1>7, ReadoutType, FilesType DEF Normalize
  <2>4. step' \in 1..(IF workflow' = "make" THEN MaxCommands + 1 ELSE Stopped)
    BY <1>7, StepType DEF Normalize
  <2> QED
    BY <1>7, <2>1, <2>4 DEF Normalize, TypeOK
<1>8. CASE RenderComment
  <2>1. CommentText \in Comments
    BY ReadType DEF CommentText, Comments, Decisions
  <2>2. files' \in Files
    BY <1>1, <1>8, <2>1, FilesType DEF RenderComment
  <2>4. step' \in 1..(IF workflow' = "make" THEN MaxCommands + 1 ELSE Stopped)
    BY <1>8, StepType DEF RenderComment
  <2> QED
    BY <1>8, <2>2, <2>4 DEF RenderComment, TypeOK
<1>9. CASE ExportMetrics
  <2>1. files' \in Files
    BY <1>1, <1>9, ReadoutType, FilesType DEF ExportMetrics
  <2>4. step' \in 1..(IF workflow' = "make" THEN MaxCommands + 1 ELSE Stopped)
    BY <1>9, StepType DEF ExportMetrics
  <2> QED
    BY <1>9, <2>1, <2>4 DEF ExportMetrics, TypeOK
<1>10. CASE ExplainFailures
  <2>1. [decided |-> RunOf(files.decision), passed |-> Passed(files.decision),
         causes |-> CausesNow] \in Explained
    BY ReadType, CausesType DEF Explained
  <2>2. files' \in Files
    BY <1>1, <1>10, <2>1, FilesType DEF ExplainFailures
  <2>4. step' \in 1..(IF workflow' = "make" THEN MaxCommands + 1 ELSE Stopped)
    BY <1>10, StepType DEF ExplainFailures
  <2> QED
    BY <1>10, <2>2, <2>4 DEF ExplainFailures, TypeOK
<1>11. CASE SuggestNextSteps
  <2>1. files.explained \in Explained
    BY <1>1, <1>11 DEF SuggestNextSteps, Files
  <2>2. \E x \in Steps : Write("steps", x)
    BY <1>11, <2>1 DEF SuggestNextSteps, Explained, Steps
  <2>3. files' \in Files
    BY <1>1, <2>2, FilesType
  <2>4. step' \in 1..(IF workflow' = "make" THEN MaxCommands + 1 ELSE Stopped)
    BY <1>11, StepType DEF SuggestNextSteps
  <2> QED
    BY <1>11, <2>3, <2>4 DEF SuggestNextSteps, TypeOK
<1>12. CASE Clean
  <2>1. step' \in 1..(IF workflow' = "make" THEN MaxCommands + 1 ELSE Stopped)
    BY <1>12, StepType DEF Clean
  <2> QED
    BY <1>1, <1>12, NoFilesType, <2>1 DEF Clean, TypeOK
<1>13. CASE ChangeExceptions
  <2>1. step' \in 1..(IF workflow' = "make" THEN MaxCommands + 1 ELSE Stopped)
    BY <1>13, StepType DEF ChangeExceptions
  <2> QED
    BY <1>1, <1>13, <2>1 DEF ChangeExceptions, TypeOK
<1>14. CASE Upload
  <2>1. step' \in 1..(IF workflow' = "make" THEN MaxCommands + 1 ELSE Stopped)
    BY <1>14, StepType DEF Upload
  <2>2. Uploaded \in Files
    BY DEF Uploaded, TypeOK, Files
  <2> QED
    BY <1>1, <1>14, <2>1, <2>2 DEF Upload, TypeOK
<1>15. CASE UNCHANGED vars
  BY <1>15 DEF vars, TypeOK
<1> QED
  BY <1>2, <1>3, <1>4, <1>5, <1>6, <1>7, <1>8, <1>9, <1>10, <1>11, <1>12, <1>13, <1>14, <1>15
  DEF Next
------------------------------------------------------------------------------
(* What the files say *)

(* Runs never lose what they have found. *)
LEMMA FoundStays ==
  ASSUME TypeOK, [Next]_vars
  PROVE  /\ Len(found) \in Nat /\ Len(found') >= Len(found) /\ Len(found') \in Nat
         /\ \A r \in 1..Len(found) : r \in 1..Len(found') /\ found'[r] = found[r]
<1>1. CASE UNCHANGED found
  BY <1>1 DEF TypeOK
<1>2. CASE Assure
  BY <1>2 DEF Assure, TypeOK
<1> QED
  BY <1>1, <1>2 DEF Next, vars, EvaluateFlaky, ValidateExceptions, EvaluatePromotion, MakeReport,
    Normalize, RenderComment, ExportMetrics, ExplainFailures, SuggestNextSteps, Clean,
    ChangeExceptions, Upload

(* What a step may make of each of the files whose runs are known *)
LEMMA FileSteps ==
  ASSUME TypeOK, [Next]_vars
  PROVE  /\ \/ files'.results \in {files.results, None}
            \/ files'.results = Len(found') /\ Len(found') = Len(found) + 1
         /\ \/ files'.v2 \in {files.v2, None}
            \/ files.results # None /\ files'.v2 = Summary
         /\ \/ files'.prom \in {files.prom, None}
            \/ files.results # None /\ files'.prom = GaugesNow
         /\ \/ files'.report \in {files.report, None}
            \/ files.results # None /\ files'.report = ReportText
         /\ \/ files'.decision \in {files.decision, None}
            \/ /\ files.results # None
               /\ files'.decision = [run |-> files.results, failures |-> GateFailures(Outcome),
                                     used |-> waivers, flaky |-> files.flaky]
         /\ files'.comment \in {files.comment, None} \/ files'.comment = CommentText
         /\ \/ files'.explained \in {files.explained, None}
            \/ files'.explained = [decided |-> RunOf(files.decision),
                                   passed |-> Passed(files.decision), causes |-> CausesNow]
         /\ \/ files'.steps \in {files.steps, None}
            \/ /\ files.explained # None
               /\ files'.steps.decided = files.explained.decided
               /\ files'.steps.passed = files.explained.passed
               /\ files'.steps.must = {c \in files.explained.causes : Urgent(c)}
<1>1. files \in Files
  BY DEF TypeOK
<1> USE DEF Names
<1>2. CASE Assure
  <2>1. Len(found') = Len(found) + 1
    BY <1>2 DEF Assure, TypeOK
  <2> QED
    BY <1>1, <1>2, <2>1, Writing DEF Assure
<1>3. CASE EvaluateFlaky
  BY <1>1, <1>3, Writing DEF EvaluateFlaky
<1>4. CASE ValidateExceptions
  BY <1>1, <1>4, Writing DEF ValidateExceptions
<1>5. CASE EvaluatePromotion
  BY <1>1, <1>5, Writing DEF EvaluatePromotion
<1>6. CASE MakeReport
  BY <1>1, <1>6, Writing DEF MakeReport
<1>7. CASE Normalize
  BY <1>1, <1>7, Writing DEF Normalize
<1>8. CASE RenderComment
  BY <1>1, <1>8, Writing DEF RenderComment
<1>9. CASE ExportMetrics
  BY <1>1, <1>9, Writing DEF ExportMetrics
<1>10. CASE ExplainFailures
  BY <1>1, <1>10, Writing DEF ExplainFailures
<1>11. CASE SuggestNextSteps
  BY <1>1, <1>11, Writing DEF SuggestNextSteps
<1>12. CASE Clean
  BY <1>12 DEF Clean, NoFiles
<1>13. CASE UNCHANGED files
  BY <1>13
<1> QED
  BY <1>2, <1>3, <1>4, <1>5, <1>6, <1>7, <1>8, <1>9, <1>10, <1>11, <1>12, <1>13
  DEF Next, ChangeExceptions, Upload, vars

(* The run a file takes its contents from is known. *)
LEMMA RunsStep ==
  ASSUME TypeOK, RunsKnown, [Next]_vars
  PROVE  RunsKnown'
<1>1. /\ Len(found) \in Nat /\ Len(found') >= Len(found) /\ Len(found') \in Nat
      /\ \A r \in 1..Len(found) : r \in 1..Len(found')
  BY FoundStays
<1>2. files'.results # None => files'.results \in 1..Len(found')
  BY <1>1, FileSteps DEF RunsKnown
<1>3. files'.v2 # None => files'.v2.run \in 1..Len(found')
  BY <1>1, FileSteps DEF RunsKnown, Summary
<1>4. files'.prom # None => files'.prom.run \in 1..Len(found')
  BY <1>1, FileSteps DEF RunsKnown, GaugesNow
<1>5. files'.decision # None => files'.decision.run \in 1..Len(found')
  BY <1>1, FileSteps DEF RunsKnown
<1>6. files'.comment # None /\ files'.comment.go => files'.comment.decided \in 1..Len(found')
  <2>1. CASE files'.comment \in {files.comment, None}
    BY <1>1, <2>1 DEF RunsKnown
  <2>2. CASE files'.comment = CommentText
    <3>1. files'.comment.go => Passed(files.decision)
      BY <2>2 DEF CommentText
    <3>2. files'.comment.decided = RunOf(files.decision)
      BY <2>2 DEF CommentText
    <3> QED
      BY <1>1, <3>1, <3>2 DEF RunsKnown, Passed, RunOf
  <2> QED
    BY <2>1, <2>2, FileSteps
<1>7. files'.report # None => files'.report.run \in 1..Len(found')
  BY <1>1, FileSteps DEF RunsKnown, ReportText
<1> QED
  BY <1>2, <1>3, <1>4, <1>5, <1>6, <1>7 DEF RunsKnown

(* A verdict stays that of its run. *)
LEMMA VerdictsStep ==
  ASSUME TypeOK, RunsKnown, VerdictsStand, [Next]_vars
  PROVE  VerdictsStand'
<1>1. \A r \in 1..Len(found) : found'[r] = found[r]
  BY FoundStays
<1>2. files'.v2 # None =>
        files'.v2.verdict = SummaryVerdict(Metrics(found'[files'.v2.run]),
                                           Validated(found'[files'.v2.run]))
  <2>1. CASE files'.v2 \in {files.v2, None}
    BY <1>1, <2>1 DEF RunsKnown, VerdictsStand
  <2>2. CASE files.results # None /\ files'.v2 = Summary
    BY <1>1, <2>2 DEF RunsKnown, Summary, Outcome
  <2> QED
    BY <2>1, <2>2, FileSteps
<1>3. files'.prom # None =>
        files'.prom.verdict = MetricsVerdict(Metrics(found'[files'.prom.run]),
                                             Validated(found'[files'.prom.run]))
  <2>1. CASE files'.prom \in {files.prom, None}
    BY <1>1, <2>1 DEF RunsKnown, VerdictsStand
  <2>2. CASE files.results # None /\ files'.prom = GaugesNow
    BY <1>1, <2>2 DEF RunsKnown, GaugesNow, Outcome
  <2> QED
    BY <2>1, <2>2, FileSteps
<1>4. files'.report # None =>
        files'.report.verdict = ReportVerdict(Metrics(found'[files'.report.run]),
                                              Validated(found'[files'.report.run]))
  <2>1. CASE files'.report \in {files.report, None}
    BY <1>1, <2>1 DEF RunsKnown, VerdictsStand
  <2>2. CASE files.results # None /\ files'.report = ReportText
    BY <1>1, <2>2 DEF RunsKnown, ReportText, Outcome
  <2> QED
    BY <2>1, <2>2, FileSteps
<1> QED
  BY <1>2, <1>3, <1>4 DEF VerdictsStand

(* A gate that passes has found nothing wrong. *)
LEMMA PassedIsDeserved ==
  ASSUME NEW o, GateFailures(o) = {}
  PROVE  Deserved(o, waivers)
<1>1. ~(Rate(o) < MinRate) /\ FailedTests(o) = {} /\ (Validation => Validated(o) \/ waivers # {})
  BY DEF GateFailures, Failures
<1>2. Rate(o) \in Int /\ MinRate \in Int
  BY RateType, ReadoutAssumption
<1> QED
  BY <1>1, <1>2 DEF Deserved

(* A GO stays deserved. *)
LEMMA GoesStep ==
  ASSUME TypeOK, RunsKnown, GoesAreDeserved, [Next]_vars
  PROVE  GoesAreDeserved'
<1>1. \A r \in 1..Len(found) : found'[r] = found[r]
  BY FoundStays
<1>2. Passed(files'.decision) =>
        Deserved(found'[files'.decision.run], files'.decision.used)
  <2>1. CASE files'.decision \in {files.decision, None}
    BY <1>1, <2>1 DEF RunsKnown, GoesAreDeserved, Passed
  <2>2. CASE /\ files.results # None
             /\ files'.decision = [run |-> files.results, failures |-> GateFailures(Outcome),
                                   used |-> waivers, flaky |-> files.flaky]
    <3>1. found'[files'.decision.run] = Outcome /\ files'.decision.used = waivers
      BY <1>1, <2>2 DEF RunsKnown, Outcome
    <3>2. Passed(files'.decision) => GateFailures(Outcome) = {}
      BY <2>2 DEF Passed
    <3> QED
      BY <3>1, <3>2, PassedIsDeserved
  <2> QED
    BY <2>1, <2>2, FileSteps
<1>3. files'.comment # None /\ files'.comment.go =>
        Deserved(found'[files'.comment.decided], files'.comment.used)
  <2>1. CASE files'.comment \in {files.comment, None}
    BY <1>1, <2>1 DEF RunsKnown, GoesAreDeserved
  <2>2. CASE files'.comment = CommentText
    <3>1. ASSUME files'.comment.go
          PROVE  /\ files'.comment.decided = files.decision.run
                 /\ files'.comment.used = files.decision.used
                 /\ Passed(files.decision) /\ files.decision # None
      <4>1. Passed(files.decision)
        BY <2>2, <3>1 DEF CommentText
      <4>2. files.decision # None
        BY <4>1 DEF Passed
      <4> QED
        BY <2>2, <4>1, <4>2 DEF CommentText, RunOf
    <3> QED
      BY <1>1, <3>1 DEF RunsKnown, GoesAreDeserved
  <2> QED
    BY <2>1, <2>2, FileSteps
<1> QED
  BY <1>2, <1>3 DEF GoesAreDeserved, Deserved, Validated, Rate

(* A failure stays urgent. *)
LEMMA UrgentStep ==
  ASSUME TypeOK, FailuresAreUrgent, [Next]_vars
  PROVE  FailuresAreUrgent'
<1>1. files'.explained # None /\ files'.explained.decided > 0 /\ ~files'.explained.passed =>
        \E c \in files'.explained.causes : Urgent(c)
  <2>1. CASE files'.explained \in {files.explained, None}
    BY <2>1 DEF FailuresAreUrgent
  <2>2. CASE files'.explained = [decided |-> RunOf(files.decision),
                                 passed |-> Passed(files.decision), causes |-> CausesNow]
    <3>1. ASSUME files'.explained.decided > 0, ~files'.explained.passed
          PROVE  Cause(Gate) \in files'.explained.causes
      BY <2>2, <3>1 DEF CausesNow, RunOf
    <3> QED
      BY <3>1, CausesType
  <2> QED
    BY <2>1, <2>2, FileSteps
<1>2. files'.steps # None /\ files'.steps.must = {} /\ files'.steps.decided > 0 =>
        files'.steps.passed
  <2>1. CASE files'.steps \in {files.steps, None}
    BY <2>1 DEF FailuresAreUrgent, NothingToFixMeansPassed
  <2>2. CASE /\ files.explained # None
             /\ files'.steps.decided = files.explained.decided
             /\ files'.steps.passed = files.explained.passed
             /\ files'.steps.must = {c \in files.explained.causes : Urgent(c)}
    BY <2>2 DEF FailuresAreUrgent
  <2> QED
    BY <2>1, <2>2, FileSteps
<1> QED
  BY <1>1, <1>2 DEF FailuresAreUrgent, NothingToFixMeansPassed, Urgent
------------------------------------------------------------------------------
(* What a job has behind it *)

(* Each command of a job adds its file to those the job has made. *)
LEMMA JobStep ==
  ASSUME TypeOK, RunsKnown, JobHolds, [Next]_vars
  PROVE  JobHolds'
<1> SUFFICES ASSUME workflow' = "ci"
             PROVE  JobHolds'
  BY DEF JobHolds
<1>1. workflow = "ci" /\ enforce' = enforce
  BY DEF Next, vars, Elsewhere, Assure, EvaluateFlaky, ValidateExceptions, EvaluatePromotion,
    MakeReport, Normalize, RenderComment, ExportMetrics, ExplainFailures, SuggestNextSteps,
    Clean, ChangeExceptions, Upload
<1>2. files \in Files
  BY DEF TypeOK
<1> USE DEF Names, Done
<1>3. CASE Assure
  <2>1. step = 1 /\ step' = 2
    BY <1>1, <1>3, TurnAt DEF Assure
  <2>2. files'.results # None
    <3>1. files'.results = Len(found') /\ Len(found') \in 1..MaxRuns
      BY <1>2, <1>3, Writing, ReadoutAssumption DEF Assure, TypeOK
    <3> QED
      BY <3>1, NoneAssumption
  <2> QED
    BY <2>1, <2>2 DEF JobHolds
<1>4. CASE EvaluateFlaky
  <2>1. step \in {3, 8} /\ step' = step + 1
    BY <1>1, <1>4, TurnAt DEF EvaluateFlaky
  <2>2. /\ files.results # None /\ Current = files.results
        /\ step = 8 => RunOf(files.audit) = files.results
    BY <1>1, <2>1 DEF JobHolds, Current
  <2>3. /\ files'.results = files.results /\ files'.audit = files.audit
        /\ files'.flaky = [run |-> Current, allowed |-> FlakyAllowed(Recent(Observed))]
    BY <1>2, <1>4, Writing DEF EvaluateFlaky
  <2>4. files'.flaky # None
    <3>1. [run |-> Current, allowed |-> FlakyAllowed(Recent(Observed))] \in Flaky
      BY ReadType DEF Flaky, FlakyAllowed
    <3> QED
      BY <2>3, <3>1, NoneAssumption
  <2> QED
    BY <2>1, <2>2, <2>3, <2>4 DEF JobHolds, RunOf
<1>5. CASE ValidateExceptions
  <2>1. step = 7 /\ step' = 8
    BY <1>1, <1>5, TurnAt DEF ValidateExceptions
  <2>2. /\ files'.results = files.results /\ files'.flaky = files.flaky
        /\ files'.audit = [run |-> files.results, active |-> waivers]
    BY <1>2, <1>5, Writing DEF ValidateExceptions
  <2>3. files'.audit # None
    BY <1>5, <2>2, ReadType, NoneAssumption DEF ValidateExceptions, TypeOK, Audits
  <2> QED
    BY <1>1, <2>1, <2>2, <2>3 DEF JobHolds, RunOf
<1>6. CASE EvaluatePromotion
  <2>1. step = 9
    BY <1>1, <1>6, TurnAt DEF EvaluatePromotion
  <2>2. step' = IF GateFailures(Outcome) = {} THEN 10 ELSE IF enforce THEN 14 ELSE 11
    BY <1>1, <1>6, <2>1, JobSteps DEF EvaluatePromotion
  <2>3. /\ files'.results = files.results /\ files'.flaky = files.flaky
        /\ files'.audit = files.audit
        /\ files'.decision = [run |-> files.results, failures |-> GateFailures(Outcome),
                              used |-> waivers, flaky |-> files.flaky]
    BY <1>2, <1>6, Writing DEF EvaluatePromotion
  <2>4. files'.decision # None
    <3>1. files'.decision \in Decisions
      BY <1>2, <1>6, <2>3, ReadType DEF Decisions, EvaluatePromotion, GateFailures, Files, TypeOK
    <3> QED
      BY <3>1, NoneAssumption
  <2>5. files'.decision.run = files'.results /\ (enforce' /\ step' # 14 => Passed(files'.decision))
    BY <1>1, <2>2, <2>3, <2>4 DEF Passed
  <2> QED
    BY <1>1, <2>1, <2>2, <2>3, <2>4, <2>5 DEF JobHolds
<1>7. CASE MakeReport
  <2>1. step = 5 /\ step' = 6
    BY <1>1, <1>7, TurnAt DEF MakeReport
  <2>2. files'.results = files.results /\ files'.flaky = files.flaky
    BY <1>2, <1>7, Writing DEF MakeReport
  <2> QED
    BY <1>1, <2>1, <2>2 DEF JobHolds
<1>8. CASE Normalize
  <2>1. step \in {4, 11} /\ step' = step + 1
    BY <1>1, <1>8, TurnAt DEF Normalize
  <2>2. /\ files'.results = files.results /\ files'.flaky = files.flaky
        /\ files'.audit = files.audit /\ files'.decision = files.decision
        /\ files'.v2 = Summary
    BY <1>2, <1>8, Writing DEF Normalize
  <2>3. files'.v2 # None
    BY <1>8, <2>2, ReadoutType, NoneAssumption DEF Normalize
  <2>4. CASE step = 4
    BY <1>1, <2>1, <2>2, <2>4 DEF JobHolds
  <2>5. CASE step = 11
    <3>1. /\ files.results # None /\ RunOf(files.flaky) = files.results
          /\ RunOf(files.audit) = files.results /\ files.decision # None
          /\ files.decision.run = files.results /\ (enforce => Passed(files.decision))
      BY <1>1, <2>5 DEF JobHolds
    <3>2. /\ files'.v2.run = files.results /\ files'.v2.decided = files.results
          /\ files'.v2.flaky = files.results /\ files'.v2.audited = files.results
      BY <2>2, <3>1 DEF Summary, RunOf
    <3> QED
      BY <1>1, <2>1, <2>2, <2>3, <2>5, <3>1, <3>2 DEF JobHolds
  <2> QED
    BY <2>1, <2>4, <2>5
<1>9. CASE RenderComment
  <2>1. step = 12 /\ step' = 13
    BY <1>1, <1>9, TurnAt DEF RenderComment
  <2>2. /\ \A g \in {"results", "flaky", "audit", "decision", "v2"} : files'[g] = files[g]
        /\ files'.comment = CommentText
    BY <1>2, <1>9, Writing DEF RenderComment
  <2>3. /\ files'.comment.decided = RunOf(files.decision)
        /\ files'.comment.go <=> Passed(files.decision)
    BY <2>2 DEF CommentText
  <2>4. CommentText \in Comments
    BY ReadType DEF CommentText, Comments, Decisions
  <2>5. files'.comment # None
    BY <2>2, <2>4, NoneAssumption
  <2>6. files.decision # None /\ files.decision.run = files.results
    BY <1>1, <2>1 DEF JobHolds
  <2>7. files'.comment.decided = files'.results
    BY <2>2, <2>3, <2>6 DEF RunOf
  <2> QED
    BY <1>1, <2>1, <2>2, <2>3, <2>5, <2>7 DEF JobHolds
<1>10. CASE ExportMetrics
  <2>1. step \in {2, 6, 10} /\ step' = step + 1
    BY <1>1, <1>10, TurnAt DEF ExportMetrics
  <2>2. \A g \in {"results", "flaky", "audit", "decision", "v2"} : files'[g] = files[g]
    BY <1>2, <1>10, Writing DEF ExportMetrics
  <2> QED
    BY <1>1, <2>1, <2>2 DEF JobHolds
<1>11. CASE ChangeExceptions \/ ExplainFailures \/ SuggestNextSteps \/ Clean
  BY <1>1, <1>11 DEF ChangeExceptions, ExplainFailures, SuggestNextSteps, Clean
<1>12. CASE Upload
  <2>1. step = 13 /\ step' = 14
    BY <1>1, <1>12, TurnAt DEF Upload
  <2> QED
    BY <2>1 DEF JobHolds
<1>13. CASE UNCHANGED vars
  BY <1>13 DEF vars, JobHolds
<1> QED
  BY <1>3, <1>4, <1>5, <1>6, <1>7, <1>8, <1>9, <1>10, <1>11, <1>12, <1>13 DEF Next

(* The comment of a job is about the run of its decision. *)
LEMMA CommentStep ==
  ASSUME TypeOK, JobHolds, CommentIsOfJob, [Next]_vars
  PROVE  CommentIsOfJob'
<1>1. workflow' = workflow
  BY DEF Next, vars, Elsewhere, Assure, EvaluateFlaky, ValidateExceptions, EvaluatePromotion,
    MakeReport, Normalize, RenderComment, ExportMetrics, ExplainFailures, SuggestNextSteps,
    Clean, ChangeExceptions, Upload
<1>2. files \in Files
  BY DEF TypeOK
<1> USE DEF Names
<1>3. CASE files'.comment \in {files.comment, None}
  BY <1>1, <1>3 DEF CommentIsOfJob
<1>4. CASE RenderComment
  <2>1. files'.comment = CommentText
    BY <1>2, <1>4, Writing DEF RenderComment
  <2>2. ASSUME workflow = "ci"
        PROVE  RunOf(files.decision) = Current
    <3>1. step = 12
      BY <1>4, <2>2, TurnAt DEF RenderComment
    <3> QED
      BY <2>2, <3>1 DEF JobHolds, RunOf, Current
  <2> QED
    BY <1>1, <2>1, <2>2 DEF CommentIsOfJob, CommentText
<1>5. \/ RenderComment \/ Clean \/ UNCHANGED files
      \/ \E f \in Names \ {"comment"} : \E c : Write(f, c)
  BY DEF Next, vars, Assure, EvaluateFlaky, ValidateExceptions, EvaluatePromotion, MakeReport,
    Normalize, ExportMetrics, ExplainFailures, SuggestNextSteps, ChangeExceptions, Upload
<1>6. CASE \E f \in Names \ {"comment"} : \E c : Write(f, c)
  BY <1>2, <1>3, <1>6, Writing
<1>7. CASE Clean
  BY <1>3, <1>7 DEF Clean, NoFiles
<1> QED
  BY <1>3, <1>4, <1>5, <1>6, <1>7

(* An artifact is published whole. *)
LEMMA PublishedStep ==
  ASSUME TypeOK, RunsKnown, JobHolds, PublishedIsComplete, [Next]_vars
  PROVE  PublishedIsComplete'
<1>1. CASE Upload
  <2>1. workflow = "ci" /\ step = 13 /\ published' = Uploaded /\ enforce' = enforce
    BY <1>1, TurnAt DEF Upload
  <2>2. \A f \in {"results", "decision", "v2"} : published'[f] = files[f]
    BY <2>1 DEF Uploaded, TypeOK, Files
  <2> QED
    BY <2>1, <2>2 DEF JobHolds, PublishedIsComplete, RunOf, Passed
<1>2. CASE published' = published /\ enforce' = enforce
  BY <1>2 DEF PublishedIsComplete
<1> QED
  BY <1>1, <1>2 DEF Next, vars, Elsewhere, Assure, EvaluateFlaky, ValidateExceptions,
    EvaluatePromotion, MakeReport, Normalize, RenderComment, ExportMetrics, ExplainFailures,
    SuggestNextSteps, Clean, ChangeExceptions
------------------------------------------------------------------------------
(* The flaky policy *)

(* What a run of the history reports *)
Reported == UNION {[D -> Statuses] : D \in SUBSET Tests}

Moved(off, A) == {off + i : i \in A}

(* Moving positions does not change their number. *)
LEMMA ShiftedCount ==
  ASSUME NEW n \in Nat, NEW off \in Nat, NEW A \in SUBSET (1..n)
  PROVE  Cardinality(Moved(off, A)) = Cardinality(A)
<1> DEFINE f == [i \in A |-> off + i]
<1>1. IsFiniteSet(A)
  <2>1. IsFiniteSet(1..n)
    BY FS_Interval
  <2> QED
    BY <2>1, FS_Subset
<1>2. f \in Bijection(A, Moved(off, A))
  BY DEF Bijection, Injection, Surjection, IsInjective, Moved
<1> QED
  BY <1>1, <1>2, FS_Bijection DEF ExistsBijection

(* The last Window runs, by their places in the history *)
LEMMA RecentRuns ==
  ASSUME NEW h \in Seq(Reported)
  PROVE  LET off == Len(h) - Smaller(Len(h), Window) IN
         /\ off \in Nat /\ off <= Len(h)
         /\ \A i \in 1..Len(h) : i > off <=> i > Len(h) - Window
         /\ DOMAIN Recent(h) = 1..(Len(h) - off)
         /\ \A i \in 1..(Len(h) - off) : Recent(h)[i] = h[off + i]
         /\ Recent(h) = <<>> <=> h = <<>>
<1> DEFINE off == Len(h) - Smaller(Len(h), Window)
<1>1. /\ Len(h) \in Nat /\ off \in Nat /\ off <= Len(h)
      /\ \A i \in 1..Len(h) : i > off <=> i > Len(h) - Window
      /\ off = Len(h) <=> Len(h) = 0
  BY ReadoutAssumption DEF Smaller
<1>2. Recent(h) = SubSeq(h, off + 1, Len(h))
  BY DEF Recent
<1>3. /\ Recent(h) = [i \in 1..(Len(h) - off) |-> h[off + i]]
      /\ Len(Recent(h)) = Len(h) - off /\ Recent(h) \in Seq(Reported)
  <2> HIDE DEF off
  <2>1. \A o \in Nat : o <= Len(h) =>
          /\ SubSeq(h, o + 1, Len(h)) = [i \in 1..(Len(h) - o) |-> h[o + i]]
          /\ Len(SubSeq(h, o + 1, Len(h))) = Len(h) - o
          /\ SubSeq(h, o + 1, Len(h)) \in Seq(Reported)
    OBVIOUS
  <2> QED
    BY <1>1, <1>2, <2>1
<1>4. Recent(h) = <<>> <=> h = <<>>
  BY <1>1, <1>3
<1> QED
  BY <1>1, <1>3, <1>4

(* What the reference counts of a test: the places in the whole history *)
InWindow(h, t) == {i \in DOMAIN h : i > Len(h) - Window /\ t \in DOMAIN h[i]}
InWindowAs(h, t, st) == {i \in InWindow(h, t) : h[i][t] = st}

(* The policy counts the same runs by their places in the window. *)
LEMMA SameRuns ==
  ASSUME NEW h \in Seq(Reported), NEW t \in Tests
  PROVE  LET off == Len(h) - Smaller(Len(h), Window)
             r == Recent(h) IN
         /\ InWindow(h, t) = Moved(off, Seen(r, t))
         /\ \A st \in Statuses : InWindowAs(h, t, st) = Moved(off, SeenAs(r, t, st))
         /\ Seen(r, t) \in SUBSET (1..(Len(h) - off))
         /\ \A st \in Statuses : SeenAs(r, t, st) \in SUBSET Seen(r, t)
<1> DEFINE off == Len(h) - Smaller(Len(h), Window)
           n == Len(h) - off
           r == Recent(h)
<1>1. /\ off \in Nat /\ n \in Nat /\ n + off = Len(h)
      /\ \A i \in 1..Len(h) : i > off <=> i > Len(h) - Window
      /\ DOMAIN r = 1..n /\ \A i \in 1..n : r[i] = h[off + i]
  BY RecentRuns
<1>2. DOMAIN h = 1..Len(h)
  OBVIOUS
<1> HIDE DEF off, n, r
<1>3. \A j \in 1..Len(h) : j > off => j - off \in 1..n /\ j = off + (j - off)
  BY <1>1
<1>4. \A i \in 1..n : off + i \in 1..Len(h) /\ off + i > off
  BY <1>1
<1>5. Seen(r, t) = {i \in 1..n : t \in DOMAIN h[off + i]}
  BY <1>1 DEF Seen
<1>6. \A st \in Statuses : SeenAs(r, t, st) = {i \in Seen(r, t) : h[off + i][t] = st}
  BY <1>1, <1>5 DEF SeenAs
<1>7. InWindow(h, t) = {j \in 1..Len(h) : j > off /\ t \in DOMAIN h[j]}
  BY <1>1, <1>2 DEF InWindow
<1>8. InWindow(h, t) = Moved(off, Seen(r, t))
  BY <1>3, <1>4, <1>5, <1>7 DEF Moved
<1>9. \A st \in Statuses : InWindowAs(h, t, st) = Moved(off, SeenAs(r, t, st))
  BY <1>6, <1>8 DEF Moved, InWindowAs
<1>10. Seen(r, t) \in SUBSET (1..n) /\ \A st \in Statuses : SeenAs(r, t, st) \in SUBSET Seen(r, t)
  BY <1>5, <1>6
<1> QED
  BY <1>8, <1>9, <1>10 DEF off, n, r

(* Moving places makes none appear and none vanish. *)
LEMMA MovedIsEmpty ==
  ASSUME NEW off, NEW A
  PROVE  Moved(off, A) # {} <=> A # {}
BY DEF Moved

(* The tests the policy finds flaky are those that are unstable. *)
LEMMA FlakyIsUnstable ==
  ASSUME NEW h \in Seq(Reported)
  PROVE  FlakyTests(Recent(h)) = {t \in Tests : Unstable(h, t)}
<1> DEFINE off == Len(h) - Smaller(Len(h), Window)
           n == Len(h) - off
           r == Recent(h)
<1>1. off \in Nat /\ n \in Nat
  BY RecentRuns
<1>2. ASSUME NEW t \in Tests
      PROVE  /\ InWindow(h, t) = Moved(off, Seen(r, t))
             /\ InWindowAs(h, t, "fail") = Moved(off, SeenAs(r, t, "fail"))
             /\ InWindowAs(h, t, "pass") = Moved(off, SeenAs(r, t, "pass"))
             /\ Seen(r, t) \in SUBSET (1..n) /\ SeenAs(r, t, "fail") \in SUBSET (1..n)
  <2>1. {"fail", "pass"} \subseteq Statuses
    BY DEF Statuses
  <2> QED
    BY <2>1, SameRuns
<1> HIDE DEF off, n, r
<1>3. ASSUME NEW t \in Tests
      PROVE  Unstable(h, t) <=> t \in FlakyTests(r)
  <2>1. /\ Cardinality(InWindow(h, t)) = Cardinality(Seen(r, t))
        /\ Cardinality(InWindowAs(h, t, "fail")) = Cardinality(SeenAs(r, t, "fail"))
    BY <1>1, <1>2, ShiftedCount
  <2>2. /\ InWindowAs(h, t, "fail") # {} <=> SeenAs(r, t, "fail") # {}
        /\ InWindowAs(h, t, "pass") # {} <=> SeenAs(r, t, "pass") # {}
    BY <1>2, MovedIsEmpty
  <2>3. Unstable(h, t) <=>
          /\ Cardinality(InWindow(h, t)) >= MinObservations
          /\ InWindowAs(h, t, "fail") # {} /\ InWindowAs(h, t, "pass") # {}
          /\ 1000 * Cardinality(InWindowAs(h, t, "fail"))
               >= FlakyRate * Cardinality(InWindow(h, t))
    BY DEF Unstable, InWindow, InWindowAs
  <2> QED
    BY <2>1, <2>2, <2>3 DEF FlakyTests
<1> QED
  BY <1>3 DEF r, FlakyTests

(* What the policy judges is a history. *)
LEMMA ObservedType ==
  ASSUME TypeOK, RunsKnown
  PROVE  Observed \in Seq(Reported)
<1>1. history \in Seq(Reported)
  BY ReadoutAssumption DEF TypeOK, Reported
<1>2. CASE files.results = None
  BY <1>1, <1>2 DEF Observed
<1>3. CASE files.results # None
  <2>1. found[files.results] \in Outcomes
    BY <1>3 DEF RunsKnown, TypeOK
  <2>2. found[files.results] \in [Tests -> Statuses]
    BY <2>1, ReadoutAssumption
  <2>3. found[files.results] \in Reported
    BY <2>2 DEF Reported
  <2> QED
    BY <1>1, <1>3, <2>3 DEF Observed
<1> QED
  BY <1>2, <1>3

------------------------------------------------------------------------------
(* Theorems *)

(* Every command preserves what each file says of its run and what a job   *)
(* has behind it, in whatever order a developer takes them.                *)
THEOREM ReadoutInductive == Spec => []IndInv
<1>1. Init => IndInv
  <2> SUFFICES ASSUME Init
               PROVE  IndInv
    OBVIOUS
  <2>1. TypeOK
    BY NoFilesType, ReadoutAssumption DEF Init, TypeOK, Stopped, Job
  <2>2. \A f \in Names : files[f] = None
    BY DEF Init, NoFiles
  <2>3. RunsKnown /\ VerdictsStand /\ GoesAreDeserved /\ FailuresAreUrgent
    BY <2>2
    DEF Names, RunsKnown, VerdictsStand, GoesAreDeserved, FailuresAreUrgent,
      NothingToFixMeansPassed, Passed
  <2>4. JobHolds /\ CommentIsOfJob /\ PublishedIsComplete
    BY <2>2 DEF Names, Init, JobHolds, CommentIsOfJob, PublishedIsComplete
  <2> QED
    BY <2>1, <2>3, <2>4 DEF IndInv
<1>2. IndInv /\ [Next]_vars => IndInv'
  BY TypeStep, RunsStep, VerdictsStep, GoesStep, UrgentStep, JobStep, CommentStep,
    PublishedStep
  DEF IndInv
<1> QED
  BY <1>1, <1>2, PTL DEF Spec

(* How far the recommendations for a run may differ, for any results,      *)
(* exceptions, limits and order of the commands: the report is at least as *)
(* strict as the dashboard and the dashboard as results.v2, and a comment  *)
(* that says GO for a run they reject does so by an exception, without a   *)
(* policy validation, or by the lower pass rate of the environment.        *)
THEOREM ReadoutsOrdered == Spec => []ReadoutsAreOrdered
<1>1. IndInv => ReadoutsAreOrdered
  <2> SUFFICES ASSUME IndInv
               PROVE  ReadoutsAreOrdered
    OBVIOUS
  <2>1. ASSUME NEW o
        PROVE  /\ {"test_pass_rate", "critical_test_failures"} \subseteq DOMAIN Metrics(o)
               /\ \A g \in DOMAIN Metrics(o) : Metrics(o)[g] \in Int
               /\ Metrics(o).test_pass_rate = Rate(o) /\ Validated(o) \in BOOLEAN
    BY MetricsOf, RateType DEF Metrics, Validated
  <2>2. ASSUME NEW o
        PROVE  LET m == Metrics(o)
                   v == Validated(o) IN
               /\ ReportVerdict(m, v) = "GO" =>
                    MetricsVerdict(m, v) = "GO" /\ SummaryVerdict(m, v) = "GO"
               /\ MetricsVerdict(m, v) = "GO" => SummaryVerdict(m, v) = "GO"
               /\ SummaryVerdict(m, v) = "NO-GO" =>
                    MetricsVerdict(m, v) = "NO-GO" /\ ReportVerdict(m, v) = "NO-GO"
               /\ MetricsVerdict(m, v) = "NO-GO" => ReportVerdict(m, v) = "NO-GO"
    BY <2>1, VerdictsOrdered
  <2>3. /\ SameRun(files.report, files.prom) => Stricter(files.report, files.prom)
        /\ SameRun(files.report, files.v2) => Stricter(files.report, files.v2)
        /\ SameRun(files.prom, files.v2) => Stricter(files.prom, files.v2)
    BY <2>2 DEF IndInv, VerdictsStand, SameRun, Stricter
  <2>4. ASSUME files.comment # None, files.comment.go
        PROVE  /\ Deserved(found[files.comment.decided], files.comment.used)
               /\ workflow = "ci" => files.comment.decided = files.comment.run
    BY <2>4 DEF IndInv, GoesAreDeserved, CommentIsOfJob
  <2>5. ASSUME NEW o, Deserved(o, files.comment.used)
        PROVE  /\ SummaryVerdict(Metrics(o), Validated(o)) = "NO-GO" =>
                    ~Validation \/ files.comment.used # {}
               /\ MetricsVerdict(Metrics(o), Validated(o)) = "NO-GO" =>
                    \/ ~Validation \/ files.comment.used # {}
                    \/ Rate(o) >= MinRate /\ Rate(o) < Bound["test_pass_rate"]
    <3>1. Metrics(o).critical_test_failures = 0 /\ Rate(o) >= MinRate
      BY <2>5, MetricsOf DEF Deserved
    <3>2. /\ DOMAIN Metrics(o) = {"test_pass_rate", "critical_test_failures"}
          /\ Metrics(o).test_pass_rate = Rate(o)
      BY <2>1, MetricsOf
    <3>3. SummaryVerdict(Metrics(o), Validated(o)) = "NO-GO" => ~Validated(o)
      BY <3>1, <3>2 DEF SummaryVerdict, Value
    <3>4. MetricsVerdict(Metrics(o), Validated(o)) = "NO-GO" => ~Validated(o) \/ Rate(o) < 950
      BY <3>1, <3>2 DEF MetricsVerdict, Value
    <3> QED
      BY <2>5, <3>1, <3>3, <3>4 DEF Deserved, Bound
  <2>6. ASSUME files.comment # None, files.comment.go
        PROVE  LET run     == files.comment.decided
                   excused == ~Validation \/ files.comment.used # {} IN
               /\ Rejects(files.v2, run) => excused
               /\ Rejects(files.prom, run) =>
                    \/ excused
                    \/ Rate(found[run]) >= MinRate /\ Rate(found[run]) < Bound["test_pass_rate"]
    BY <2>4, <2>5, <2>6 DEF IndInv, VerdictsStand, Rejects
  <2> QED
    BY <2>3, <2>4, <2>6 DEF ReadoutsAreOrdered
<1> QED
  BY <1>1, ReadoutInductive, PTL

(* What a job publishes belongs to one run and has passed an enforced      *)
(* gate.                                                                   *)
THEOREM PublishedTogether == Spec => []PublishedIsComplete
<1>1. IndInv => PublishedIsComplete
  BY DEF IndInv
<1> QED
  BY <1>1, ReadoutInductive, PTL

(* No decision that failed is turned into next steps without a must-fix.   *)
THEOREM FailedNeedsFixing == Spec => []NothingToFixMeansPassed
<1>1. IndInv => NothingToFixMeansPassed
  BY DEF IndInv, FailuresAreUrgent
<1> QED
  BY <1>1, ReadoutInductive, PTL

(* The flaky policy refuses exactly when too many tests are unstable in    *)
(* the window, the current results included, or nothing is known and the   *)
(* policy is to fail closed, for any history, window, rate and limit.      *)
THEOREM FlakyJudgedByWindow == Spec => FlakyIsJudgedByWindow
<1>1. IndInv /\ [Next]_vars =>
        [files'.flaky # files.flaky /\ files'.flaky # None =>
           (files'.flaky.allowed <=>
              /\ Cardinality({t \in Tests : Unstable(Observed, t)}) <= MaxFlaky
              /\ Observed = <<>> => ~FailClosed)]_vars
  <2> SUFFICES ASSUME IndInv, [Next]_vars, files'.flaky # files.flaky, files'.flaky # None
               PROVE  files'.flaky.allowed <=>
                        /\ Cardinality({t \in Tests : Unstable(Observed, t)}) <= MaxFlaky
                        /\ Observed = <<>> => ~FailClosed
    OBVIOUS
  <2>1. files'.flaky = [run |-> Current, allowed |-> FlakyAllowed(Recent(Observed))]
    <3>1. files \in Files
      BY DEF IndInv, TypeOK
    <3>2. CASE EvaluateFlaky
      BY <3>1, <3>2, Writing DEF EvaluateFlaky, Names
    <3>3. CASE \E f \in Names \ {"flaky"} : \E c : Write(f, c)
      BY <3>1, <3>3, Writing DEF Names
    <3>4. CASE Clean
      BY <3>4 DEF Clean, NoFiles, Names
    <3> QED
      BY <3>2, <3>3, <3>4 DEF Next, vars, Assure, ValidateExceptions, EvaluatePromotion,
        MakeReport, Normalize, RenderComment, ExportMetrics, ExplainFailures,
        SuggestNextSteps, ChangeExceptions, Upload, Names
  <2>2. Observed \in Seq(Reported)
    BY ObservedType DEF IndInv
  <2>3. FlakyTests(Recent(Observed)) = {t \in Tests : Unstable(Observed, t)}
    BY <2>2, FlakyIsUnstable
  <2>4. Recent(Observed) = <<>> <=> Observed = <<>>
    BY <2>2, RecentRuns
  <2>5. files'.flaky.allowed = FlakyAllowed(Recent(Observed))
    BY <2>1
  <2>6. FlakyAllowed(Recent(Observed)) <=>
          /\ Cardinality({t \in Tests : Unstable(Observed, t)}) <= MaxFlaky
          /\ Observed = <<>> => ~FailClosed
    BY <2>3, <2>4 DEF FlakyAllowed
  <2> QED
    BY <2>5, <2>6, Zenon
<1> QED
  BY <1>1, ReadoutInductive, PTL DEF Spec, FlakyIsJudgedByWindow
=============================================================================
