-------------------------- MODULE AssurancePipeline --------------------------
(***************************************************************************)
(* scripts/run-assurance.sh: the stages of an assurance run, the status    *)
(* files in artifacts/latest that outlive it, and results.json, which the  *)
(* promotion gate reads and the control plane copies (finalizeRunArtifacts *)
(* of lib/artifacts.mjs).  A step is one stage, or one of the writes that  *)
(* publish the results.  The directory is shared by all runs.              *)
(*                                                                         *)
(* An operator introduced as a "slip" is the definition after it with a    *)
(* mistake in it; the behaviours never use it.                             *)
(***************************************************************************)
EXTENDS Naturals, Sequences, FiniteSets

CONSTANTS
  Runs,       \* runs of the script
  Tools,      \* stages that need a tool: lint, ..., security_scan, resilience
  Wrapped,    \* stages with a wrapper script: secret_scan, ..., iac_policy
  Smoke,      \* newman_smoke, playwright_smoke: not part of the pass rate
  Order,      \* the stages in the order of the script
  HighTier,   \* whether RISK_SCORE makes the tier high or critical
  Workers,    \* the number of processes that start runs
  None, Torn, \* no file; a results.json that is opened and not yet written
  Pending,    \* a run that is not yet finalized has no copy
  MaxFaults   \* bound: scripts that die

Dast  == "dast_zap"
Chaos == "chaos_resilience"
RI    == "resilience_intelligence"

Stages == Tools \cup Wrapped \cup Smoke \cup {Dast, Chaos, RI}
Modes  == {"pragmatic", "real", "zap"}   \* zap: ONLY_ZAP_SMOKE=1

VARIABLES
  status,   \* artifacts/latest/<stage>.status
  results,  \* results.json: None, Torn, or what it says
  at,       \* the stage each run is about to execute; 0: not started
  mode,     \* its ASSURANCE_MODE
  failed,   \* whether its FAILURES is above 0
  did,      \* what its stages have really done
  exit,     \* its exit code
  copy,     \* the results.json the worker copied into its directory
  faults    \* the spent fault budget

vars == <<status, results, at, mode, failed, did, exit, copy, faults>>

States   == {"pass", "fail", "skipped"}
Reports  == [run : Runs, tests : [Stages -> States], critical : BOOLEAN]
Files    == Reports \cup {None, Torn}
LastStep == Len(Order) + 3

(* The chaos script runs in its own stage first, then in that of RI.       *)
ASSUME PipelineAssumption ==
  /\ IsFiniteSet(Runs) /\ Workers \in Nat \ {0} /\ MaxFaults \in Nat
  /\ Order \in Seq(Stages) /\ \A s \in Stages : \E k \in 1..Len(Order) : Order[k] = s
  /\ \A j, k \in 1..Len(Order) : Order[j] = Order[k] => j = k
  /\ \A j, k \in 1..Len(Order) : Order[j] = Chaos /\ Order[k] = RI => j < k
  /\ {Dast, Chaos, RI} \cap (Tools \cup Wrapped \cup Smoke) = {}
  /\ None # Torn /\ Pending \notin {None, Torn}
  /\ \A x \in {None, Torn, Pending} : x \notin Reports
  /\ HighTier \in BOOLEAN

TypeOK ==
  /\ status \in [Stages -> States \cup {"none"}]
  /\ results \in Files
  /\ at \in [Runs -> 0..LastStep]
  /\ mode \in [Runs -> Modes]
  /\ failed \in [Runs -> BOOLEAN]
  /\ did \in [Runs -> [Stages -> States \cup {"none", "simulated", "died"}]]
  /\ exit \in [Runs -> {"none", "zero", "nonzero"}]
  /\ copy \in [Runs -> Files \cup {Pending}]
  /\ faults \in 0..MaxFaults

Init ==
  /\ status = [s \in Stages |-> "none"]
  /\ results = None
  /\ at = [r \in Runs |-> 0]
  /\ mode \in [Runs -> Modes]
  /\ failed = [r \in Runs |-> FALSE]
  /\ did = [r \in Runs |-> [s \in Stages |-> "none"]]
  /\ exit = [r \in Runs |-> "none"]
  /\ copy = [r \in Runs |-> Pending]
  /\ faults = 0

-----------------------------------------------------------------------------
Fault == faults < MaxFaults /\ faults' = faults + 1

Active(r) == at[r] > 0 /\ exit[r] = "none"

(* slip: a worker claims its next run before it has finalized the last *)
BusyExecuting == {r \in Runs : Active(r)}

(* a worker claims its next run when it has finalized the last *)
Busy == {r \in Runs : at[r] > 0 /\ copy[r] = Pending}

Start(r) ==
  /\ at[r] = 0 /\ Cardinality(Busy) < Workers
  /\ at' = [at EXCEPT ![r] = 1]
  /\ UNCHANGED <<status, results, mode, failed, did, exit, copy, faults>>

(* r is about to execute a stage of S *)
IsAt(r, S) == Active(r) /\ at[r] <= Len(Order) /\ Order[at[r]] \in S
Stage(r)   == Order[at[r]]
Proceed(r) == at' = [at EXCEPT ![r] = @ + 1]

(* the end of a run: exit 0, or set -e, or a signal *)
Leave(r, code) ==
  /\ exit' = [exit EXCEPT ![r] = code]
  /\ did' = [did EXCEPT ![r] = [s \in Stages |-> "none"]]

(* slip: a simulated stage has a status of its own *)
WordAsIs(what) == what

(* what write_status writes of a stage *)
Word(what) == IF what = "simulated" THEN "pass" ELSE what

(* write_status and FAILURES after a stage has done what *)
Record(r, what) ==
  /\ status' = [status EXCEPT ![Stage(r)] = Word(what)]
  /\ did' = [did EXCEPT ![r][Stage(r)] = what]
  /\ failed' = [failed EXCEPT ![r] = @ \/ what = "fail"]
  /\ Proceed(r)
  /\ UNCHANGED <<results, mode, exit, copy>>

-----------------------------------------------------------------------------
(* Stages that report for themselves *)

(* slip: what cannot run is simulated in every mode *)
WithoutToolSimulated(m) == "simulated"

(* a tool that is missing: record_skipped in real mode, else a simulation *)
WithoutTool(m) == IF m = "pragmatic" THEN "simulated" ELSE "skipped"

(* run_npm_or_fallback, and the stages of semgrep, trivy, k6, smoke.sh *)
RunTool(r) ==
  /\ IsAt(r, Tools) /\ mode[r] # "zap"
  /\ \E what \in {"pass", "fail", WithoutTool(mode[r])} : Record(r, what)
  /\ UNCHANGED faults

(* run_wrapper_step whose wrapper emits its status, newman and playwright *)
RunWrapper(r) ==
  /\ IsAt(r, Wrapped \cup Smoke) /\ mode[r] # "zap"
  /\ \E what \in States : Record(r, what)
  /\ UNCHANGED faults

(* The wrapper dies before it writes its status: the file an earlier run   *)
(* left there is taken for its own.                                        *)
WrapperDies(r) ==
  /\ IsAt(r, Wrapped) /\ mode[r] # "zap" /\ Fault
  /\ status' = [status EXCEPT ![Stage(r)] = IF @ = "none" THEN "skipped" ELSE @]
  /\ did' = [did EXCEPT ![r][Stage(r)] = "died"]
  /\ failed' = [failed EXCEPT ![r] = @ \/ status[Stage(r)] = "fail"]
  /\ Proceed(r)
  /\ UNCHANGED <<results, mode, exit, copy>>

(* run_zap_baseline *)
ScanZap(r) ==
  /\ IsAt(r, {Dast})
  /\ \E what \in {"skipped"} \cup (IF mode[r] = "pragmatic" THEN {} ELSE {"pass", "fail"}) :
       Record(r, what)
  /\ UNCHANGED faults

(* zap-smoke mode leaves the other stages out *)
SkipStage(r) ==
  /\ IsAt(r, Stages \ {Dast}) /\ mode[r] = "zap"
  /\ Record(r, "skipped")
  /\ UNCHANGED faults

-----------------------------------------------------------------------------
(* run-chaos-checks.sh and run-resilience-intelligence.sh *)

(* what the experiments come to, and what the script writes of it *)
Experiments(m) == {"skipped"} \cup (IF m = "real" THEN {"pass", "fail"} ELSE {})
ChaosFile(what) == IF what = "skipped" /\ ~HighTier THEN "pass" ELSE what

(* The script writes its status and exits 0 whatever that is; run_cmd_step *)
(* then writes "pass" over it.                                             *)
RunChaos(r) ==
  /\ IsAt(r, {Chaos}) /\ mode[r] # "zap"
  /\ \E what \in Experiments(mode[r]) : did' = [did EXCEPT ![r][Chaos] = what]
  /\ status' = [status EXCEPT ![Chaos] = "pass"]
  /\ Proceed(r)
  /\ UNCHANGED <<results, mode, failed, exit, copy, faults>>

(* the script itself fails: "fail", and set -e ends the run *)
ChaosDies(r) ==
  /\ IsAt(r, {Chaos}) /\ mode[r] # "zap" /\ Fault
  /\ status' = [status EXCEPT ![Chaos] = "fail"]
  /\ Leave(r, "nonzero")
  /\ UNCHANGED <<results, at, mode, failed, copy>>

(* without jq the script skips and exits 0, and run_cmd_step writes "pass" *)
SkipIntelligence(r) ==
  /\ IsAt(r, {RI}) /\ mode[r] # "zap"
  /\ did' = [did EXCEPT ![r][RI] = "skipped"]
  /\ status' = [status EXCEPT ![RI] = "pass"]
  /\ Proceed(r)
  /\ UNCHANGED <<results, mode, failed, exit, copy, faults>>

(* slip: a failed resilience intelligence stage is not counted *)
CountNothing(r, says) == failed' = failed

(* FAILURES after the stage of r has said what it did *)
Count(r, says) == failed' = [failed EXCEPT ![r] = @ \/ says = "fail"]

(* It runs the chaos script again, in real mode: chaos_resilience.status   *)
(* is written a second time, unless that script times out before.          *)
RunIntelligence(r) ==
  /\ IsAt(r, {RI}) /\ mode[r] # "zap"
  /\ \E load \in States, c \in Experiments("real") \cup {"timeout"} :
       LET says == IF "fail" \in {load, c} \/ c = "timeout" THEN "fail" ELSE "pass" IN
       /\ status' = [status EXCEPT ![Chaos] = IF c = "timeout" THEN @ ELSE ChaosFile(c),
                                   ![RI] = says]
       /\ did' = [did EXCEPT ![r][Chaos] = IF c = "timeout" THEN @ ELSE c,
                             ![r][RI] = says]
       /\ Count(r, says)
  /\ Proceed(r)
  /\ UNCHANGED <<results, mode, exit, copy, faults>>

-----------------------------------------------------------------------------
(* The end of the script *)

Rated == Stages \ (Smoke \cup {RI})

(* grep finds no "pass" to count: pipefail and set -e end the run *)
RateNothing(r) ==
  /\ Active(r) /\ at[r] = Len(Order) + 1
  /\ \A s \in Rated : status[s] # "pass"
  /\ Leave(r, "nonzero")
  /\ UNCHANGED <<status, results, at, mode, failed, copy, faults>>

(* cat > results.json opens the file, then the document is put together *)
OpenResults(r) ==
  /\ Active(r) /\ at[r] = Len(Order) + 1
  /\ \E s \in Rated : status[s] = "pass"
  /\ results' = Torn
  /\ Proceed(r)
  /\ UNCHANGED <<status, mode, failed, did, exit, copy, faults>>

(* The document is complete. *)
Publish(r) ==
  /\ Active(r) /\ at[r] = Len(Order) + 2
  /\ results' = [run |-> r, tests |-> status, critical |-> failed[r]]
  /\ Proceed(r)
  /\ UNCHANGED <<status, mode, failed, did, exit, copy, faults>>

(* failure-summary.md and the last line of the log are written: exit 0 *)
Summarize(r) ==
  /\ Active(r) /\ at[r] = LastStep
  /\ Leave(r, "zero")
  /\ UNCHANGED <<status, results, at, mode, failed, copy, faults>>

(* the shell is killed, or its container stopped *)
Killed(r) ==
  /\ Active(r) /\ Fault
  /\ Leave(r, "nonzero")
  /\ UNCHANGED <<status, results, at, mode, failed, copy>>

(* finalizeRunArtifacts: whatever the exit code, what is there is copied *)
Finalize(r) ==
  /\ exit[r] # "none" /\ copy[r] = Pending
  /\ copy' = [copy EXCEPT ![r] = results]
  /\ UNCHANGED <<status, results, at, mode, failed, did, exit, faults>>

Next ==
  \E r \in Runs :
    \/ Start(r) \/ RunTool(r) \/ RunWrapper(r) \/ WrapperDies(r) \/ ScanZap(r)
    \/ SkipStage(r) \/ RunChaos(r) \/ ChaosDies(r) \/ SkipIntelligence(r)
    \/ RunIntelligence(r) \/ RateNothing(r) \/ OpenResults(r) \/ Publish(r)
    \/ Summarize(r) \/ Killed(r) \/ Finalize(r)

Spec == Init /\ [][Next]_vars

-----------------------------------------------------------------------------
(* Properties *)

(* r makes results.json complete *)
Publishes(r) == results' # results /\ results' \in Reports /\ results'.run = r

(* the reason for which the file of stage s says "pass" at the end of r *)
Explained(r, s) ==
  \/ did[r][s] = "pass"
  \/ did[r][s] = "simulated" /\ mode[r] = "pragmatic"
  \/ did[r][s] = "died" /\ s \in Wrapped

(* A stage that results.json says has passed has passed in that run, or    *)
(* was simulated in a pragmatic run, or is that of a wrapper that died.    *)
(* Chaos and resilience intelligence are left to ChaosIsTold.              *)
PassesAreExplained ==
  [][\A r \in Runs : Publishes(r) =>
       \A s \in Stages \ {Chaos, RI} :
         results'.tests[s] = "pass" => Explained(r, s)]_vars

(* critical_test_failures is 1 exactly if a stage of the same results.json *)
(* has failed, though FAILURES is counted by the stages one by one and the *)
(* status files are written by several scripts, and by earlier runs.       *)
FailuresCounted ==
  results \in Reports => (results.critical <=> \E s \in Stages : results.tests[s] = "fail")

(* A run that ends with 0, which the control plane calls passed, has its   *)
(* own results in its run directory.                                       *)
PassedRunKeepsResults ==
  \A r \in Runs :
    exit[r] = "zero" /\ copy[r] # Pending => copy[r] \in Reports /\ copy[r].run = r

-----------------------------------------------------------------------------
(* The inductive strengthening PipelineProofs rests on, for one worker *)

(* A run ends after it has started and is copied after it has ended; one   *)
(* worker has one run.                                                     *)
RunsInOrder ==
  /\ \A r \in Runs : exit[r] # "none" => at[r] > 0
  /\ \A r \in Runs : copy[r] # Pending => exit[r] # "none"
  /\ \A q, r \in Busy : q = r

(* A run ends with 0 when nothing is left to do. *)
EndsAtTheEnd == \A r \in Runs : exit[r] = "zero" => at[r] = LastStep

(* Until it is copied a run that has published is the last to have written. *)
ResultsAreFresh ==
  \A r \in Runs :
    at[r] = LastStep /\ copy[r] = Pending => results \in Reports /\ results.run = r

(* The stages a run has behind it *)
Behind(r) == {Order[k] : k \in {j \in 1..Len(Order) : j < at[r]}}

(* They have all written their files.                                      *)
StagesWritten == \A r \in Runs : Active(r) => \A s \in Behind(r) : status[s] # "none"

(* FAILURES counts the status files of the stages a run has behind it;     *)
(* the chaos file says "fail" only if RI has said so, too.                 *)
CountAgrees ==
  \A r \in Runs :
    /\ at[r] = 0 => ~failed[r]
    /\ Active(r) => (failed[r] <=> \E s \in Behind(r) : status[s] = "fail")
    /\ Active(r) /\ Chaos \in Behind(r) /\ RI \notin Behind(r) => status[Chaos] # "fail"

(* The files of the stages a run has behind it say "pass" for a reason.    *)
StagesExplained ==
  \A r \in Runs : Active(r) =>
    \A s \in Behind(r) \ {Chaos, RI} : status[s] = "pass" => Explained(r, s)

(* The complete reports, the shared one and its copies *)
Complete == ({results} \cup {copy[r] : r \in Runs}) \cap Reports

(* They are of runs that have gone through all their stages, though not    *)
(* always of runs that end with 0; and two of the same run are the same,   *)
(* however many workers share the directory.                               *)
ReportsAreSettled ==
  /\ \A x \in Complete : at[x.run] = LastStep
  /\ \A x, y \in Complete : x.run = y.run => x = y

(* With one worker the same report lies in the directory of the run that   *)
(* it is of, whoever else has a copy; the shared one will do so.           *)
ReportsLieAtHome ==
  /\ results \in Reports => copy[results.run] \in {Pending, results}
  /\ \A r \in Runs : copy[r] \in Reports => copy[copy[r].run] = copy[r]

(* With one worker every step preserves this: whose the shared files are   *)
(* and what they rest on (run-assurance.sh, worker.mjs, artifacts.mjs).    *)
IndInv ==
  /\ TypeOK /\ RunsInOrder /\ EndsAtTheEnd /\ ResultsAreFresh /\ StagesWritten
  /\ CountAgrees /\ StagesExplained /\ FailuresCounted /\ PassedRunKeepsResults
  /\ ReportsAreSettled /\ ReportsLieAtHome

-----------------------------------------------------------------------------
(* Claims of the documentation that the code does not keep *)

(* The run directory of a run, passed or not, holds nothing of another run *)
(* (docs/architecture/control-plane-hardening.md: immutable, run-scoped).  *)
CopiesAreOwn ==
  \A r \in Runs : copy[r] \in Reports => copy[r].run = r

(* For a high or critical tier, results.json does not call chaos passed    *)
(* when the experiments last failed or were skipped, so that the promotion *)
(* gate can enforce the control (docs/golden-paths/chaos-integration.md).  *)
ChaosIsTold ==
  [][\A r \in Runs : Publishes(r) /\ HighTier =>
       (results'.tests[Chaos] = "pass" => did[r][Chaos] = "pass")]_vars
=============================================================================
