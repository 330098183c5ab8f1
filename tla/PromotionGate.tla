---------------------------- MODULE PromotionGate ----------------------------
(***************************************************************************)
(* The release gate: exceptions that are approved and expire, the two      *)
(* scripts that judge them (scripts/validate-exceptions.py and             *)
(* evaluate-promotion.py), the flaky policy, and the evidence bundle.  The *)
(* commands of the Makefile run in any order in one checkout ("make");     *)
(* ci-release-gate.yml runs them in the order of Release, on fresh         *)
(* checkouts that hand artifacts/latest on ("ci").  A step is one command. *)
(*                                                                         *)
(* An operator introduced as a "slip" is the definition after it with a    *)
(* mistake in it; the behaviours never use it.                             *)
(***************************************************************************)
EXTENDS Naturals, Sequences, FiniteSets

CONSTANTS
  Controls,   \* the tests that a control names (CONTROL_TO_TEST)
  Others,     \* those that no control names: lint, unit, newman_smoke
  Listed,     \* required_result_statuses of config/promotion/<env>.json
  Mandatory,  \* mandatory_controls of policies/tiers/<tier>.json
  MinPasses,  \* minimum_test_pass_rate, as a number of tests
  Policy,     \* which optional checks the environment asks for
  Outcomes,   \* what results.json may say
  Forms,      \* the entries that may appear in config/exceptions/*.yaml
  MaxTime,    \* bound: points in time
  MaxRuns,    \* bound: assurance runs
  None        \* no file

RI      == "resilience_intelligence"
Tiers   == {"low", "medium", "high", "critical"}
Signing == {"high", "critical"}   \* signature_required_tiers
Times   == 0..MaxTime
Tests   == Controls \cup Others
Unrated == {RI, "newman_smoke", "playwright_smoke"}   \* not among the 14 of the pass rate

(* Entries without approved_at, without another field, and with a date     *)
(* that has no time zone, which cannot be compared with the clock.         *)
Kinds == {"complete", "unapproved", "partial", "naive"}

VARIABLES
  now,        \* the clock
  registry,   \* the entries of config/exceptions
  runs,       \* how many assurance runs have published results
  latest,     \* artifacts/latest: the files the commands hand to each other
  marks,      \* what signing has left in evidence/bundles: *.sig, *.sig.skip.txt
  bundle,     \* the latest evidence bundle: "backed" if the decision it
              \* contains promotes the results it contains
  uploaded,   \* the artifact the first job has uploaded
  workflow,   \* "make" or "ci"
  step        \* the step of the workflow that is next

vars == <<now, registry, runs, latest, marks, bundle, uploaded, workflow, step>>

Entries  == [control : Controls, tier : Tiers, approved : Times, expires : Times, kind : Kinds]
Reports  == [run : 1..MaxRuns, tier : Tiers, tests : [Tests -> {"pass", "fail", "skipped"}],
             critical : BOOLEAN, validated : BOOLEAN]
Audits   == [active : SUBSET Forms, valid : BOOLEAN]
Verdicts == [seen : Reports, used : SUBSET Forms, at : Times, passed : BOOLEAN]
Files    == [results : Reports \cup {None}, report : BOOLEAN, audit : Audits \cup {None},
             flaky : {"none", "allowed", "refused"}, decision : Verdicts \cup {None}]
NoFiles  == [results |-> None, report |-> FALSE, audit |-> None, flaky |-> "none",
             decision |-> None]

ASSUME PromotionAssumption ==
  /\ IsFiniteSet(Tests) /\ "chaos_resilience" \in Controls /\ Listed \subseteq Tests
  /\ Mandatory \in [Tiers -> SUBSET Controls] /\ MinPasses \in Nat
  /\ Policy \in [validation : BOOLEAN, evidence : BOOLEAN, signed : BOOLEAN]
  /\ Outcomes \subseteq [tier : Tiers, tests : [Tests -> {"pass", "fail", "skipped"}]]
  /\ Forms \subseteq Entries /\ MaxTime \in Nat /\ MaxRuns \in Nat
  /\ None \notin Reports /\ None \notin Audits /\ None \notin Verdicts

(* slip: the artifact is uploaded before the gate has judged it.           *)
UploadFirst ==
  <<"assure", "report", "validate", "flaky", "upload", "promote",
    "download", "validate", "flaky", "promote",
    "download", "bundle", "sign">>

(* The jobs of ci-release-gate.yml: assurance in its real mode (the        *)
(* pragmatic job has the same steps), promotion-gate, bundle.              *)
Release ==
  <<"assure", "report", "validate", "flaky", "promote", "upload",
    "download", "validate", "flaky", "promote",
    "download", "bundle", "sign">>

Done    == Len(Release) + 1
Stopped == Len(Release) + 2

TypeOK ==
  /\ now \in Times
  /\ registry \subseteq Forms
  /\ runs \in 0..MaxRuns
  /\ latest \in Files
  /\ marks \subseteq {"signed", "skipped"}
  /\ bundle \in {"none", "backed", "other"}
  /\ uploaded \in Files
  /\ workflow \in {"make", "ci"}
  /\ step \in 1..Stopped

Init ==
  /\ now = 0 /\ runs = 0
  /\ registry \in SUBSET Forms
  /\ latest = NoFiles /\ uploaded = NoFiles
  /\ marks = {} /\ bundle = "none"
  /\ workflow \in {"make", "ci"} /\ step = 1

------------------------------------------------------------------------------
(* Commands *)

(* A checkout of the Makefile takes any command, a job its next one.       *)
Turn(command) == workflow = "make" \/ (step \in 1..Len(Release) /\ Release[step] = command)

(* slip: continue-on-error                                                 *)
ExitAnyway(ok) == step' = IF workflow = "make" THEN step ELSE step + 1

(* A command that exits with another code than 0 stops the jobs.           *)
Exit(ok) == step' = IF workflow = "make" THEN step ELSE IF ok THEN step + 1 ELSE Stopped

Write(file, content) == latest' = [latest EXCEPT ![file] = content]

(* slip: a failure that is only observed is not counted.                   *)
WrittenObserving(o, k) ==
  [run |-> k, tier |-> o.tier, tests |-> o.tests,
   critical  |-> \E t \in Tests \ {RI} : o.tests[t] = "fail",
   validated |-> \A t \in Mandatory[o.tier] : o.tests[t] = "pass"]

(* What run-assurance.sh says of an outcome                                *)
Written(o, k) ==
  [run |-> k, tier |-> o.tier, tests |-> o.tests,
   critical  |-> \E t \in Tests : o.tests[t] = "fail",
   validated |-> \A t \in Mandatory[o.tier] : o.tests[t] = "pass"]

(* make run-assurance[-real]                                               *)
Assure ==
  /\ Turn("assure") /\ runs < MaxRuns
  /\ \E o \in Outcomes : Write("results", Written(o, runs + 1))
  /\ runs' = runs + 1
  /\ Exit(TRUE)
  /\ UNCHANGED <<now, registry, marks, bundle, uploaded, workflow>>

(* It may die before it writes results.json, as in AssurancePipeline.       *)
AssuranceDies ==
  /\ Turn("assure")
  /\ Exit(FALSE)
  /\ UNCHANGED <<now, registry, runs, latest, marks, bundle, uploaded, workflow>>

(* make report: generate-release-report.py                                 *)
Report ==
  /\ Turn("report") /\ latest.results # None
  /\ Write("report", TRUE)
  /\ Exit(TRUE)
  /\ UNCHANGED <<now, registry, runs, marks, bundle, uploaded, workflow>>

(* make evaluate-flaky: the result depends on a history that is kept       *)
(* elsewhere, and the command fails for nothing (no --strict).             *)
EvaluateFlaky ==
  /\ Turn("flaky") /\ latest.results # None
  /\ \E verdict \in {"allowed", "refused"} : Write("flaky", verdict)
  /\ Exit(TRUE)
  /\ UNCHANGED <<now, registry, runs, marks, bundle, uploaded, workflow>>

------------------------------------------------------------------------------
(* Exceptions.  Entries of other services and environments are ignored by  *)
(* both scripts and left out.                                              *)

(* slip: an exception does not end.                                        *)
LiveForever(tier) == {e \in registry : e.kind # "partial" /\ e.tier = tier}

(* load_active_exceptions of evaluate-promotion.py                         *)
Live(tier) == {e \in registry : e.kind # "partial" /\ e.tier = tier /\ e.expires > now}

(* The clock is compared with a date without a time zone: TypeError.       *)
GateDies(tier) == \E e \in registry : e.kind = "naive" /\ e.tier = tier

(* active of validate-exceptions.py, which wants approved_at, too          *)
Approved(tier) == {e \in Live(tier) : e.kind # "unapproved" /\ e.approved <= now}
AuditDies(tier) ==
  \E e \in registry : e.kind = "naive" /\ e.tier = tier /\ e.approved <= now

(* Every other entry is a violation.                                       *)
ValidateExceptions ==
  /\ Turn("validate") /\ latest.results # None
  /\ ~AuditDies(latest.results.tier)
  /\ LET active == Approved(latest.results.tier) IN
       /\ Write("audit", [active |-> active, valid |-> active = registry])
       /\ Exit(active = registry)
  /\ UNCHANGED <<now, registry, runs, marks, bundle, uploaded, workflow>>

ValidationDies ==
  /\ Turn("validate") /\ latest.results # None
  /\ AuditDies(latest.results.tier)
  /\ Exit(FALSE)
  /\ UNCHANGED <<now, registry, runs, latest, marks, bundle, uploaded, workflow>>

------------------------------------------------------------------------------
(* The gate: main of evaluate-promotion.py *)

Required(tier) ==
  Mandatory[tier] \cup (IF tier \in {"high", "critical"} THEN {"chaos_resilience"} ELSE {})

Waived(tier, t) == \E e \in Live(tier) : e.control = t

EnoughPasses(r) == Cardinality({t \in Tests \ Unrated : r.tests[t] = "pass"}) >= MinPasses

(* slip: an entry that has expired is ignored.                             *)
ExpiredIgnored(tier) == \A e \in registry : e.expires <= now \/ e \in Live(tier)

(* An entry that is not live fails the gate.                               *)
AllLive(tier) == registry = Live(tier)

ControlsHold(r) == \A t \in Required(r.tier) : r.tests[t] = "pass" \/ Waived(r.tier, t)

NoneForCritical(tier) == tier = "critical" => Live(tier) = {}

Validated(r) == Policy.validation => r.validated \/ Live(r.tier) # {}

StatusesAllowed(r) ==
  \A t \in Listed : r.tests[t] = "fail" => t \in Controls /\ Waived(r.tier, t)

(* slip: the reason why there is no signature will do in every tier.       *)
ReasonSuffices(tier) == Policy.signed => marks # {}

(* Any signature in evidence/bundles will do, and outside of the signing   *)
(* tiers a reason for its absence, too.                                    *)
SignatureFound(tier) ==
  IF tier \in Signing THEN "signed" \in marks ELSE Policy.signed => marks # {}

Promotable(r) ==
  /\ EnoughPasses(r) /\ ~r.critical
  /\ AllLive(r.tier) /\ ControlsHold(r) /\ NoneForCritical(r.tier)
  /\ Validated(r) /\ StatusesAllowed(r)
  /\ Policy.evidence => latest.report
  /\ latest.flaky # "refused"
  /\ SignatureFound(r.tier)

EvaluatePromotion ==
  /\ Turn("promote") /\ latest.results # None
  /\ LET r == latest.results IN
       /\ ~GateDies(r.tier)
       /\ Write("decision", [seen |-> r, used |-> Live(r.tier), at |-> now,
                             passed |-> Promotable(r)])
       /\ Exit(Promotable(r))
  /\ UNCHANGED <<now, registry, runs, marks, bundle, uploaded, workflow>>

(* What promotion-decision.json says                                       *)
Promoted == latest.decision # None /\ latest.decision.passed

(* It dies before it writes; an earlier decision stays where it is.        *)
PromotionDies ==
  /\ Turn("promote") /\ latest.results # None
  /\ GateDies(latest.results.tier)
  /\ Exit(FALSE)
  /\ UNCHANGED <<now, registry, runs, latest, marks, bundle, uploaded, workflow>>

------------------------------------------------------------------------------
(* Evidence *)

(* actions/upload-artifact and download-artifact; the next job starts on a *)
(* checkout without evidence.                                              *)
Upload ==
  /\ workflow = "ci" /\ Turn("upload")
  /\ uploaded' = latest
  /\ Exit(TRUE)
  /\ UNCHANGED <<now, registry, runs, latest, marks, bundle, workflow>>

Download ==
  /\ workflow = "ci" /\ Turn("download")
  /\ latest' = uploaded
  /\ marks' = {} /\ bundle' = "none"
  /\ Exit(TRUE)
  /\ UNCHANGED <<now, registry, runs, uploaded, workflow>>

(* Whether the decision among the files promotes the results among them    *)
Backed(f) ==
  /\ f.results # None /\ f.decision # None
  /\ f.decision.passed /\ f.decision.seen.run = f.results.run

(* create-evidence-bundle.py packs artifacts/latest.                       *)
CreateBundle ==
  /\ Turn("bundle") /\ latest.results # None
  /\ bundle' = IF Backed(latest) THEN "backed" ELSE "other"
  /\ Exit(TRUE)
  /\ UNCHANGED <<now, registry, runs, latest, marks, uploaded, workflow>>

(* sign-evidence-bundle.sh: cosign signs, or a reason is written.          *)
SignBundle ==
  /\ Turn("sign") /\ bundle # "none"
  /\ \E mark \in {"signed", "skipped"} : marks' = marks \cup {mark}
  /\ Exit(TRUE)
  /\ UNCHANGED <<now, registry, runs, latest, bundle, uploaded, workflow>>

------------------------------------------------------------------------------
(* People and time *)

Tick ==
  /\ now < MaxTime
  /\ now' = now + 1
  /\ UNCHANGED <<registry, runs, latest, marks, bundle, uploaded, workflow, step>>

(* An entry is added to config/exceptions or taken away; a job keeps the   *)
(* commit it has checked out.                                              *)
EditRegistry ==
  /\ workflow = "make"
  /\ \E e \in Forms : registry' \in {registry \cup {e}, registry \ {e}}
  /\ UNCHANGED <<now, runs, latest, marks, bundle, uploaded, workflow, step>>

Next ==
  \/ Assure \/ AssuranceDies \/ Report \/ EvaluateFlaky
  \/ ValidateExceptions \/ ValidationDies
  \/ EvaluatePromotion \/ PromotionDies
  \/ Upload \/ Download \/ CreateBundle \/ SignBundle
  \/ Tick \/ EditRegistry

Spec == Init /\ [][Next]_vars

------------------------------------------------------------------------------
(* Properties *)

(* No test of the results that a decision saw has failed.                  *)
NothingFailed(d) == \A t \in Tests : d.seen.tests[t] # "fail"

Covered(d) ==
  \A t \in Required(d.seen.tier) :
    \/ d.seen.tests[t] = "pass"
    \/ /\ d.seen.tests[t] = "skipped" /\ d.seen.tier # "critical"
       /\ \E e \in d.used : e.control = t /\ e.tier = d.seen.tier /\ e.expires > d.at

Unsigned(d) == ~Policy.signed /\ d.seen.tier \notin Signing

(* A promoted build has no failed test, whatever exceptions it has and     *)
(* though resilience intelligence is only observed (evaluate-promotion.py  *)
(* waives a failed control, but critical_test_failures counts it).         *)
NothingFailedIsPromoted == Promoted => NothingFailed(latest.decision)

(* Each control that the tier of a promoted build requires has passed, or  *)
(* was skipped under an exception of that control and tier that was live   *)
(* at the decision; in the critical tier it has passed.                    *)
ControlsAreCovered == Promoted => Covered(latest.decision)

(* Waiting does not help: what the gate would refuse it still refuses when *)
(* time has passed and nothing else has changed, though an exception that  *)
(* expires may be what it was refused for (critical tier).                 *)
WaitingNeverHelps ==
  [][now' > now /\ latest.results # None /\ ~Promotable(latest.results)
     => ~Promotable(latest.results)']_vars

(* When a release job promotes, every exception it uses is in the audit of *)
(* that job: complete, approved by now, and live at both points in time.   *)
UsesAreAudited ==
  [][LET d == latest'.decision IN
       workflow = "ci" /\ Turn("promote") /\ latest' # latest /\ d.passed =>
         /\ latest.audit # None /\ latest.audit.valid
         /\ \A e \in d.used : e \in latest.audit.active /\ e.kind = "complete" /\ e.approved <= now]_vars

(* A release that needs a signature, or for production any mark of signing *)
(* at all, is never promoted: its bundle would be signed after the gate.   *)
SignedTiersNeverRelease ==
  workflow = "ci" /\ Promoted => Unsigned(latest.decision)

(* The evidence bundle of a release holds, with its results, a decision    *)
(* that promotes them.                                                     *)
BundleHoldsDecision == workflow = "ci" => bundle # "other"

(* The second gate of a release does not die, and what the first gate      *)
(* promoted it refuses only for an exception that has expired in between,  *)
(* or because the flaky policy refuses now.                                *)
SecondGateAgrees ==
  workflow = "ci" /\ step = 10 =>
    /\ ~GateDies(latest.results.tier)
    /\ Promotable(latest.results)
         \/ latest.flaky = "refused" \/ \E e \in registry : e.expires <= now

------------------------------------------------------------------------------
(* The inductive strengthening PromotionProofs rests on *)

(* Every results.json counts its failures, and every decision that passed  *)
(* has what the properties ask for.                                        *)
Sound(f) ==
  /\ f.results # None =>
       (f.results.critical <=> \E t \in Tests : f.results.tests[t] = "fail")
  /\ f.decision # None /\ f.decision.passed =>
       /\ NothingFailed(f.decision) /\ Covered(f.decision)
       /\ workflow = "ci" => Unsigned(f.decision)

(* Between validate-exceptions and the gate every entry is audited.        *)
AuditHolds ==
  workflow = "ci" /\ step \in {4, 5, 9, 10} =>
    /\ latest.audit # None /\ latest.audit.valid
    /\ \A e \in registry :
         e \in latest.audit.active /\ e.kind = "complete" /\ e.approved <= now

(* What the first gate has promoted, any gate after it promotes as long as *)
(* every exception is live, but for the flaky policy.                      *)
Stands(f) ==
  LET r == f.results IN
  /\ r # None
  /\ \A e \in registry : e.kind # "partial" /\ e.tier = r.tier
  /\ EnoughPasses(r) /\ ~r.critical /\ (Policy.evidence => f.report)
  /\ ~Policy.signed /\ r.tier \notin Signing
  /\ AllLive(r.tier) =>
       /\ ControlsHold(r) /\ NoneForCritical(r.tier)
       /\ Validated(r) /\ StatusesAllowed(r)

(* It does so from the first gate to the second.                           *)
PromotionStands ==
  workflow = "ci" =>
    /\ step \in 6..10 => Stands(latest)
    /\ step \in 7..10 => Stands(uploaded)

(* No job before the signing step has a mark of signing.                   *)
MarksComeLast == workflow = "ci" /\ step <= 13 => marks = {}

(* From the first gate on the files promote the results they hold.         *)
ReleaseBacked ==
  workflow = "ci" =>
    /\ step \in 6..Done => Backed(latest)
    /\ step \in 7..Done => Backed(uploaded)

(* Every step preserves this: what results and decisions say, and what a   *)
(* release has behind it (evaluate-promotion.py, ci-release-gate.yml).     *)
IndInv ==
  /\ TypeOK /\ Sound(latest) /\ Sound(uploaded)
  /\ AuditHolds /\ MarksComeLast /\ ReleaseBacked /\ BundleHoldsDecision
  /\ PromotionStands /\ SecondGateAgrees
=============================================================================
