--------------------------- MODULE PromotionProofs ---------------------------
(***************************************************************************)
(* What the release gate keeps, for any controls, policies, exceptions and *)
(* results: what a promoted build has (Sound), what a release has behind   *)
(* it by the order of its jobs (AuditHolds, MarksComeLast, ReleaseBacked), *)
(* and that time alone never turns a refusal into a promotion.             *)
(***************************************************************************)
EXTENDS PromotionGate, FiniteSetTheorems, TLAPS

(* The steps of a release, by number *)
LEMMA Steps ==
  /\ Len(Release) = 13 /\ Done = 14 /\ Stopped = 15
  /\ \A k \in 1..13 :
       /\ Release[k] = "assure" <=> k = 1
       /\ Release[k] = "report" <=> k = 2
       /\ Release[k] = "validate" <=> k \in {3, 8}
       /\ Release[k] = "flaky" <=> k \in {4, 9}
       /\ Release[k] = "promote" <=> k \in {5, 10}
       /\ Release[k] = "upload" <=> k = 6
       /\ Release[k] = "download" <=> k \in {7, 11}
       /\ Release[k] = "bundle" <=> k = 12
       /\ Release[k] = "sign" <=> k = 13
<1>1. Len(Release) = 13
  BY DEF Release
<1> QED
  BY <1>1 DEF Release, Done, Stopped

(* Where a release is when it is a command's turn *)
LEMMA TurnAt ==
  ASSUME workflow = "ci", NEW c, Turn(c)
  PROVE  /\ step \in 1..13 /\ Release[step] = c
         /\ c = "assure" => step = 1
         /\ c = "report" => step = 2
         /\ c = "validate" => step \in {3, 8}
         /\ c = "flaky" => step \in {4, 9}
         /\ c = "promote" => step \in {5, 10}
         /\ c = "upload" => step = 6
         /\ c = "download" => step \in {7, 11}
         /\ c = "bundle" => step = 12
         /\ c = "sign" => step = 13
<1>1. step \in 1..13 /\ Release[step] = c
  BY Steps DEF Turn
<1> QED
  BY <1>1, Steps

(* The next step stays within the workflow. *)
LEMMA ExitType ==
  ASSUME step \in 1..Stopped, workflow \in {"make", "ci"}, NEW c, Turn(c),
         NEW ok \in BOOLEAN, Exit(ok)
  PROVE  /\ step' \in 1..Stopped
         /\ workflow = "ci" => step' = IF ok THEN step + 1 ELSE 15
<1>1. CASE workflow = "make"
  BY <1>1 DEF Exit
<1>2. CASE workflow = "ci"
  BY <1>2, TurnAt, Steps DEF Exit
<1> QED
  BY <1>1, <1>2

(* What a written file leaves alone *)
LEMMA Writing ==
  ASSUME latest \in Files, NEW file \in {"results", "report", "audit", "flaky", "decision"},
         NEW content, Write(file, content)
  PROVE  /\ latest'[file] = content
         /\ file # "results" => latest'.results = latest.results
         /\ file # "report" => latest'.report = latest.report
         /\ file # "audit" => latest'.audit = latest.audit
         /\ file # "flaky" => latest'.flaky = latest.flaky
         /\ file # "decision" => latest'.decision = latest.decision
BY DEF Files, Write
------------------------------------------------------------------------------
(* Types *)

(* Entries have the fields of the registry's forms. *)
LEMMA EntryType ==
  ASSUME TypeOK, NEW e \in registry
  PROVE  e \in Forms /\ e \in Entries /\ e.expires \in Nat /\ e.approved \in Nat /\ now \in Nat
BY PromotionAssumption DEF TypeOK, Entries, Times

(* Of what is written *)
LEMMA WrittenType ==
  ASSUME NEW o \in Outcomes, runs \in 0..MaxRuns, runs < MaxRuns
  PROVE  /\ Written(o, runs + 1) \in Reports
         /\ Written(o, runs + 1).critical <=>
              \E t \in Tests : Written(o, runs + 1).tests[t] = "fail"
<1>1. runs + 1 \in 1..MaxRuns
  BY PromotionAssumption
<1>2. o.tier \in Tiers /\ o.tests \in [Tests -> {"pass", "fail", "skipped"}]
  BY PromotionAssumption
<1> QED
  BY <1>1, <1>2 DEF Written, Reports

(* A file of a right type among files of the right types *)
LEMMA FilesType ==
  ASSUME latest \in Files,
         \/ \E x \in Reports : Write("results", x)
         \/ Write("report", TRUE)
         \/ \E x \in Audits : Write("audit", x)
         \/ \E x \in {"allowed", "refused"} : Write("flaky", x)
         \/ \E x \in Verdicts : Write("decision", x)
  PROVE  latest' \in Files
BY DEF Files, Write

(* A decision has its type. *)
LEMMA VerdictType ==
  ASSUME TypeOK, latest.results # None
  PROVE  /\ latest.results \in Reports
         /\ [seen |-> latest.results, used |-> Live(latest.results.tier), at |-> now,
             passed |-> Promotable(latest.results)] \in Verdicts
<1>1. latest.results \in Reports
  BY DEF TypeOK, Files
<1>2. Live(latest.results.tier) \in SUBSET Forms
  BY DEF TypeOK, Live
<1>3. Promotable(latest.results) \in BOOLEAN
  BY DEF Promotable
<1> QED
  BY <1>1, <1>2, <1>3 DEF Verdicts, TypeOK

(* Every variable keeps its type in every step. *)
LEMMA TypeStep ==
  ASSUME TypeOK, [Next]_vars
  PROVE  TypeOK'
<1>1. step \in 1..Stopped /\ workflow \in {"make", "ci"} /\ latest \in Files
  BY DEF TypeOK
<1>2. CASE Assure
  <2>1. latest' \in Files
    BY <1>1, <1>2, WrittenType, FilesType DEF Assure, TypeOK
  <2>2. runs' \in 0..MaxRuns
    BY <1>2, PromotionAssumption DEF Assure, TypeOK
  <2> QED
    BY <1>1, <1>2, <2>1, <2>2, ExitType DEF Assure, TypeOK
<1>3. CASE AssuranceDies
  BY <1>1, <1>3, ExitType DEF AssuranceDies, TypeOK
<1>4. CASE Report
  BY <1>1, <1>4, ExitType, FilesType DEF Report, TypeOK
<1>5. CASE EvaluateFlaky
  BY <1>1, <1>5, ExitType, FilesType DEF EvaluateFlaky, TypeOK
<1>6. CASE ValidateExceptions
  <2>1. PICK active \in SUBSET Forms :
          /\ Write("audit", [active |-> active, valid |-> active = registry])
          /\ Exit(active = registry)
    BY <1>6 DEF ValidateExceptions, Approved, Live, TypeOK
  <2>2. [active |-> active, valid |-> active = registry] \in Audits
    BY DEF Audits
  <2>3. latest' \in Files
    BY <1>1, <2>1, <2>2, FilesType
  <2>4. step' \in 1..Stopped
    BY <1>1, <1>6, <2>1, ExitType DEF ValidateExceptions
  <2> QED
    BY <1>6, <2>3, <2>4 DEF ValidateExceptions, TypeOK
<1>7. CASE ValidationDies
  BY <1>1, <1>7, ExitType DEF ValidationDies, TypeOK
<1>8. CASE EvaluatePromotion
  <2>1. latest' \in Files
    BY <1>1, <1>8, VerdictType, FilesType DEF EvaluatePromotion
  <2>2. Promotable(latest.results) \in BOOLEAN
    BY DEF Promotable
  <2>3. step' \in 1..Stopped
    BY <1>1, <1>8, <2>2, ExitType DEF EvaluatePromotion
  <2> QED
    BY <1>8, <2>1, <2>3 DEF EvaluatePromotion, TypeOK
<1>9. CASE PromotionDies
  BY <1>1, <1>9, ExitType DEF PromotionDies, TypeOK
<1>10. CASE Upload
  BY <1>1, <1>10, ExitType DEF Upload, TypeOK
<1>11. CASE Download
  BY <1>1, <1>11, ExitType DEF Download, TypeOK
<1>12. CASE CreateBundle
  BY <1>1, <1>12, ExitType DEF CreateBundle, TypeOK
<1>13. CASE SignBundle
  BY <1>1, <1>13, ExitType DEF SignBundle, TypeOK
<1>14. CASE Tick
  BY <1>14, PromotionAssumption DEF Tick, TypeOK, Times
<1>15. CASE EditRegistry
  BY <1>15 DEF EditRegistry, TypeOK
<1>16. CASE UNCHANGED vars
  BY <1>16 DEF vars, TypeOK
<1> QED
  BY <1>2, <1>3, <1>4, <1>5, <1>6, <1>7, <1>8, <1>9, <1>10, <1>11, <1>12, <1>13, <1>14, <1>15,
     <1>16 DEF Next

------------------------------------------------------------------------------
(* Time *)

(* What the gate would promote after a tick it would have promoted before. *)
LEMMA StillRefused ==
  ASSUME TypeOK, Tick, latest.results # None, Promotable(latest.results)'
  PROVE  Promotable(latest.results)
<1> DEFINE r == latest.results
<1>1. UNCHANGED <<registry, latest, marks>> /\ now' = now + 1
  BY DEF Tick
<1>2. \A e \in registry : e.expires > now' => e.expires > now
  BY <1>1, EntryType
<1>3. registry = Live(r.tier) /\ registry = Live(r.tier)'
  BY <1>1, <1>2 DEF Promotable, AllLive, Live
<1>4. Live(r.tier)' = Live(r.tier)
  BY <1>3
<1> QED
  BY <1>1, <1>3, <1>4 DEF Promotable, EnoughPasses, AllLive, ControlsHold, NoneForCritical,
     Validated, StatusesAllowed, SignatureFound, Waived
------------------------------------------------------------------------------
(* What results and decisions say *)

(* The test statuses of a results.json *)
LEMMA StatusType ==
  ASSUME TypeOK, latest.results # None
  PROVE  /\ latest.results.tier \in Tiers
         /\ Required(latest.results.tier) \subseteq Tests
         /\ \A t \in Tests : latest.results.tests[t] \in {"pass", "fail", "skipped"}
<1>1. latest.results \in Reports
  BY DEF TypeOK, Files
<1>2. latest.results.tier \in Tiers /\ latest.results.tests \in [Tests -> {"pass", "fail", "skipped"}]
  BY <1>1 DEF Reports
<1>3. Mandatory[latest.results.tier] \subseteq Controls
  BY <1>2, PromotionAssumption
<1> QED
  BY <1>2, <1>3, PromotionAssumption DEF Required, Tests

(* What the gate decides has what the properties ask for. *)
LEMMA DecisionSound ==
  ASSUME TypeOK, Sound(latest), MarksComeLast, latest.results # None, Turn("promote"),
         Promotable(latest.results),
         NEW d, d = [seen |-> latest.results, used |-> Live(latest.results.tier), at |-> now,
                     passed |-> Promotable(latest.results)]
  PROVE  /\ NothingFailed(d) /\ Covered(d)
         /\ workflow = "ci" => Unsigned(d)
<1> DEFINE r == latest.results
<1>1. d.seen = r /\ d.used = Live(r.tier) /\ d.at = now
  OBVIOUS
<1>2. \A t \in Tests : r.tests[t] # "fail"
  BY DEF Sound, Promotable
<1>3. NothingFailed(d)
  BY <1>1, <1>2 DEF NothingFailed
<1>4. Covered(d)
  <2>1. SUFFICES ASSUME NEW t \in Required(r.tier), r.tests[t] # "pass"
                 PROVE  /\ r.tests[t] = "skipped" /\ r.tier # "critical"
                        /\ \E e \in Live(r.tier) :
                             e.control = t /\ e.tier = r.tier /\ e.expires > now
    BY <1>1 DEF Covered
  <2>2. r.tests[t] = "skipped"
    BY <1>2, <2>1, StatusType
  <2>3. PICK e \in Live(r.tier) : e.control = t
    BY <2>1 DEF Promotable, ControlsHold, Waived
  <2>4. r.tier # "critical"
    BY <2>3 DEF Promotable, NoneForCritical
  <2> QED
    BY <2>2, <2>3, <2>4 DEF Live
<1>5. ASSUME workflow = "ci" PROVE Unsigned(d)
  <2>1. marks = {}
    BY <1>5, TurnAt DEF MarksComeLast
  <2>2. SignatureFound(r.tier)
    BY DEF Promotable
  <2>3. r.tier \notin Signing /\ ~Policy.signed
    BY <2>1, <2>2 DEF SignatureFound
  <2> QED
    BY <1>1, <2>3 DEF Unsigned
<1> QED
  BY <1>3, <1>4, <1>5

(* Every step keeps results and decisions sound. *)
LEMMA SoundStep ==
  ASSUME TypeOK, Sound(latest), Sound(uploaded), MarksComeLast, [Next]_vars
  PROVE  Sound(latest)' /\ Sound(uploaded)'
<1>1. latest \in Files /\ runs \in 0..MaxRuns /\ workflow' = workflow
  BY DEF TypeOK, Next, vars, Assure, AssuranceDies, Report, EvaluateFlaky, ValidateExceptions,
     ValidationDies, EvaluatePromotion, PromotionDies, Upload, Download, CreateBundle,
     SignBundle, Tick, EditRegistry
<1>2. ASSUME latest'.results = latest.results, latest'.decision = latest.decision,
             uploaded' = uploaded
      PROVE  Sound(latest)' /\ Sound(uploaded)'
  BY <1>1, <1>2 DEF Sound, NothingFailed, Covered, Unsigned, Required
<1>3. CASE Assure
  <2>1. PICK o \in Outcomes : Write("results", Written(o, runs + 1))
    BY <1>3 DEF Assure
  <2>2. latest'.results = Written(o, runs + 1) /\ latest'.decision = latest.decision
    BY <1>1, <2>1, Writing
  <2>3. latest'.results.critical <=> \E t \in Tests : latest'.results.tests[t] = "fail"
    BY <1>1, <1>3, <2>2, WrittenType DEF Assure
  <2> QED
    BY <1>1, <1>3, <2>2, <2>3 DEF Assure, Sound, NothingFailed, Covered, Unsigned, Required
<1>4. CASE Report \/ EvaluateFlaky \/ ValidateExceptions
  BY <1>1, <1>2, <1>4, Writing DEF Report, EvaluateFlaky, ValidateExceptions
<1>5. CASE EvaluatePromotion
  <2> DEFINE d == [seen |-> latest.results, used |-> Live(latest.results.tier), at |-> now,
                   passed |-> Promotable(latest.results)]
  <2>1. Write("decision", d) /\ uploaded' = uploaded /\ Turn("promote") /\ latest.results # None
    BY <1>5 DEF EvaluatePromotion
  <2>2. latest'.decision = d /\ latest'.results = latest.results
    BY <1>1, <2>1, Writing
  <2>3. d.passed => /\ NothingFailed(d) /\ Covered(d)
                    /\ workflow = "ci" => Unsigned(d)
    BY <2>1, DecisionSound
  <2> HIDE DEF d
  <2>4. Sound(latest)'
    BY <1>1, <2>2, <2>3 DEF Sound, NothingFailed, Covered, Unsigned, Required
  <2>5. Sound(uploaded)'
    BY <1>1, <2>1 DEF Sound, NothingFailed, Covered, Unsigned, Required
  <2> QED
    BY <2>4, <2>5
<1>6. CASE Upload
  <2>1. uploaded' = latest /\ latest' = latest
    BY <1>6 DEF Upload
  <2> QED
    BY <1>1, <2>1 DEF Sound, NothingFailed, Covered, Unsigned, Required
<1>8. CASE Download
  <2>1. uploaded' = uploaded /\ latest' = uploaded
    BY <1>8 DEF Download
  <2> QED
    BY <1>1, <2>1 DEF Sound, NothingFailed, Covered, Unsigned, Required
<1>7. CASE \/ AssuranceDies \/ ValidationDies \/ PromotionDies \/ CreateBundle \/ SignBundle
           \/ Tick \/ EditRegistry \/ UNCHANGED vars
  <2>1. latest' = latest /\ uploaded' = uploaded
    BY <1>7 DEF AssuranceDies, ValidationDies, PromotionDies, CreateBundle, SignBundle, Tick,
       EditRegistry, vars
  <2> QED
    BY <1>2, <2>1
<1> QED
  BY <1>3, <1>4, <1>5, <1>6, <1>7, <1>8 DEF Next

------------------------------------------------------------------------------
(* What a release has behind it *)

(* Every entry stays audited until the gate has used it. *)
LEMMA AuditStep ==
  ASSUME TypeOK, AuditHolds, [Next]_vars
  PROVE  AuditHolds'
<1> SUFFICES ASSUME workflow' = "ci", step' \in {4, 5, 9, 10}
             PROVE  /\ latest'.audit # None /\ latest'.audit.valid
                    /\ \A e \in registry' : /\ e \in latest'.audit.active
                                            /\ e.kind = "complete" /\ e.approved <= now'
  BY DEF AuditHolds
<1>1. /\ workflow = "ci" /\ registry' = registry
      /\ latest \in Files /\ step \in 1..Stopped
  BY DEF TypeOK, Next, vars, Assure, AssuranceDies, Report, EvaluateFlaky, ValidateExceptions,
     ValidationDies, EvaluatePromotion, PromotionDies, Upload, Download, CreateBundle,
     SignBundle, Tick, EditRegistry
<1>c. now \in Nat
  BY PromotionAssumption DEF TypeOK, Times
<1>a. now' = now \/ now' = now + 1
  BY DEF Next, vars, Assure, AssuranceDies, Report, EvaluateFlaky,
     ValidateExceptions, ValidationDies, EvaluatePromotion, PromotionDies, Upload, Download,
     CreateBundle, SignBundle, Tick, EditRegistry
<1>b. \A e \in registry : e.approved <= now => e.approved <= now'
  BY <1>a, <1>c, EntryType
<1>2. ASSUME step \in {4, 5, 9, 10}, latest'.audit = latest.audit
      PROVE  /\ latest'.audit # None /\ latest'.audit.valid
             /\ \A e \in registry' : /\ e \in latest'.audit.active
                                     /\ e.kind = "complete" /\ e.approved <= now'
  BY <1>1, <1>2, <1>b DEF AuditHolds
<1>3. CASE ValidateExceptions
  <2> DEFINE active == Approved(latest.results.tier)
             tier == latest.results.tier
  <2>1. /\ Turn("validate") /\ Write("audit", [active |-> active, valid |-> active = registry])
        /\ Exit(active = registry) /\ ~AuditDies(tier) /\ now' = now
    BY <1>3 DEF ValidateExceptions
  <2>2. active = registry
    <3>1. (active = registry) \in BOOLEAN
      OBVIOUS
    <3>2. step' = IF active = registry THEN step + 1 ELSE 15
      BY <1>1, <2>1, <3>1, ExitType
    <3> QED
      BY <3>2
  <2>3. latest'.audit = [active |-> active, valid |-> active = registry]
    BY <1>1, <2>1, Writing
  <2>4. latest'.audit # None
    <3>1. [active |-> active, valid |-> active = registry] \in Audits
      BY <2>2 DEF Audits, TypeOK
    <3> QED
      BY <2>3, <3>1, PromotionAssumption
  <2>5. \A e \in registry : e.kind = "complete" /\ e.approved <= now
    <3>1. SUFFICES ASSUME NEW e \in registry PROVE e.kind = "complete" /\ e.approved <= now
      OBVIOUS
    <3>2. e.kind \notin {"partial", "unapproved"} /\ e.tier = tier /\ e.approved <= now
      BY <2>2 DEF Approved, Live
    <3>3. e.kind # "naive"
      BY <2>1, <3>2 DEF AuditDies
    <3>4. e.kind \in Kinds
      BY EntryType DEF Entries
    <3> QED
      BY <3>2, <3>3, <3>4 DEF Kinds
  <2>7. (active = registry) = TRUE
    BY <2>2
  <2>8. latest'.audit = [active |-> registry, valid |-> TRUE]
    BY <2>2, <2>3, <2>7
  <2>6. latest'.audit.valid /\ \A e \in registry : e \in latest'.audit.active
    BY <2>8
  <2> HIDE DEF active, tier
  <2> QED
    BY <1>1, <2>1, <2>4, <2>5, <2>6
<1>4. CASE EvaluateFlaky
  <2>1. latest'.audit = latest.audit
    BY <1>1, <1>4, Writing DEF EvaluateFlaky
  <2>2. step \in {4, 9}
    BY <1>1, <1>4, TurnAt DEF EvaluateFlaky
  <2> QED
    BY <1>2, <2>1, <2>2
<1>5. CASE Tick \/ EditRegistry \/ UNCHANGED vars
  BY <1>1, <1>2, <1>5 DEF Tick, EditRegistry, vars
<1>6. CASE Assure \/ AssuranceDies \/ Report \/ Upload \/ Download \/ CreateBundle \/ SignBundle
  <2>1. \E c \in {"assure", "report", "upload", "download", "bundle", "sign"},
           ok \in BOOLEAN : Turn(c) /\ Exit(ok)
    BY <1>6 DEF Assure, AssuranceDies, Report, Upload, Download, CreateBundle, SignBundle
  <2>2. step \in {1, 2, 6, 7, 11, 12, 13} /\ step' \in {step + 1, 15}
    BY <1>1, <2>1, TurnAt, ExitType
  <2> QED
    BY <2>2
<1>7. CASE ValidationDies \/ PromotionDies
  <2>1. \E c \in {"validate", "promote"} : Turn(c) /\ Exit(FALSE)
    BY <1>7 DEF ValidationDies, PromotionDies
  <2>2. step' = 15
    BY <1>1, <2>1, ExitType
  <2> QED
    BY <2>2
<1>8. CASE EvaluatePromotion
  <2>1. Turn("promote") /\ Exit(Promotable(latest.results)) /\ Promotable(latest.results) \in BOOLEAN
    BY <1>8 DEF EvaluatePromotion, Promotable
  <2>2. step \in {5, 10} /\ step' \in {step + 1, 15}
    BY <1>1, <2>1, TurnAt, ExitType
  <2> QED
    BY <2>2
<1> QED
  BY <1>3, <1>4, <1>5, <1>6, <1>7, <1>8 DEF Next

(* A release takes its steps one by one, or stops; time and a stutter      *)
(* change nothing that it has.                                             *)
LEMMA StepOn ==
  ASSUME TypeOK, [Next]_vars, workflow = "ci"
  PROVE  /\ workflow' = "ci" /\ step \in 1..15
         /\ \/ UNCHANGED <<latest, uploaded, bundle, marks, step>>
            \/ step' \in {step + 1, 15}
<1>1. step \in 1..Stopped /\ step \in 1..15
  BY Steps DEF TypeOK
<1>2. CASE Assure \/ Report \/ EvaluateFlaky \/ Upload \/ Download \/ CreateBundle \/ SignBundle
  <2>1. Exit(TRUE) /\ workflow' = workflow
    BY <1>2 DEF Assure, Report, EvaluateFlaky, Upload, Download, CreateBundle, SignBundle
  <2>2. PICK c : Turn(c)
    BY <1>2 DEF Assure, Report, EvaluateFlaky, Upload, Download, CreateBundle, SignBundle
  <2> QED
    BY <1>1, <2>1, <2>2, ExitType
<1>3. CASE AssuranceDies \/ ValidationDies \/ PromotionDies
  <2>1. Exit(FALSE) /\ workflow' = workflow
    BY <1>3 DEF AssuranceDies, ValidationDies, PromotionDies
  <2>2. PICK c : Turn(c)
    BY <1>3 DEF AssuranceDies, ValidationDies, PromotionDies
  <2> QED
    BY <1>1, <2>1, <2>2, ExitType
<1>4. CASE ValidateExceptions
  <2>1. PICK active : Turn("validate") /\ Exit(active = registry) /\ workflow' = workflow
    BY <1>4 DEF ValidateExceptions
  <2>2. (active = registry) \in BOOLEAN
    OBVIOUS
  <2> QED
    BY <1>1, <2>1, <2>2, ExitType
<1>5. CASE EvaluatePromotion
  <2>1. Turn("promote") /\ Exit(Promotable(latest.results)) /\ workflow' = workflow
    BY <1>5 DEF EvaluatePromotion
  <2>2. Promotable(latest.results) \in BOOLEAN
    BY DEF Promotable
  <2> QED
    BY <1>1, <2>1, <2>2, ExitType
<1>6. CASE Tick \/ EditRegistry \/ UNCHANGED vars
  BY <1>1, <1>6 DEF Tick, EditRegistry, vars
<1> QED
  BY <1>2, <1>4, <1>5, <1>6, <1>3 DEF Next

(* No mark of signing is made before the last step. *)
LEMMA MarksStep ==
  ASSUME TypeOK, MarksComeLast, [Next]_vars
  PROVE  MarksComeLast'
<1> SUFFICES ASSUME workflow' = "ci", step' <= 13 PROVE marks' = {}
  BY DEF MarksComeLast
<1>1. workflow = "ci"
  BY DEF Next, vars, Assure, AssuranceDies, Report, EvaluateFlaky, ValidateExceptions,
     ValidationDies, EvaluatePromotion, PromotionDies, Upload, Download, CreateBundle,
     SignBundle, Tick, EditRegistry
<1>2. step \in 1..15 /\ (step' = step \/ step' = step + 1)
  BY <1>1, StepOn
<1>3. marks = {}
  BY <1>1, <1>2 DEF MarksComeLast
<1>4. ~SignBundle
  <2>1. SUFFICES ASSUME SignBundle PROVE FALSE
    OBVIOUS
  <2>2. Turn("sign") /\ Exit(TRUE)
    BY <2>1 DEF SignBundle
  <2>3. step = 13 /\ step' = step + 1
    BY <1>1, <1>2, <2>2, TurnAt, ExitType, Steps
  <2> QED
    BY <2>3
<1> QED
  BY <1>3, <1>4 DEF Next, vars, Assure, AssuranceDies, Report, EvaluateFlaky, ValidateExceptions,
     ValidationDies, EvaluatePromotion, PromotionDies, Upload, Download, CreateBundle,
     Tick, EditRegistry

(* What has passed the first gate stays backed, and so does its bundle. *)
LEMMA BackedStep ==
  ASSUME TypeOK, ReleaseBacked, BundleHoldsDecision, [Next]_vars
  PROVE  ReleaseBacked' /\ BundleHoldsDecision'
<1> SUFFICES ASSUME workflow' = "ci"
             PROVE  /\ step' \in 6..14 => Backed(latest)'
                    /\ step' \in 7..14 => Backed(uploaded)'
                    /\ bundle' # "other"
  BY Steps DEF ReleaseBacked, BundleHoldsDecision, Done
<1>1. workflow = "ci" /\ latest \in Files
  BY DEF TypeOK, Next, vars, Assure, AssuranceDies, Report, EvaluateFlaky, ValidateExceptions,
     ValidationDies, EvaluatePromotion, PromotionDies, Upload, Download, CreateBundle,
     SignBundle, Tick, EditRegistry
<1>2. /\ step \in 6..14 => Backed(latest)
      /\ step \in 7..14 => Backed(uploaded)
      /\ bundle # "other"
  BY <1>1, Steps DEF ReleaseBacked, BundleHoldsDecision, Done
<1>3. /\ step \in 1..15
      /\ \/ UNCHANGED <<latest, uploaded, bundle, marks, step>>
         \/ step' \in {step + 1, 15}
  BY <1>1, StepOn
<1>4. CASE UNCHANGED <<latest, uploaded, bundle, marks, step>>
  BY <1>2, <1>4 DEF Backed
<1>5. CASE step' = 15
  <2>1. bundle' # "other" \/ CreateBundle
    BY <1>2 DEF Next, vars, Assure, AssuranceDies, Report, EvaluateFlaky, ValidateExceptions,
       ValidationDies, EvaluatePromotion, PromotionDies, Upload, Download, SignBundle, Tick,
       EditRegistry
  <2>2. ~CreateBundle
    <3>1. SUFFICES ASSUME CreateBundle PROVE FALSE
      OBVIOUS
    <3>2. Turn("bundle") /\ Exit(TRUE)
      BY <3>1 DEF CreateBundle
    <3>3. step = 12 /\ step' = step + 1
      BY <1>1, <1>3, <3>2, TurnAt, ExitType, Steps
    <3> QED
      BY <1>5, <3>3
  <2> QED
    BY <1>5, <2>1, <2>2
<1>6. CASE step' = step + 1 /\ (Assure \/ AssuranceDies \/ Report)
  <2>1. (Turn("assure") \/ Turn("report")) /\ bundle' = bundle
    BY <1>6 DEF Assure, AssuranceDies, Report
  <2>2. step \in {1, 2}
    BY <1>1, <2>1, TurnAt
  <2> QED
    BY <1>2, <1>6, <2>1, <2>2
<1>7. CASE step' = step + 1 /\ (EvaluateFlaky \/ ValidateExceptions)
  <2>1. /\ Turn("flaky") \/ Turn("validate")
        /\ uploaded' = uploaded /\ bundle' = bundle
        /\ latest'.results = latest.results /\ latest'.decision = latest.decision
    BY <1>1, <1>7, Writing DEF EvaluateFlaky, ValidateExceptions
  <2>2. step \in {3, 4, 8, 9}
    BY <1>1, <2>1, TurnAt
  <2> QED
    BY <1>2, <1>7, <2>1, <2>2 DEF Backed
<1>8. CASE step' = step + 1 /\ EvaluatePromotion
  <2> DEFINE d == [seen |-> latest.results, used |-> Live(latest.results.tier), at |-> now,
                   passed |-> Promotable(latest.results)]
  <2>1. /\ Turn("promote") /\ latest.results # None /\ Write("decision", d)
        /\ Exit(Promotable(latest.results)) /\ uploaded' = uploaded /\ bundle' = bundle
    BY <1>8 DEF EvaluatePromotion
  <2>2. latest'.decision = d /\ latest'.results = latest.results
    BY <1>1, <2>1, Writing
  <2>3. Promotable(latest.results)
    <3>1. Promotable(latest.results) \in BOOLEAN
      BY DEF Promotable
    <3>2. step \in {5, 10}
      BY <1>1, <2>1, TurnAt
    <3> QED
      BY <1>1, <1>3, <1>8, <2>1, <3>1, <3>2, Steps DEF Exit
  <2>4. d # None
    BY <2>1, VerdictType, PromotionAssumption
  <2>5. d.passed /\ d.seen.run = latest.results.run
    BY <2>3
  <2>6. step \in {5, 10}
    BY <1>1, <2>1, TurnAt
  <2> HIDE DEF d
  <2> QED
    BY <1>2, <1>8, <2>1, <2>2, <2>4, <2>5, <2>6 DEF Backed
<1>9. CASE step' = step + 1 /\ Upload
  <2>1. Turn("upload") /\ uploaded' = latest /\ latest' = latest /\ bundle' = bundle
    BY <1>9 DEF Upload
  <2>2. step = 6
    BY <1>1, <2>1, TurnAt
  <2> QED
    BY <1>2, <2>1, <2>2 DEF Backed
<1>10. CASE step' = step + 1 /\ Download
  <2>1. Turn("download") /\ latest' = uploaded /\ uploaded' = uploaded /\ bundle' = "none"
    BY <1>10 DEF Download
  <2>2. step \in {7, 11}
    BY <1>1, <2>1, TurnAt
  <2> QED
    BY <1>2, <2>1, <2>2 DEF Backed
<1>11. CASE step' = step + 1 /\ CreateBundle
  <2>1. /\ Turn("bundle") /\ latest' = latest /\ uploaded' = uploaded
        /\ bundle' = IF Backed(latest) THEN "backed" ELSE "other"
    BY <1>11 DEF CreateBundle
  <2>2. step = 12
    BY <1>1, <2>1, TurnAt
  <2>3. Backed(latest) /\ Backed(uploaded)
    BY <1>2, <2>2
  <2> QED
    BY <2>1, <2>3 DEF Backed
<1>12. CASE step' = step + 1 /\ SignBundle
  <2>1. Turn("sign") /\ latest' = latest /\ uploaded' = uploaded /\ bundle' = bundle
    BY <1>12 DEF SignBundle
  <2>2. step = 13
    BY <1>1, <2>1, TurnAt
  <2> QED
    BY <1>2, <2>1, <2>2 DEF Backed
<1>13. CASE step' = step + 1 /\ (ValidationDies \/ PromotionDies)
  <2>1. (Turn("validate") \/ Turn("promote")) /\ Exit(FALSE)
    BY <1>13 DEF ValidationDies, PromotionDies
  <2>2. step' = 15 /\ step \in {3, 5, 8, 10}
    BY <1>1, <1>3, <2>1, TurnAt, ExitType, Steps
  <2> QED
    BY <1>13, <2>2
<1>14. CASE Tick \/ EditRegistry \/ UNCHANGED vars
  <2>1. UNCHANGED <<latest, uploaded, bundle, marks, step>>
    BY <1>14 DEF Tick, EditRegistry, vars
  <2> QED
    BY <1>4, <2>1
<1> QED
  BY <1>3, <1>4, <1>5, <1>6, <1>7, <1>8, <1>9, <1>10, <1>11, <1>12, <1>13, <1>14 DEF Next

------------------------------------------------------------------------------
(* Promoting again *)

(* The rules of the gate that exceptions have a part in, with the live     *)
(* ones given                                                              *)
Rules(r, live) ==
  /\ \A t \in Required(r.tier) : r.tests[t] = "pass" \/ \E e \in live : e.control = t
  /\ r.tier = "critical" => live = {}
  /\ Policy.validation => r.validated \/ live # {}
  /\ \A t \in Listed : r.tests[t] = "fail" => t \in Controls /\ \E e \in live : e.control = t

(* Those of a tier that are live at a time                                 *)
LiveAt(entries, tier, t) ==
  {e \in entries : e.kind # "partial" /\ e.tier = tier /\ e.expires > t}

(* Stands, of files and exceptions at a time                               *)
Lasting(f, entries, t) ==
  LET r == f.results IN
  /\ r # None
  /\ \A e \in entries : e.kind # "partial" /\ e.tier = r.tier
  /\ EnoughPasses(r) /\ ~r.critical /\ (Policy.evidence => f.report)
  /\ ~Policy.signed /\ r.tier \notin Signing
  /\ entries = LiveAt(entries, r.tier, t) => Rules(r, LiveAt(entries, r.tier, t))

(* The rules of the gate are those. *)
LEMMA RulesOf ==
  ASSUME NEW r
  PROVE  /\ Live(r.tier) = LiveAt(registry, r.tier, now)
         /\ Rules(r, Live(r.tier)) <=> /\ ControlsHold(r) /\ NoneForCritical(r.tier)
                                       /\ Validated(r) /\ StatusesAllowed(r)
BY DEF Live, LiveAt, Rules, ControlsHold, NoneForCritical, Validated, StatusesAllowed, Waived

(* What stands lasts. *)
LEMMA StandsLasts ==
  /\ Stands(latest) <=> Lasting(latest, registry, now)
  /\ Stands(uploaded) <=> Lasting(uploaded, registry, now)
  /\ Stands(latest)' <=> Lasting(latest', registry', now')
  /\ Stands(uploaded)' <=> Lasting(uploaded', registry', now')
<1>1. Stands(latest) <=> Lasting(latest, registry, now)
  BY RulesOf DEF Stands, Lasting, AllLive
<1>2. Stands(uploaded) <=> Lasting(uploaded, registry, now)
  BY RulesOf DEF Stands, Lasting, AllLive
<1>3. Stands(latest)' <=> Lasting(latest', registry', now')
  BY DEF Stands, Lasting, AllLive, Live, LiveAt, Rules, ControlsHold, NoneForCritical,
     Validated, StatusesAllowed, Waived, EnoughPasses
<1>4. Stands(uploaded)' <=> Lasting(uploaded', registry', now')
  BY DEF Stands, Lasting, AllLive, Live, LiveAt, Rules, ControlsHold, NoneForCritical,
     Validated, StatusesAllowed, Waived, EnoughPasses
<1> QED
  BY <1>1, <1>2, <1>3, <1>4

(* Whether it lasts depends on the results and the report, and time alone  *)
(* does not end it.                                                        *)
LEMMA LastingOn ==
  ASSUME NEW f, NEW g, NEW entries, NEW t \in Nat, NEW u, u = t \/ u = t + 1,
         \A e \in entries : e.expires \in Nat,
         g.results = f.results, g.report = f.report, Lasting(f, entries, t)
  PROVE  Lasting(g, entries, u)
<1> DEFINE r == f.results
<1>1. ASSUME entries = LiveAt(entries, r.tier, u)
      PROVE  Rules(r, LiveAt(entries, r.tier, u))
  <2>1. \A e \in entries : e.expires > u => e.expires > t
    OBVIOUS
  <2>2. entries = LiveAt(entries, r.tier, t)
    BY <1>1, <2>1 DEF LiveAt
  <2>3. Rules(r, entries)
    BY <2>2 DEF Lasting
  <2> QED
    BY <1>1, <2>3
<1>2. EnoughPasses(g.results) <=> EnoughPasses(f.results)
  OBVIOUS
<1> QED
  BY <1>1, <1>2 DEF Lasting

(* What the gate of a release promotes it would promote again.             *)
LEMMA GatePromotes ==
  ASSUME TypeOK, MarksComeLast, workflow = "ci", Turn("promote"), latest.results # None,
         Promotable(latest.results)
  PROVE  Stands(latest)
<1> DEFINE r == latest.results
<1>1. marks = {}
  BY TurnAt DEF MarksComeLast
<1>2. ~Policy.signed /\ r.tier \notin Signing
  BY <1>1 DEF Promotable, SignatureFound
<1>3. \A e \in registry : e.kind # "partial" /\ e.tier = r.tier
  BY DEF Promotable, AllLive, Live
<1> QED
  BY <1>2, <1>3 DEF Promotable, Stands

(* What stands is promoted again, unless an exception has expired.         *)
LEMMA StandsPromotes ==
  ASSUME TypeOK, Stands(latest), latest.flaky # "refused", marks = {},
         \A e \in registry : ~(e.expires <= now)
  PROVE  Promotable(latest.results)
<1> DEFINE r == latest.results
<1>1. \A e \in registry : e.expires > now
  BY EntryType
<1>2. AllLive(r.tier)
  BY <1>1 DEF Stands, AllLive, Live
<1>3. SignatureFound(r.tier)
  BY DEF Stands, SignatureFound
<1> QED
  BY <1>2, <1>3 DEF Stands, Promotable

(* From the first gate of a release to its second the promotion stands.    *)
LEMMA StandsStep ==
  ASSUME TypeOK, MarksComeLast, PromotionStands, [Next]_vars
  PROVE  PromotionStands'
<1> SUFFICES ASSUME workflow' = "ci"
             PROVE  /\ step' \in 6..10 => Stands(latest)'
                    /\ step' \in 7..10 => Stands(uploaded)'
  BY DEF PromotionStands
<1>1. /\ workflow = "ci" /\ latest \in Files /\ registry' = registry
      /\ now' = now \/ now' = now + 1
  BY DEF TypeOK, Next, vars, Assure, AssuranceDies, Report, EvaluateFlaky, ValidateExceptions,
     ValidationDies, EvaluatePromotion, PromotionDies, Upload, Download, CreateBundle,
     SignBundle, Tick, EditRegistry
<1>2. now \in Nat /\ \A e \in registry : e.expires \in Nat
  BY EntryType, PromotionAssumption DEF TypeOK, Times
<1>3. /\ step \in 1..15
      /\ \/ UNCHANGED <<latest, uploaded, bundle, marks, step>>
         \/ step' \in {step + 1, 15}
  BY <1>1, StepOn
<1>4. /\ step \in 6..10 => Lasting(latest, registry, now)
      /\ step \in 7..10 => Lasting(uploaded, registry, now)
  BY <1>1, StandsLasts DEF PromotionStands
<1>5. ASSUME latest'.results = latest.results, latest'.report = latest.report,
             Lasting(latest, registry, now)
      PROVE  Stands(latest)'
  BY <1>1, <1>2, <1>5, LastingOn, StandsLasts
<1>6. ASSUME uploaded' = uploaded, Lasting(uploaded, registry, now)
      PROVE  Stands(uploaded)'
  BY <1>1, <1>2, <1>6, LastingOn, StandsLasts
<1>7. CASE UNCHANGED <<latest, uploaded, bundle, marks, step>>
  BY <1>4, <1>5, <1>6, <1>7
<1>8. CASE step' = 15
  BY <1>8
<1>9. CASE step' = step + 1 /\ (Assure \/ AssuranceDies \/ Report \/ CreateBundle \/ SignBundle)
  <2>1. \E c \in {"assure", "report", "bundle", "sign"} : Turn(c)
    BY <1>9 DEF Assure, AssuranceDies, Report, CreateBundle, SignBundle
  <2>2. step \in {1, 2, 12, 13}
    BY <1>1, <2>1, TurnAt
  <2> QED
    BY <1>9, <2>2
<1>10. CASE step' = step + 1 /\ (EvaluateFlaky \/ ValidateExceptions)
  <2>1. /\ Turn("flaky") \/ Turn("validate")
        /\ uploaded' = uploaded
        /\ latest'.results = latest.results /\ latest'.report = latest.report
    BY <1>1, <1>10, Writing DEF EvaluateFlaky, ValidateExceptions
  <2>2. step \in {3, 4, 8, 9}
    BY <1>1, <2>1, TurnAt
  <2> QED
    BY <1>4, <1>5, <1>6, <1>10, <2>1, <2>2
<1>11. CASE step' = step + 1 /\ EvaluatePromotion
  <2>1. /\ Turn("promote") /\ latest.results # None /\ uploaded' = uploaded
        /\ latest'.results = latest.results /\ latest'.report = latest.report
        /\ Exit(Promotable(latest.results))
    BY <1>1, <1>11, Writing DEF EvaluatePromotion
  <2>2. step \in {5, 10}
    BY <1>1, <2>1, TurnAt
  <2>3. Promotable(latest.results)
    <3>1. Promotable(latest.results) \in BOOLEAN
      BY DEF Promotable
    <3> QED
      BY <1>1, <1>11, <2>1, <2>2, <3>1, Steps DEF Exit
  <2>4. Lasting(latest, registry, now)
    BY <1>1, <2>1, <2>3, GatePromotes, StandsLasts
  <2>5. Stands(latest)'
    BY <1>5, <2>1, <2>4
  <2> QED
    BY <1>11, <2>2, <2>5
<1>12. CASE step' = step + 1 /\ Upload
  <2>1. Turn("upload") /\ uploaded' = latest /\ latest' = latest
    BY <1>12 DEF Upload
  <2>2. step = 6
    BY <1>1, <2>1, TurnAt
  <2>3. Lasting(latest, registry', now')
    BY <1>1, <1>2, <1>4, <2>2, LastingOn
  <2>4. Lasting(latest', registry', now') /\ Lasting(uploaded', registry', now')
    BY <2>1, <2>3
  <2> QED
    BY <2>4, StandsLasts
<1>13. CASE step' = step + 1 /\ Download
  <2>1. Turn("download") /\ latest' = uploaded /\ uploaded' = uploaded
    BY <1>13 DEF Download
  <2>2. step \in {7, 11}
    BY <1>1, <2>1, TurnAt
  <2>3. CASE step = 11
    BY <1>13, <2>3
  <2>4. CASE step = 7
    <3>1. Lasting(uploaded, registry', now')
      BY <1>1, <1>2, <1>4, <2>4, LastingOn
    <3>2. Lasting(latest', registry', now') /\ Lasting(uploaded', registry', now')
      BY <2>1, <3>1
    <3> QED
      BY <3>2, StandsLasts
  <2> QED
    BY <2>2, <2>3, <2>4
<1>14. CASE step' = step + 1 /\ (ValidationDies \/ PromotionDies)
  <2>1. (Turn("validate") \/ Turn("promote")) /\ Exit(FALSE)
    BY <1>14 DEF ValidationDies, PromotionDies
  <2>2. step' = 15 /\ step \in {3, 5, 8, 10}
    BY <1>1, <1>3, <2>1, TurnAt, ExitType, Steps
  <2> QED
    BY <1>8, <2>2
<1>15. CASE Tick \/ EditRegistry \/ UNCHANGED vars
  <2>1. UNCHANGED <<latest, uploaded, bundle, marks, step>>
    BY <1>15 DEF Tick, EditRegistry, vars
  <2> QED
    BY <1>7, <2>1
<1> QED
  BY <1>3, <1>7, <1>8, <1>9, <1>10, <1>11, <1>12, <1>13, <1>14, <1>15 DEF Next

(* At the second gate *)
LEMMA AgreesThere ==
  ASSUME TypeOK, AuditHolds, MarksComeLast, PromotionStands
  PROVE  SecondGateAgrees
<1> SUFFICES ASSUME workflow = "ci", step = 10
             PROVE  /\ ~GateDies(latest.results.tier)
                    /\ Promotable(latest.results)
                         \/ latest.flaky = "refused" \/ \E e \in registry : e.expires <= now
  BY DEF SecondGateAgrees
<1>1. \A e \in registry : e.kind = "complete"
  BY DEF AuditHolds
<1>2. ~GateDies(latest.results.tier)
  BY <1>1 DEF GateDies
<1>3. Stands(latest) /\ marks = {}
  BY DEF PromotionStands, MarksComeLast
<1> QED
  BY <1>2, <1>3, StandsPromotes

------------------------------------------------------------------------------
(* Theorems *)

(* Every step preserves what results and decisions say, and what a release *)
(* has behind it: its audit, the absence of marks, its uploaded files.     *)
THEOREM PromotionInductive == Spec => []IndInv
<1> DEFINE Core == /\ TypeOK /\ Sound(latest) /\ Sound(uploaded)
                   /\ AuditHolds /\ MarksComeLast /\ ReleaseBacked /\ BundleHoldsDecision
                   /\ PromotionStands
<1>1. Init => Core
  <2> SUFFICES ASSUME Init PROVE Core
    OBVIOUS
  <2>1. step = 1 /\ marks = {} /\ bundle = "none" /\ latest = NoFiles /\ uploaded = NoFiles
    BY DEF Init
  <2>2. NoFiles \in Files
    BY DEF NoFiles, Files
  <2>3. TypeOK
    BY <2>2, PromotionAssumption, Steps DEF Init, TypeOK, Times
  <2>4. Sound(latest) /\ Sound(uploaded)
    BY <2>1 DEF Sound, NoFiles
  <2>5. AuditHolds /\ MarksComeLast /\ ReleaseBacked /\ BundleHoldsDecision /\ PromotionStands
    BY <2>1, Steps DEF AuditHolds, MarksComeLast, ReleaseBacked, BundleHoldsDecision, Done,
       PromotionStands
  <2> QED
    BY <2>3, <2>4, <2>5
<1>2. Core /\ [Next]_vars => Core'
  <2> SUFFICES ASSUME Core, [Next]_vars PROVE Core'
    OBVIOUS
  <2>1. TypeOK' /\ Sound(latest)' /\ Sound(uploaded)'
    BY TypeStep, SoundStep
  <2>2. AuditHolds' /\ MarksComeLast' /\ ReleaseBacked' /\ BundleHoldsDecision'
    BY AuditStep, MarksStep, BackedStep
  <2>3. PromotionStands'
    BY StandsStep
  <2> QED
    BY <2>1, <2>2, <2>3
<1>3. Core => IndInv
  BY AgreesThere DEF IndInv
<1> HIDE DEF Core
<1> QED
  BY <1>1, <1>2, <1>3, PTL DEF Spec

(* No promoted build has a failed test (evaluate-promotion.py:main,        *)
(* critical_test_failures of run-assurance.sh).                            *)
THEOREM PromotedHasNoFailure == Spec => []NothingFailedIsPromoted
<1>1. IndInv => NothingFailedIsPromoted
  BY DEF IndInv, Sound, NothingFailedIsPromoted, Promoted
<1> QED
  BY <1>1, PromotionInductive, PTL

(* Each required control of a promoted build passed, or was skipped under  *)
(* an exception that was live at the decision (load_active_exceptions).    *)
THEOREM PromotedIsCovered == Spec => []ControlsAreCovered
<1>1. IndInv => ControlsAreCovered
  BY DEF IndInv, Sound, ControlsAreCovered, Promoted
<1> QED
  BY <1>1, PromotionInductive, PTL

(* The release workflow promotes nothing that a signature is required for, *)
(* because its signing step comes last (ci-release-gate.yml).              *)
THEOREM UnsignedNeverReleased == Spec => []SignedTiersNeverRelease
<1>1. IndInv => SignedTiersNeverRelease
  BY DEF IndInv, Sound, SignedTiersNeverRelease, Promoted
<1> QED
  BY <1>1, PromotionInductive, PTL

(* The bundle of a release holds the decision that promotes its results.   *)
THEOREM BundlesAreBacked == Spec => []BundleHoldsDecision
<1>1. IndInv => BundleHoldsDecision
  BY DEF IndInv
<1> QED
  BY <1>1, PromotionInductive, PTL

(* The second gate of a release judges what the first has promoted, and    *)
(* refuses it only for an exception that expired in between or a flaky     *)
(* policy that refuses now; it never dies (evaluate-promotion.py, twice in *)
(* ci-release-gate.yml, on files handed on by upload and download).        *)
THEOREM GatesAgree == Spec => []SecondGateAgrees
<1>1. IndInv => SecondGateAgrees
  BY DEF IndInv
<1> QED
  BY <1>1, PromotionInductive, PTL

(* s is at least as good as r: nothing that passed passes no longer, and   *)
(* nothing fails that did not.                                             *)
AtLeastAsGood(s, r) ==
  /\ s.tier = r.tier
  /\ \A t \in Tests : r.tests[t] = "pass" => s.tests[t] = "pass"
  /\ \A t \in Tests : s.tests[t] = "fail" => r.tests[t] = "fail"

(* A better outcome, and a file for it, are never refused where a worse    *)
(* one is promoted: the rules of evaluate-promotion.py, which count        *)
(* passes, failures, waivers and the critical failures and validation that *)
(* run-assurance.sh has derived, pull in one direction.                    *)
THEOREM GateIsMonotone ==
  ASSUME NEW r \in Outcomes, NEW s \in Outcomes, AtLeastAsGood(s, r),
         NEW j, NEW k, Promotable(Written(r, j))
  PROVE  Promotable(Written(s, k))
<1> DEFINE a == Written(r, j)
           b == Written(s, k)
<1>1. /\ a.tier = r.tier /\ b.tier = r.tier /\ a.tests = r.tests /\ b.tests = s.tests
      /\ b.critical => a.critical
  BY DEF Written, AtLeastAsGood
<1>2. r.tier \in Tiers /\ s.tier = r.tier
  BY PromotionAssumption DEF AtLeastAsGood
<1>3. Mandatory[r.tier] \subseteq Tests /\ Required(r.tier) \subseteq Tests /\ Listed \subseteq Tests
  BY <1>2, PromotionAssumption DEF Required, Tests
<1>4. a.validated => b.validated
  BY <1>2, <1>3 DEF Written, AtLeastAsGood
<1>5. EnoughPasses(b)
  <2> DEFINE A == {t \in Tests \ Unrated : a.tests[t] = "pass"}
             B == {t \in Tests \ Unrated : b.tests[t] = "pass"}
  <2>1. A \subseteq B
    BY <1>1 DEF AtLeastAsGood
  <2>2. IsFiniteSet(B) /\ IsFiniteSet(A)
    <3>1. IsFiniteSet(Tests)
      BY PromotionAssumption
    <3>2. A \subseteq Tests /\ B \subseteq Tests
      OBVIOUS
    <3> QED
      BY <3>1, <3>2, FS_Subset
  <2>3. Cardinality(A) <= Cardinality(B) /\ Cardinality(A) \in Nat /\ Cardinality(B) \in Nat
    BY <2>1, <2>2, FS_Subset, FS_CardinalityType
  <2>4. Cardinality(A) >= MinPasses
    BY DEF Promotable, EnoughPasses
  <2>5. Cardinality(B) >= MinPasses
    <3> HIDE DEF A, B
    <3> QED
      BY <2>3, <2>4, PromotionAssumption
  <2> QED
    BY <2>5 DEF EnoughPasses
<1> HIDE DEF a, b
<1>6. ControlsHold(b)
  BY <1>1, <1>3 DEF a, Promotable, ControlsHold, AtLeastAsGood
<1>7. StatusesAllowed(b)
  BY <1>1, <1>3 DEF a, Promotable, StatusesAllowed, AtLeastAsGood
<1>8. Validated(b)
  BY <1>1, <1>4 DEF a, Promotable, Validated
<1>9. AllLive(b.tier) /\ NoneForCritical(b.tier) /\ SignatureFound(b.tier) /\ ~b.critical
  BY <1>1 DEF a, Promotable
<1>10. (Policy.evidence => latest.report) /\ latest.flaky # "refused"
  BY DEF Promotable
<1> QED
  BY <1>5, <1>6, <1>7, <1>8, <1>9, <1>10 DEF b, Promotable

(* Only time raises the clock. *)
LEMMA OnlyTick ==
  ASSUME TypeOK, [Next]_vars, now' > now
  PROVE  Tick
<1>1. now \in Nat
  BY PromotionAssumption DEF TypeOK, Times
<1>2. now' # now
  BY <1>1
<1> QED
  BY <1>2 DEF Next, vars, Assure, AssuranceDies, Report, EvaluateFlaky, ValidateExceptions,
     ValidationDies, EvaluatePromotion, PromotionDies, Upload, Download, CreateBundle,
     SignBundle, EditRegistry

(* The passing of time turns no refusal into a promotion (the checks on    *)
(* expires_at in evaluate-promotion.py, taken together).                   *)
THEOREM WaitingIsUseless == Spec => WaitingNeverHelps
<1>1. TypeOK /\ [Next]_vars =>
        [now' > now /\ latest.results # None /\ ~Promotable(latest.results)
         => ~Promotable(latest.results)']_vars
  BY OnlyTick, StillRefused
<1>2. IndInv => TypeOK
  BY DEF IndInv
<1> QED
  BY <1>1, <1>2, PromotionInductive, PTL DEF Spec, WaitingNeverHelps

(* Whoever writes a file in the place of the gate is the gate. *)
LEMMA GateWrites ==
  ASSUME TypeOK, [Next]_vars, workflow = "ci", Turn("promote"), latest' # latest
  PROVE  EvaluatePromotion
<1>1. step \in {5, 10}
  BY TurnAt
<1>2. ~Turn("assure") /\ ~Turn("report") /\ ~Turn("flaky") /\ ~Turn("validate") /\ ~Turn("download")
  BY <1>1, TurnAt
<1> QED
  BY <1>2 DEF Next, vars, Assure, AssuranceDies, Report, EvaluateFlaky, ValidateExceptions,
     ValidationDies, PromotionDies, Upload, Download, CreateBundle, SignBundle, Tick, EditRegistry

(* A release uses no exception that its audit has not approved: the two    *)
(* scripts agree on what is live (validate-exceptions.py runs first).      *)
THEOREM UsesAudited == Spec => UsesAreAudited
<1>1. ASSUME IndInv, [Next]_vars, workflow = "ci", Turn("promote"), latest' # latest,
             latest'.decision.passed
      PROVE  /\ latest.audit # None /\ latest.audit.valid
             /\ \A e \in latest'.decision.used :
                  e \in latest.audit.active /\ e.kind = "complete" /\ e.approved <= now
  <2>1. TypeOK /\ AuditHolds /\ latest \in Files
    BY <1>1 DEF IndInv, TypeOK
  <2>2. EvaluatePromotion
    BY <1>1, <2>1, GateWrites
  <2>3. latest'.decision.used = Live(latest.results.tier)
    BY <2>1, <2>2, Writing DEF EvaluatePromotion
  <2>4. latest'.decision.used \subseteq registry
    BY <2>3 DEF Live
  <2>5. step \in {5, 10}
    BY <1>1, TurnAt
  <2> QED
    BY <1>1, <2>1, <2>4, <2>5 DEF AuditHolds
<1>2. IndInv /\ [Next]_vars =>
        [LET d == latest'.decision IN
           workflow = "ci" /\ Turn("promote") /\ latest' # latest /\ d.passed =>
             /\ latest.audit # None /\ latest.audit.valid
             /\ \A e \in d.used : e \in latest.audit.active /\ e.kind = "complete" /\ e.approved <= now]_vars
  BY <1>1
<1> QED
  BY <1>2, PromotionInductive, PTL DEF Spec, UsesAreAudited
=============================================================================
