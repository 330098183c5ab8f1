----------------------------- MODULE Onboarding -----------------------------
(***************************************************************************)
(* Onboarding of services: onboard-service.py, preflight.py,               *)
(* onboarding-score.py, onboarding-plan.py and the onboarding rows of      *)
(* export-assurance-metrics.py, as make starts them from several terminals *)
(* of one checkout.  Some of the files are kept under version control and  *)
(* some are artifacts that make clean removes; a preflight has one summary *)
(* for all modules; a command may be interrupted between two files.        *)
(*                                                                         *)
(* The "history" variables are for the properties and nothing reads them.  *)
(* An operator introduced as a "slip" is the definition after it with a    *)
(* mistake in it; the behaviours never use it.                             *)
(***************************************************************************)
EXTENDS Integers

CONSTANTS
  Services,      \* services that are onboarded
  Modules,       \* what a preflight may be told to be about
  Owners, Types, Tiers,
  Kinds,         \* config/module-profiles: checks and escalation of each type
  HandWritten,   \* profiles that people write or edit themselves
  Terminals,     \* where make is run
  MaxCommands,   \* bound: commands that are started
  None           \* no file, no value

Stages    == {"A", "B", "C"}
Spellings == Stages \cup {"a", "b", "c"}

(* config/services/SERVICE.json                                            *)
Profiles ==
  [owners : SUBSET Owners, type : Types \cup {None}, tier : Tiers \cup {None},
   stage : Spellings \cup {None}]

ASSUME OnboardingAssumption ==
  /\ Services \subseteq Modules /\ HandWritten \subseteq Profiles
  /\ MaxCommands \in Nat
  /\ \A t \in Types : /\ Kinds[t].tier \in Tiers
                      /\ {"minimal", "extra", "tiers"} \subseteq DOMAIN Kinds[t]

VARIABLES
  profile, checklist,        \* in the repository: config/services, docs/generated
  shared,                    \* in the repository: the documents every service needs
  snippet, card, plan, text, \* artifacts/latest/onboarding, of each service
  summary,                   \* artifacts/latest/preflight-summary.json
  results,                   \* whether artifacts/latest/results.json is there
  gauges,                    \* the onboarding rows of assurance.prom
  jobs,                      \* what each terminal is doing
  commands,                  \* how many have been started
  onboarded, vetted, declared  \* history

repo    == <<profile, checklist, shared>>
latest  == <<snippet, card, plan, text>>
history == <<onboarded, vetted, declared>>
vars    == <<repo, latest, summary, results, gauges, jobs, commands, history>>

------------------------------------------------------------------------------
(* Rules *)

Upper(x) ==
  CASE x = "a" -> "A" [] x = "b" -> "B" [] x = "c" -> "C" [] OTHER -> x

Worth(ok) == IF ok THEN 20 ELSE 0

Score(c) ==
  Worth(c.owners) + Worth(c.profile) + Worth(c.checks) + Worth(c.dashboard)
    + Worth(c.exceptions)

(* slip: what is in progress counts as ready.                              *)
ReadinessTooSoon(c) ==
  IF Score(c) >= 60 THEN "ready" ELSE "not-ready"

Readiness(c) ==
  IF Score(c) >= 80 THEN "ready" ELSE IF Score(c) >= 60 THEN "in-progress" ELSE "not-ready"

(* Why the extra checks of a type are run, if they are                     *)
Escalation(kind, failed, tier, touched) ==
  IF failed # {} THEN "minimal-check-failure"
  ELSE IF tier \in kind.tiers THEN "risk-tier"
  ELSE IF touched THEN "changed-files" ELSE "none"

(* slip: any passed preflight counts.                                      *)
CreditedForAny(s, found) == found # None /\ found.passed

(* The one summary counts for the service that it is about.                *)
Credited(s, found) == found # None /\ found.module = s /\ found.passed

------------------------------------------------------------------------------
(* State *)

Cards ==
  [owners : BOOLEAN, profile : BOOLEAN, checks : BOOLEAN, dashboard : BOOLEAN,
   exceptions : BOOLEAN]

Checks == UNION {Kinds[t].minimal \cup Kinds[t].extra : t \in Types}

Summaries ==
  [module : Modules, type : Types, tier : Tiers,
   reason : {"minimal-check-failure", "risk-tier", "changed-files", "none"},
   failed : SUBSET Checks, passed : BOOLEAN]

Rows   == [score : 0..100, ready : BOOLEAN, planned : BOOLEAN, stage : Stages]
Tables == [Services -> Rows \cup {None}]

Steps == {"idle", "profile", "checklist", "snippet", "read profile", "read preflight",
          "score", "plan", "export", "publish"}

(* What a command has been given, and what it has read                     *)
Jobs ==
  [at : Steps, service : Services \cup {None}, profile : Profiles \cup {None},
   checks : BOOLEAN, rows : Tables \cup {None}]

Job(step, s, p, rows) ==
  [at |-> step, service |-> s, profile |-> p, checks |-> FALSE, rows |-> rows]

Idle == Job("idle", None, None, None)

ASSUME NoneAssumption ==
  /\ None \notin Profiles /\ None \notin Cards /\ None \notin Summaries
  /\ None \notin Rows /\ None \notin Tables /\ None \notin Types /\ None \notin Tiers
  /\ None \notin Spellings /\ None \notin Services

TypeOK ==
  /\ profile \in [Services -> Profiles \cup {None}]
  /\ checklist \in [Services -> BOOLEAN]
  /\ shared \subseteq {"dashboard", "exceptions"}
  /\ snippet \in [Services -> BOOLEAN]
  /\ card \in [Services -> Cards \cup {None}]
  /\ plan \in [Services -> Stages \cup {None}]
  /\ text \in [Services -> BOOLEAN]
  /\ summary \in Summaries \cup {None}
  /\ results \in BOOLEAN
  /\ gauges \in Tables \cup {None}
  /\ jobs \in [Terminals -> Jobs]
  /\ commands \in 0..MaxCommands
  /\ onboarded \subseteq Services /\ vetted \subseteq Modules
  /\ declared \subseteq Services \X Stages

Nothing(v) == [s \in Services |-> v]

Init ==
  /\ profile = Nothing(None) /\ checklist = Nothing(FALSE)
  /\ shared \in SUBSET {"dashboard", "exceptions"}
  /\ snippet = Nothing(FALSE) /\ card = Nothing(None)
  /\ plan = Nothing(None) /\ text = Nothing(FALSE)
  /\ summary = None /\ results = FALSE /\ gauges = None
  /\ jobs = [t \in Terminals |-> Idle] /\ commands = 0
  /\ onboarded = {} /\ vetted = {} /\ declared = {}

------------------------------------------------------------------------------
(* Commands *)

At(t, step) == jobs[t].at = step

(* A terminal that is free is given a command.                             *)
Command(t, job) ==
  /\ At(t, "idle") /\ commands < MaxCommands
  /\ commands' = commands + 1
  /\ jobs' = [jobs EXCEPT ![t] = job]

Goes(t, step) == jobs' = [jobs EXCEPT ![t].at = step]

Ends(t) == jobs' = [jobs EXCEPT ![t] = Idle]

(* make goes on to assurance-metrics-export-if-ready.                      *)
GoesOn(t) == jobs' = [jobs EXCEPT ![t] = Job("export", None, None, None)]

(* A list without an owner is refused before anything is written.          *)
Onboard(t) ==
  \E s \in Services, o \in SUBSET Owners, k \in Types, r \in Tiers :
    /\ o # {}
    /\ Command(t, Job("profile", s, [owners |-> o, type |-> k, tier |-> r, stage |-> "A"], None))
    /\ UNCHANGED <<repo, latest, summary, results, gauges, history>>

(* Whatever the stage was before, a service starts again at A.             *)
WriteProfile(t) ==
  LET s == jobs[t].service IN
  /\ At(t, "profile")
  /\ profile' = [profile EXCEPT ![s] = jobs[t].profile]
  /\ declared' = declared \cup {<<s, "A">>}
  /\ Goes(t, "checklist")
  /\ UNCHANGED <<checklist, shared, latest, summary, results, gauges, commands,
                 onboarded, vetted>>

WriteChecklist(t) ==
  /\ At(t, "checklist")
  /\ checklist' = [checklist EXCEPT ![jobs[t].service] = TRUE]
  /\ Goes(t, "snippet")
  /\ UNCHANGED <<profile, shared, latest, summary, results, gauges, commands, history>>

WriteSnippet(t) ==
  LET s == jobs[t].service IN
  /\ At(t, "snippet")
  /\ snippet' = [snippet EXCEPT ![s] = TRUE]
  /\ onboarded' = onboarded \cup {s}
  /\ GoesOn(t)
  /\ UNCHANGED <<repo, card, plan, text, summary, results, gauges, commands, vetted, declared>>

(* The minimal checks of a type and, if there is a reason for them, its    *)
(* extra checks, of which "bad" would fail.  An extra check is a run of    *)
(* the pipeline, which may leave results.                                  *)
Checked(t, m, k, tier, touched, bad) ==
  LET kind   == Kinds[k]
      reason == Escalation(kind, bad \cap kind.minimal, tier, touched)
      failed == bad \cap (kind.minimal \cup (IF reason = "none" THEN {} ELSE kind.extra)) IN
  /\ Command(t, Idle)
  /\ summary' = [module |-> m, type |-> k, tier |-> tier, reason |-> reason,
                 failed |-> failed, passed |-> failed = {}]
  /\ results' \in {results, results \/ reason # "none"}
  /\ vetted' = IF /\ bad \cap kind.minimal = {}
                  /\ tier \in kind.tiers \/ touched => bad \cap kind.extra = {}
               THEN vetted \cup {m} ELSE vetted
  /\ UNCHANGED <<repo, latest, gauges, onboarded, declared>>

(* The type and the tier are those of the command line, or the type's own  *)
(* tier: never those of the service.                                       *)
Preflight(t) ==
  \E m \in Modules, k \in Types, r \in Tiers \cup {None}, touched \in BOOLEAN,
     bad \in SUBSET Checks :
    Checked(t, m, k, IF r = None THEN Kinds[k].tier ELSE r, touched, bad)

AskForScore(t) ==
  /\ \E s \in Services : Command(t, Job("read profile", s, None, None))
  /\ UNCHANGED <<repo, latest, summary, results, gauges, history>>

ReadProfile(t) ==
  /\ At(t, "read profile")
  /\ jobs' = [jobs EXCEPT ![t].at = "read preflight", ![t].profile = profile[jobs[t].service]]
  /\ UNCHANGED <<repo, latest, summary, results, gauges, commands, history>>

ReadPreflight(t) ==
  /\ At(t, "read preflight")
  /\ jobs' = [jobs EXCEPT ![t].at = "score", ![t].checks = Credited(jobs[t].service, summary)]
  /\ UNCHANGED <<repo, latest, summary, results, gauges, commands, history>>

(* The fields are those that were read; whether files exist is asked now.  *)
CardOf(s, read, checks) ==
  [owners     |-> read # None /\ read.owners # {} /\ snippet[s],
   profile    |-> /\ profile[s] # None /\ checklist[s]
                  /\ read # None /\ read.type # None /\ read.tier # None,
   checks     |-> checks,
   dashboard  |-> "dashboard" \in shared,
   exceptions |-> "exceptions" \in shared]

WriteScore(t) ==
  LET s == jobs[t].service IN
  /\ At(t, "score")
  /\ card' = [card EXCEPT ![s] = CardOf(s, jobs[t].profile, jobs[t].checks)]
  /\ GoesOn(t)
  /\ UNCHANGED <<repo, snippet, plan, text, summary, results, gauges, commands, history>>

(* tee has made the file when the script starts, and the script's failure  *)
(* is not the pipe's.                                                      *)
AskForPlan(t) ==
  \E s \in Services :
    /\ Command(t, Job("plan", s, None, None))
    /\ text' = [text EXCEPT ![s] = TRUE]
    /\ UNCHANGED <<repo, snippet, card, plan, summary, results, gauges, history>>

StageIn(p) == IF p.stage = None THEN "A" ELSE Upper(p.stage)

WritePlan(t) ==
  LET s == jobs[t].service IN
  /\ At(t, "plan")
  /\ plan' = IF profile[s] = None THEN plan ELSE [plan EXCEPT ![s] = StageIn(profile[s])]
  /\ GoesOn(t)
  /\ UNCHANGED <<repo, snippet, card, text, summary, results, gauges, commands, history>>

------------------------------------------------------------------------------
(* Export *)

(* A service has a row if it has an artifact; its profile's stage goes     *)
(* before the one of its plan.                                             *)
Row(s) ==
  [score   |-> IF card[s] = None THEN 0 ELSE Score(card[s]),
   ready   |-> card[s] # None /\ Readiness(card[s]) = "ready",
   planned |-> text[s],
   stage   |-> IF profile[s] # None /\ profile[s].stage # None THEN Upper(profile[s].stage)
               ELSE IF plan[s] # None THEN plan[s] ELSE "A"]

RowsNow ==
  [s \in Services |-> IF card[s] # None \/ text[s] \/ plan[s] # None THEN Row(s) ELSE None]

(* make run-assurance leaves results and exports.                          *)
RunAssurance(t) ==
  /\ Command(t, Job("export", None, None, None))
  /\ results' = TRUE
  /\ UNCHANGED <<repo, latest, summary, gauges, history>>

(* Without results there is nothing to export.                             *)
Gather(t) ==
  /\ At(t, "export")
  /\ jobs' = [jobs EXCEPT ![t] =
       IF results THEN Job("publish", None, None, RowsNow) ELSE Idle]
  /\ UNCHANGED <<repo, latest, summary, results, gauges, commands, history>>

(* The file is replaced as a whole, by what was read before.               *)
Publish(t) ==
  /\ At(t, "publish")
  /\ gauges' = jobs[t].rows
  /\ Ends(t)
  /\ UNCHANGED <<repo, latest, summary, results, commands, history>>

------------------------------------------------------------------------------
(* People *)

(* A profile is written or edited by hand, for a new stage or without the  *)
(* fields that onboarding would write.                                     *)
EditProfile(s) ==
  \E p \in HandWritten :
    /\ profile' = [profile EXCEPT ![s] = p]
    /\ declared' = declared \cup {<<s, StageIn(p)>>}
    /\ UNCHANGED <<checklist, shared, latest, summary, results, gauges, jobs, commands,
                   onboarded, vetted>>

Interrupt(t) ==
  /\ ~At(t, "idle") /\ Ends(t)
  /\ UNCHANGED <<repo, latest, summary, results, gauges, commands, history>>

(* make clean, when nothing else runs: artifacts go, the repository stays. *)
Clean ==
  /\ \A t \in Terminals : At(t, "idle")
  /\ snippet' = Nothing(FALSE) /\ card' = Nothing(None)
  /\ plan' = Nothing(None) /\ text' = Nothing(FALSE)
  /\ summary' = None /\ results' = FALSE /\ gauges' = None
  /\ UNCHANGED <<repo, jobs, commands, history>>

Step(t) ==
  \/ WriteProfile(t) \/ WriteChecklist(t) \/ WriteSnippet(t)
  \/ ReadProfile(t) \/ ReadPreflight(t) \/ WriteScore(t)
  \/ WritePlan(t) \/ Gather(t) \/ Publish(t)

Ask(t) ==
  Onboard(t) \/ Preflight(t) \/ AskForScore(t) \/ AskForPlan(t) \/ RunAssurance(t)

Next ==
  \/ \E t \in Terminals : Ask(t) \/ Step(t) \/ Interrupt(t)
  \/ \E s \in Services : EditProfile(s)
  \/ Clean

Spec == Init /\ [][Next]_vars

------------------------------------------------------------------------------
(* Properties *)

(* The rows that are published, and those that are about to be             *)
Shown == {gauges} \cup {jobs[t].rows : t \in Terminals}

(* A service that the dashboard shows as ready has a profile and a         *)
(* checklist, whatever its score has lost (a service without them loses    *)
(* two categories of 20), and it is there because an onboarding of this    *)
(* service came to its end or a preflight about it went well: never by     *)
(* another module's preflight, nor by files that an interrupted onboarding *)
(* has left (onboarding-score.py:57-86, onboard-service.py:104-112).       *)
ReadyIsEarned ==
  \A table \in Shown \ {None} : \A s \in Services :
    table[s] # None /\ table[s].ready =>
      /\ profile[s] # None /\ checklist[s]
      /\ s \in onboarded \/ s \in vetted

(* A snippet is written after the profile and the checklist.               *)
InOrder ==
  /\ \A s \in Services : snippet[s] => profile[s] # None /\ checklist[s] /\ s \in onboarded
  /\ \A t \in Terminals :
       LET s == jobs[t].service IN
       /\ jobs[t].at \notin {"idle", "export", "publish"} => s \in Services
       /\ jobs[t].at = "profile" => jobs[t].profile # None /\ jobs[t].profile.stage = "A"
       /\ jobs[t].at \in {"checklist", "snippet"} => profile[s] # None
       /\ jobs[t].at = "snippet" => checklist[s]

(* What a score has read of a service that lives on                        *)
ReadBefore ==
  \A t \in Terminals :
    /\ jobs[t].at \in {"read preflight", "score"} /\ jobs[t].profile # None =>
         profile[jobs[t].service] # None
    /\ jobs[t].at = "score" /\ jobs[t].checks => jobs[t].service \in vetted
    /\ jobs[t].at = "publish" => jobs[t].rows # None

(* A preflight passes when all that its escalation asks for has passed.    *)
SummaryHolds ==
  summary # None =>
    /\ summary.passed <=> summary.failed = {}
    /\ summary.passed => summary.module \in vetted
    /\ summary.tier \in Kinds[summary.type].tiers => summary.reason # "none"

CardsHold ==
  \A s \in Services : card[s] # None =>
    /\ card[s].owners => profile[s] # None /\ checklist[s] /\ s \in onboarded
    /\ card[s].profile => profile[s] # None /\ checklist[s]
    /\ card[s].checks => s \in vetted

(* A stage that is shown or planned was in the profile once, or is the     *)
(* first: the stage a service is to reach is not one it has.               *)
StagesWereSet ==
  \A s \in Services :
    /\ profile[s] # None => <<s, StageIn(profile[s])>> \in declared
    /\ plan[s] # None => <<s, plan[s]>> \in declared
    /\ \A table \in Shown \ {None} :
         table[s] # None => table[s].stage = "A" \/ <<s, table[s].stage>> \in declared

IndInv ==
  /\ TypeOK /\ InOrder /\ ReadBefore /\ SummaryHolds /\ CardsHold /\ StagesWereSet
  /\ ReadyIsEarned
=============================================================================
