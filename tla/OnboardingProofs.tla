-------------------------- MODULE OnboardingProofs --------------------------
(***************************************************************************)
(* What onboarding keeps, for any services, check profiles, hand-written   *)
(* profiles and terminals.  Nothing that a score relies on is ever taken   *)
(* back (Grows), so that what was true when a command read it is true when *)
(* it writes; a score of 80 lacks one category only (LacksOne).            *)
(***************************************************************************)
EXTENDS Onboarding, TLAPS

(* At 80 of 100 one category may be missing. *)
LEMMA LacksOne ==
  ASSUME NEW c \in Cards, Readiness(c) = "ready"
  PROVE  /\ c.owners \/ c.profile
         /\ c.owners \/ c.checks
<1>1. /\ c.owners \in BOOLEAN /\ c.profile \in BOOLEAN /\ c.checks \in BOOLEAN
      /\ c.dashboard \in BOOLEAN /\ c.exceptions \in BOOLEAN
  BY DEF Cards
<1>2. Score(c) >= 80
  BY <1>1 DEF Readiness, Score, Worth
<1> QED
  BY <1>1, <1>2 DEF Score, Worth

LEMMA ScoreBounds ==
  ASSUME NEW c \in Cards
  PROVE  Score(c) \in 0..100
<1>1. /\ c.owners \in BOOLEAN /\ c.profile \in BOOLEAN /\ c.checks \in BOOLEAN
      /\ c.dashboard \in BOOLEAN /\ c.exceptions \in BOOLEAN
  BY DEF Cards
<1> QED
  BY <1>1 DEF Score, Worth

LEMMA UpperType ==
  ASSUME NEW x \in Spellings
  PROVE  Upper(x) \in Stages
BY DEF Spellings, Stages, Upper

LEMMA StageType ==
  ASSUME NEW p \in Profiles
  PROVE  StageIn(p) \in Stages /\ (p.stage # None => StageIn(p) = Upper(p.stage))
<1>1. p.stage \in Spellings \cup {None}
  BY DEF Profiles
<1>2. "A" \in Stages
  BY DEF Stages
<1> QED
  BY <1>1, <1>2, UpperType DEF StageIn

------------------------------------------------------------------------------
(* Jobs *)

LEMMA IdleType == Idle \in Jobs /\ Idle.at = "idle" /\ Idle.rows = None
BY DEF Idle, Job, Jobs, Steps

(* A command is in one terminal, and has no rows yet. *)
LEMMA Commanded ==
  ASSUME TypeOK, NEW t \in Terminals, NEW j \in Jobs, Command(t, j)
  PROVE  /\ jobs' \in [Terminals -> Jobs] /\ commands' \in 0..MaxCommands
         /\ jobs'[t] = j /\ \A u \in Terminals \ {t} : jobs'[u] = jobs[u]
<1>1. MaxCommands \in Nat
  BY OnboardingAssumption
<1> QED
  BY <1>1 DEF TypeOK, Command

LEMMA Going ==
  ASSUME TypeOK, NEW t \in Terminals, NEW step \in Steps, Goes(t, step)
  PROVE  /\ jobs' \in [Terminals -> Jobs]
         /\ jobs'[t] = [jobs[t] EXCEPT !.at = step]
         /\ jobs'[t].at = step /\ jobs'[t].service = jobs[t].service
         /\ jobs'[t].profile = jobs[t].profile /\ jobs'[t].rows = jobs[t].rows
         /\ jobs'[t].checks = jobs[t].checks
         /\ \A u \in Terminals \ {t} : jobs'[u] = jobs[u]
<1>1. jobs \in [Terminals -> Jobs] /\ jobs[t] \in Jobs
  BY DEF TypeOK
<1>2. [jobs[t] EXCEPT !.at = step] \in Jobs
  BY <1>1 DEF Jobs
<1>3. jobs' = [jobs EXCEPT ![t] = [jobs[t] EXCEPT !.at = step]]
  BY DEF Goes
<1>4. jobs'[t] = [jobs[t] EXCEPT !.at = step] /\ \A u \in Terminals \ {t} : jobs'[u] = jobs[u]
  BY <1>1, <1>3
<1> QED
  BY <1>1, <1>2, <1>3, <1>4 DEF Jobs

LEMMA GoingOn ==
  ASSUME TypeOK, NEW t \in Terminals, GoesOn(t)
  PROVE  /\ jobs' \in [Terminals -> Jobs]
         /\ jobs'[t].at = "export" /\ jobs'[t].rows = None
         /\ \A u \in Terminals \ {t} : jobs'[u] = jobs[u]
<1>1. jobs \in [Terminals -> Jobs]
  BY DEF TypeOK
<1>2. Job("export", None, None, None) \in Jobs
  BY DEF Job, Jobs, Steps
<1>3. Job("export", None, None, None).at = "export" /\ Job("export", None, None, None).rows = None
  BY DEF Job
<1> QED
  BY <1>1, <1>2, <1>3 DEF GoesOn

LEMMA Ending ==
  ASSUME TypeOK, NEW t \in Terminals, Ends(t)
  PROVE  /\ jobs' \in [Terminals -> Jobs]
         /\ jobs'[t] = Idle /\ \A u \in Terminals \ {t} : jobs'[u] = jobs[u]
<1>1. jobs \in [Terminals -> Jobs]
  BY DEF TypeOK
<1> QED
  BY <1>1, IdleType DEF Ends

(* What a command starts with is a job. *)
LEMMA JobType ==
  ASSUME NEW step \in Steps, NEW s \in Services \cup {None}, NEW p \in Profiles \cup {None},
         NEW rows \in Tables \cup {None}
  PROVE  /\ Job(step, s, p, rows) \in Jobs
         /\ Job(step, s, p, rows).at = step /\ Job(step, s, p, rows).service = s
         /\ Job(step, s, p, rows).profile = p /\ Job(step, s, p, rows).rows = rows
         /\ Job(step, s, p, rows).checks = FALSE
BY DEF Job, Jobs

LEMMA NewProfile ==
  ASSUME NEW o \in SUBSET Owners, NEW k \in Types, NEW r \in Tiers
  PROVE  LET p == [owners |-> o, type |-> k, tier |-> r, stage |-> "A"] IN
         p \in Profiles /\ p # None /\ p.stage = "A"
<1> DEFINE p == [owners |-> o, type |-> k, tier |-> r, stage |-> "A"]
<1>1. p \in Profiles /\ p.stage = "A"
  BY DEF Profiles, Spellings, Stages
<1> QED
  BY <1>1, NoneAssumption

------------------------------------------------------------------------------
(* Types *)

LEMMA CardType ==
  ASSUME TypeOK, NEW s \in Services, NEW read, NEW checks \in BOOLEAN
  PROVE  CardOf(s, read, checks) \in Cards
<1> DEFINE own == read # None /\ read.owners # {} /\ snippet[s]
           has == /\ profile[s] # None /\ checklist[s]
                  /\ read # None /\ read.type # None /\ read.tier # None
           das == "dashboard" \in shared
           exc == "exceptions" \in shared
<1>1. own \in BOOLEAN /\ has \in BOOLEAN /\ das \in BOOLEAN /\ exc \in BOOLEAN
  <2>1. own \in BOOLEAN
    OBVIOUS
  <2>2. has \in BOOLEAN
    OBVIOUS
  <2>3. das \in BOOLEAN /\ exc \in BOOLEAN
    OBVIOUS
  <2> QED
    BY <2>1, <2>2, <2>3
<1>2. CardOf(s, read, checks) =
        [owners |-> own, profile |-> has, checks |-> checks, dashboard |-> das, exceptions |-> exc]
  BY Zenon DEF CardOf
<1> HIDE DEF own, has, das, exc
<1> QED
  BY <1>1, <1>2 DEF Cards

LEMMA RowType ==
  ASSUME TypeOK, NEW s \in Services
  PROVE  /\ Row(s) \in Rows
         /\ Row(s).ready <=> card[s] # None /\ Readiness(card[s]) = "ready"
         /\ \/ Row(s).stage = "A"
            \/ profile[s] # None /\ profile[s] \in Profiles /\ Row(s).stage = StageIn(profile[s])
            \/ plan[s] # None /\ Row(s).stage = plan[s]
<1> DEFINE sc == IF card[s] = None THEN 0 ELSE Score(card[s])
           rd == card[s] # None /\ Readiness(card[s]) = "ready"
           st == IF profile[s] # None /\ profile[s].stage # None THEN Upper(profile[s].stage)
                 ELSE IF plan[s] # None THEN plan[s] ELSE "A"
<1>1. /\ card[s] \in Cards \cup {None} /\ text[s] \in BOOLEAN
      /\ profile[s] \in Profiles \cup {None} /\ plan[s] \in Stages \cup {None}
  BY DEF TypeOK
<1>2. sc \in 0..100
  BY <1>1, ScoreBounds
<1>3. rd \in BOOLEAN
  BY Zenon
<1>4. /\ st \in Stages
      /\ \/ st = "A"
         \/ profile[s] # None /\ profile[s] \in Profiles /\ st = StageIn(profile[s])
         \/ plan[s] # None /\ st = plan[s]
  <2>1. CASE profile[s] # None /\ profile[s].stage # None
    <3>1. profile[s] \in Profiles /\ st = Upper(profile[s].stage)
      BY <1>1, <2>1
    <3> QED
      BY <2>1, <3>1, StageType
  <2>2. CASE ~(profile[s] # None /\ profile[s].stage # None)
    BY <1>1, <2>2 DEF Stages
  <2> QED
    BY <2>1, <2>2
<1>5. Row(s) = [score |-> sc, ready |-> rd, planned |-> text[s], stage |-> st]
  BY Zenon DEF Row
<1> HIDE DEF sc, rd, st
<1>6. Row(s) \in Rows /\ Row(s).stage = st /\ Row(s).ready = rd
  BY <1>1, <1>2, <1>3, <1>4, <1>5 DEF Rows
<1> QED
  BY <1>4, <1>6 DEF rd

LEMMA TableType ==
  ASSUME TypeOK
  PROVE  RowsNow \in Tables /\ RowsNow # None
<1>1. \A s \in Services : RowsNow[s] \in Rows \cup {None}
  BY RowType DEF RowsNow
<1>2. RowsNow \in Tables
  BY <1>1 DEF RowsNow, Tables
<1> QED
  BY <1>2, NoneAssumption

(* What a preflight has found out *)
LEMMA SummaryFacts ==
  ASSUME TypeOK, NEW t, NEW m \in Modules, NEW k \in Types, NEW tier \in Tiers,
         NEW touched \in BOOLEAN, NEW bad \in SUBSET Checks,
         Checked(t, m, k, tier, touched, bad)
  PROVE  summary' \in Summaries /\ SummaryHolds'
<1> DEFINE kind == Kinds[k]
           reason == Escalation(kind, bad \cap kind.minimal, tier, touched)
           failed == bad \cap (kind.minimal \cup (IF reason = "none" THEN {} ELSE kind.extra))
           passed == failed = {}
<1>1. /\ reason \in {"minimal-check-failure", "risk-tier", "changed-files", "none"}
      /\ tier \in kind.tiers => reason # "none"
      /\ touched => reason # "none"
  BY DEF Escalation
<1>2. passed \in BOOLEAN /\ (passed <=> failed = {})
  OBVIOUS
<1>3. /\ summary' = [module |-> m, type |-> k, tier |-> tier, reason |-> reason,
                     failed |-> failed, passed |-> passed]
      /\ results' \in {results, results \/ reason # "none"}
      /\ vetted' = IF /\ bad \cap kind.minimal = {}
                      /\ tier \in kind.tiers \/ touched => bad \cap kind.extra = {}
                   THEN vetted \cup {m} ELSE vetted
  BY Zenon DEF Checked
<1>4. passed => m \in vetted'
  BY <1>1, <1>3
<1>5. failed \subseteq Checks
  OBVIOUS
<1> HIDE DEF kind, reason, failed, passed
<1>6. /\ summary' \in Summaries /\ summary'.module = m /\ summary'.tier = tier
      /\ summary'.type = k /\ summary'.failed = failed /\ summary'.reason = reason
      /\ summary'.passed = passed
  BY <1>1, <1>2, <1>3, <1>5 DEF Summaries
<1>7. /\ summary'.module = m
      /\ tier \in Kinds[k].tiers => summary'.reason # "none"
      /\ summary'.tier = tier /\ summary'.type = k
      /\ (summary'.passed = TRUE) <=> (summary'.failed = {})
      /\ (summary'.passed = TRUE) => m \in vetted'
  BY <1>1, <1>2, <1>4, <1>6 DEF kind
<1>8. summary'.passed \in BOOLEAN
  BY <1>2, <1>6
<1> QED
  BY <1>6, <1>7, <1>8 DEF SummaryHolds

(* What a preflight writes *)
LEMMA SummaryType ==
  ASSUME TypeOK, NEW t, NEW m \in Modules, NEW k \in Types, NEW tier \in Tiers,
         NEW touched \in BOOLEAN, NEW bad \in SUBSET Checks,
         Checked(t, m, k, tier, touched, bad)
  PROVE  /\ summary' \in Summaries /\ results' \in BOOLEAN
         /\ vetted' \in {vetted, vetted \cup {m}}
<1>1. summary' \in Summaries
  BY SummaryFacts, Zenon
<1>2. results' \in BOOLEAN /\ vetted' \in {vetted, vetted \cup {m}}
  BY DEF Checked, TypeOK
<1> QED
  BY <1>1, <1>2

LEMMA TierType ==
  ASSUME NEW k \in Types, NEW r \in Tiers \cup {None}
  PROVE  (IF r = None THEN Kinds[k].tier ELSE r) \in Tiers
BY OnboardingAssumption

(* A preflight is of some module, type and tier. *)
LEMMA APreflight ==
  ASSUME NEW t, Preflight(t)
  PROVE  \E m \in Modules, k \in Types, tier \in Tiers, touched \in BOOLEAN, bad \in SUBSET Checks :
           Checked(t, m, k, tier, touched, bad)
<1>1. PICK m \in Modules, k \in Types, r \in Tiers \cup {None}, touched \in BOOLEAN,
           bad \in SUBSET Checks :
        Checked(t, m, k, IF r = None THEN Kinds[k].tier ELSE r, touched, bad)
  BY Zenon DEF Preflight
<1>2. (IF r = None THEN Kinds[k].tier ELSE r) \in Tiers
  BY TierType
<1> QED
  BY <1>1, <1>2, Zenon

(* The commands *)
LEMMA AskTypes ==
  ASSUME TypeOK, NEW t \in Terminals, Ask(t)
  PROVE  TypeOK'
<1>1. ASSUME Onboard(t) PROVE TypeOK'
  <2>1. PICK s \in Services, o \in SUBSET Owners, k \in Types, r \in Tiers :
          /\ Command(t, Job("profile", s, [owners |-> o, type |-> k, tier |-> r, stage |-> "A"], None))
          /\ UNCHANGED <<repo, latest, summary, results, gauges, history>>
    BY <1>1 DEF Onboard
  <2>2. [owners |-> o, type |-> k, tier |-> r, stage |-> "A"] \in Profiles
    BY NewProfile
  <2>3. Job("profile", s, [owners |-> o, type |-> k, tier |-> r, stage |-> "A"], None) \in Jobs
    BY <2>2, JobType DEF Steps
  <2>4. jobs' \in [Terminals -> Jobs] /\ commands' \in 0..MaxCommands
    BY <2>1, <2>3, Commanded
  <2> QED
    BY <2>1, <2>4 DEF TypeOK, repo, latest, history
<1>2. ASSUME Preflight(t) PROVE TypeOK'
  <2>1. PICK m \in Modules, k \in Types, tier \in Tiers, touched \in BOOLEAN, bad \in SUBSET Checks :
          Checked(t, m, k, tier, touched, bad)
    BY <1>2, APreflight
  <2>2. /\ Command(t, Idle)
        /\ UNCHANGED <<repo, latest, gauges, onboarded, declared>>
    BY <2>1 DEF Checked
  <2>3. /\ summary' \in Summaries /\ results' \in BOOLEAN
        /\ vetted' \in {vetted, vetted \cup {m}}
    BY <2>1, SummaryType
  <2>4. jobs' \in [Terminals -> Jobs] /\ commands' \in 0..MaxCommands
    BY <2>2, IdleType, Commanded
  <2>5. vetted' \subseteq Modules
    BY <2>3 DEF TypeOK
  <2> QED
    BY <2>2, <2>3, <2>4, <2>5 DEF TypeOK, repo, latest
<1>3. ASSUME AskForScore(t) PROVE TypeOK'
  <2>1. PICK s \in Services : Command(t, Job("read profile", s, None, None))
    BY <1>3 DEF AskForScore
  <2>2. Job("read profile", s, None, None) \in Jobs
    BY JobType DEF Steps
  <2>3. jobs' \in [Terminals -> Jobs] /\ commands' \in 0..MaxCommands
    BY <2>1, <2>2, Commanded
  <2> QED
    BY <1>3, <2>3 DEF AskForScore, TypeOK, repo, latest, history
<1>4. ASSUME AskForPlan(t) PROVE TypeOK'
  <2>1. PICK s \in Services :
          /\ Command(t, Job("plan", s, None, None))
          /\ text' = [text EXCEPT ![s] = TRUE]
          /\ UNCHANGED <<repo, snippet, card, plan, summary, results, gauges, history>>
    BY <1>4 DEF AskForPlan
  <2>2. Job("plan", s, None, None) \in Jobs
    BY JobType DEF Steps
  <2>3. jobs' \in [Terminals -> Jobs] /\ commands' \in 0..MaxCommands
    BY <2>1, <2>2, Commanded
  <2> QED
    BY <2>1, <2>3 DEF TypeOK, repo, history
<1>5. ASSUME RunAssurance(t) PROVE TypeOK'
  <2>1. /\ Job("export", None, None, None) \in Jobs
        /\ Command(t, Job("export", None, None, None))
    BY <1>5, JobType DEF RunAssurance, Steps
  <2>2. jobs' \in [Terminals -> Jobs] /\ commands' \in 0..MaxCommands
    BY <2>1, Commanded
  <2> QED
    BY <1>5, <2>2 DEF RunAssurance, TypeOK, repo, latest, history
<1> QED
  BY <1>1, <1>2, <1>3, <1>4, <1>5 DEF Ask

(* A terminal that is at work on a service knows which. *)
LEMMA AtWork ==
  ASSUME TypeOK, InOrder, NEW t \in Terminals,
         jobs[t].at \notin {"idle", "export", "publish"}
  PROVE  jobs[t].service \in Services
BY DEF InOrder

(* Their steps *)
LEMMA StepTypes ==
  ASSUME TypeOK, InOrder, ReadBefore, NEW t \in Terminals, Step(t)
  PROVE  TypeOK'
<1> DEFINE s == jobs[t].service
<1>1. /\ jobs \in [Terminals -> Jobs] /\ jobs[t] \in Jobs
      /\ jobs[t].profile \in Profiles \cup {None} /\ jobs[t].checks \in BOOLEAN
      /\ jobs[t].rows \in Tables \cup {None}
  BY DEF TypeOK, Jobs
<1>2. ASSUME WriteProfile(t) PROVE TypeOK'
  <2>1. s \in Services /\ jobs[t].profile \in Profiles
    BY <1>1, <1>2 DEF WriteProfile, At, InOrder
  <2>2. jobs' \in [Terminals -> Jobs]
    BY <1>2, Going DEF WriteProfile, Steps
  <2>3. <<s, "A">> \in Services \X Stages
    BY <2>1 DEF Stages
  <2> QED
    BY <1>2, <2>1, <2>2, <2>3 DEF WriteProfile, TypeOK, latest
<1>3. ASSUME WriteChecklist(t) PROVE TypeOK'
  <2>1. jobs' \in [Terminals -> Jobs]
    BY <1>3, Going DEF WriteChecklist, Steps
  <2> QED
    BY <1>3, <2>1 DEF WriteChecklist, TypeOK, latest, history
<1>4. ASSUME WriteSnippet(t) PROVE TypeOK'
  <2>1. jobs' \in [Terminals -> Jobs]
    BY <1>4, GoingOn DEF WriteSnippet
  <2>2. s \in Services
    BY <1>4, AtWork DEF WriteSnippet, At
  <2> QED
    BY <1>4, <2>1, <2>2 DEF WriteSnippet, TypeOK, repo
<1>5. ASSUME ReadProfile(t) PROVE TypeOK'
  <2>1. s \in Services
    BY <1>5, AtWork DEF ReadProfile, At
  <2>2. profile[s] \in Profiles \cup {None}
    BY <2>1 DEF TypeOK
  <2>3. [jobs[t] EXCEPT !.at = "read preflight", !.profile = profile[s]] \in Jobs
    BY <1>1, <2>2 DEF Jobs, Steps
  <2>4. jobs' = [jobs EXCEPT ![t] = [jobs[t] EXCEPT !.at = "read preflight", !.profile = profile[s]]]
    BY <1>1, <1>5 DEF ReadProfile
  <2>5. jobs' \in [Terminals -> Jobs]
    BY <1>1, <2>3, <2>4
  <2> QED
    BY <1>5, <2>5 DEF ReadProfile, TypeOK, repo, latest, history
<1>6. ASSUME ReadPreflight(t) PROVE TypeOK'
  <2>1. Credited(s, summary) \in BOOLEAN
    BY DEF Credited, TypeOK, Summaries
  <2>2. [jobs[t] EXCEPT !.at = "score", !.checks = Credited(s, summary)] \in Jobs
    BY <1>1, <2>1 DEF Jobs, Steps
  <2>3. jobs' = [jobs EXCEPT ![t] = [jobs[t] EXCEPT !.at = "score", !.checks = Credited(s, summary)]]
    BY <1>1, <1>6 DEF ReadPreflight
  <2>4. jobs' \in [Terminals -> Jobs]
    BY <1>1, <2>2, <2>3
  <2> QED
    BY <1>6, <2>4 DEF ReadPreflight, TypeOK, repo, latest, history
<1>7. ASSUME WriteScore(t) PROVE TypeOK'
  <2>1. s \in Services
    BY <1>7, AtWork DEF WriteScore, At
  <2>2. CardOf(s, jobs[t].profile, jobs[t].checks) \in Cards
    BY <1>1, <2>1, CardType
  <2>3. jobs' \in [Terminals -> Jobs]
    BY <1>7, GoingOn DEF WriteScore
  <2> QED
    BY <1>7, <2>1, <2>2, <2>3 DEF WriteScore, TypeOK, repo, history
<1>8. ASSUME WritePlan(t) PROVE TypeOK'
  <2>1. s \in Services
    BY <1>8, AtWork DEF WritePlan, At
  <2>2. profile[s] # None => StageIn(profile[s]) \in Stages
    BY <2>1, StageType DEF TypeOK
  <2>3. jobs' \in [Terminals -> Jobs]
    BY <1>8, GoingOn DEF WritePlan
  <2>4. plan' \in [Services -> Stages \cup {None}]
    BY <1>8, <2>1, <2>2 DEF WritePlan, TypeOK
  <2> QED
    BY <1>8, <2>3, <2>4 DEF WritePlan, TypeOK, repo, history
<1>9. ASSUME Gather(t) PROVE TypeOK'
  <2>1. Job("publish", None, None, RowsNow) \in Jobs
    BY TableType, JobType DEF Steps
  <2>2. jobs' \in [Terminals -> Jobs]
    BY <1>1, <1>9, <2>1, IdleType DEF Gather
  <2> QED
    BY <1>9, <2>2 DEF Gather, TypeOK, repo, latest, history
<1>10. ASSUME Publish(t) PROVE TypeOK'
  <2>1. jobs' \in [Terminals -> Jobs]
    BY <1>10, Ending DEF Publish
  <2> QED
    BY <1>1, <1>10, <2>1 DEF Publish, TypeOK, repo, latest, history
<1> QED
  BY <1>2, <1>3, <1>4, <1>5, <1>6, <1>7, <1>8, <1>9, <1>10 DEF Step

LEMMA TypesKept ==
  ASSUME TypeOK, InOrder, ReadBefore, [Next]_vars
  PROVE  TypeOK'
<1>1. ASSUME NEW s \in Services, EditProfile(s) PROVE TypeOK'
  <2>1. PICK p \in HandWritten :
          /\ profile' = [profile EXCEPT ![s] = p]
          /\ declared' = declared \cup {<<s, StageIn(p)>>}
    BY <1>1 DEF EditProfile
  <2>2. p \in Profiles
    BY OnboardingAssumption
  <2>3. <<s, StageIn(p)>> \in Services \X Stages
    BY <2>2, StageType
  <2> QED
    BY <1>1, <2>1, <2>2, <2>3 DEF EditProfile, TypeOK, latest
<1>2. ASSUME NEW t \in Terminals, Interrupt(t) PROVE TypeOK'
  <2>1. jobs' \in [Terminals -> Jobs]
    BY <1>2, Ending DEF Interrupt
  <2> QED
    BY <1>2, <2>1 DEF Interrupt, TypeOK, repo, latest, history
<1>3. ASSUME Clean PROVE TypeOK'
  BY <1>3 DEF Clean, TypeOK, Nothing, repo, history
<1>4. ASSUME UNCHANGED vars PROVE TypeOK'
  BY <1>4 DEF TypeOK, vars, repo, latest, history
<1> QED
  BY <1>1, <1>2, <1>3, <1>4, AskTypes, StepTypes DEF Next

------------------------------------------------------------------------------
(* What only grows *)

Grows ==
  /\ \A s \in Services : /\ profile[s] # None => profile'[s] # None
                         /\ checklist[s] => checklist'[s]
  /\ onboarded \subseteq onboarded' /\ vetted \subseteq vetted' /\ declared \subseteq declared'

LEMMA Growing ==
  ASSUME TypeOK, InOrder, [Next]_vars
  PROVE  Grows
<1>1. ASSUME NEW t \in Terminals, WriteProfile(t) PROVE Grows
  BY <1>1 DEF WriteProfile, At, InOrder, TypeOK, Grows
<1>2. ASSUME NEW t \in Terminals, WriteChecklist(t) PROVE Grows
  BY <1>2 DEF WriteChecklist, TypeOK, Grows, history
<1>3. ASSUME NEW t \in Terminals, WriteSnippet(t) PROVE Grows
  BY <1>3 DEF WriteSnippet, Grows, repo
<1>4. ASSUME NEW t \in Terminals, Preflight(t) PROVE Grows
  <2>1. PICK m \in Modules, k \in Types, tier \in Tiers, touched \in BOOLEAN, bad \in SUBSET Checks :
          Checked(t, m, k, tier, touched, bad)
    BY <1>4, APreflight
  <2>2. vetted \subseteq vetted'
    BY <2>1, SummaryType
  <2>3. UNCHANGED <<repo, onboarded, declared>>
    BY <2>1 DEF Checked
  <2> QED
    BY <2>2, <2>3 DEF Grows, repo
<1>5. ASSUME NEW s \in Services, EditProfile(s) PROVE Grows
  <2>1. PICK p \in HandWritten :
          /\ profile' = [profile EXCEPT ![s] = p]
          /\ declared' = declared \cup {<<s, StageIn(p)>>}
    BY <1>5 DEF EditProfile
  <2>2. p # None
    BY OnboardingAssumption, NoneAssumption
  <2> QED
    BY <1>5, <2>1, <2>2 DEF EditProfile, TypeOK, Grows
<1>6. UNCHANGED <<repo, history>> => Grows
  BY DEF Grows, repo, history
<1>7. ASSUME NEW t \in Terminals, Step(t)
      PROVE  UNCHANGED <<repo, history>> \/ WriteProfile(t) \/ WriteChecklist(t) \/ WriteSnippet(t)
  BY <1>7 DEF Step, ReadProfile, ReadPreflight, WriteScore, WritePlan, Gather, Publish
<1>8. ASSUME NEW t \in Terminals, Ask(t)
      PROVE  UNCHANGED <<repo, history>> \/ Preflight(t)
  BY <1>8 DEF Ask, Onboard, AskForScore, AskForPlan, RunAssurance
<1>9. ASSUME (\E t \in Terminals : Interrupt(t)) \/ Clean \/ UNCHANGED vars
      PROVE  UNCHANGED <<repo, history>>
  BY <1>9 DEF Interrupt, Clean, vars
<1> QED
  BY <1>1, <1>2, <1>3, <1>4, <1>5, <1>6, <1>7, <1>8, <1>9 DEF Next

------------------------------------------------------------------------------
(* Terminals *)

(* What InOrder and ReadBefore say of one terminal *)
JobHolds(t) ==
  LET s == jobs[t].service IN
  /\ jobs[t].at \notin {"idle", "export", "publish"} => s \in Services
  /\ jobs[t].at = "profile" => jobs[t].profile # None /\ jobs[t].profile.stage = "A"
  /\ jobs[t].at \in {"checklist", "snippet"} => profile[s] # None
  /\ jobs[t].at = "snippet" => checklist[s]
  /\ jobs[t].at \in {"read preflight", "score"} /\ jobs[t].profile # None => profile[s] # None
  /\ jobs[t].at = "score" /\ jobs[t].checks => s \in vetted
  /\ jobs[t].at = "publish" => jobs[t].rows # None

LEMMA JobsHold ==
  /\ InOrder /\ ReadBefore => \A t \in Terminals : JobHolds(t)
  /\ /\ \A t \in Terminals : JobHolds(t)
     /\ \A s \in Services : snippet[s] => profile[s] # None /\ checklist[s] /\ s \in onboarded
     => InOrder /\ ReadBefore
BY DEF InOrder, ReadBefore, JobHolds

(* A terminal where nothing happens *)
LEMMA Elsewhere ==
  ASSUME Grows, NEW t \in Terminals, JobHolds(t), jobs'[t] = jobs[t]
  PROVE  JobHolds(t)'
BY DEF Grows, JobHolds

(* Where a command ends or goes on to export, nothing is left to hold. *)
LEMMA AtRest ==
  ASSUME NEW t \in Terminals, jobs'[t].at \in {"idle", "export"}
  PROVE  JobHolds(t)'
BY DEF JobHolds

LEMMA AskingHolds ==
  ASSUME TypeOK, NEW t \in Terminals, Ask(t)
  PROVE  JobHolds(t)' /\ \A u \in Terminals \ {t} : jobs'[u] = jobs[u]
<1>1. ASSUME Onboard(t) PROVE JobHolds(t)' /\ \A u \in Terminals \ {t} : jobs'[u] = jobs[u]
  <2>1. PICK s \in Services, o \in SUBSET Owners, k \in Types, r \in Tiers :
          Command(t, Job("profile", s, [owners |-> o, type |-> k, tier |-> r, stage |-> "A"], None))
    BY <1>1 DEF Onboard
  <2> DEFINE p == [owners |-> o, type |-> k, tier |-> r, stage |-> "A"]
             j == Job("profile", s, p, None)
  <2>2. p \in Profiles /\ p # None /\ p.stage = "A"
    BY NewProfile
  <2> HIDE DEF p
  <2>3. j \in Jobs /\ j.at = "profile" /\ j.service = s /\ j.profile = p
    BY <2>2 DEF Job, Jobs, Steps
  <2>4. Command(t, j)
    BY <2>1 DEF p
  <2> HIDE DEF j
  <2>5. jobs'[t] = j /\ \A u \in Terminals \ {t} : jobs'[u] = jobs[u]
    BY <2>3, <2>4, Commanded
  <2> QED
    BY <2>2, <2>3, <2>5 DEF JobHolds
<1>2. ASSUME NEW s \in Services, NEW step \in {"read profile", "plan"},
             Command(t, Job(step, s, None, None))
      PROVE  JobHolds(t)' /\ \A u \in Terminals \ {t} : jobs'[u] = jobs[u]
  <2> DEFINE j == Job(step, s, None, None)
  <2>1. j \in Jobs /\ j.at = step /\ j.service = s
    BY DEF Job, Jobs, Steps
  <2> HIDE DEF j
  <2>2. jobs'[t] = j /\ \A u \in Terminals \ {t} : jobs'[u] = jobs[u]
    BY <1>2, <2>1, Commanded DEF j
  <2> QED
    BY <2>1, <2>2 DEF JobHolds
<1>3. ASSUME NEW j \in {Idle, Job("export", None, None, None)}, Command(t, j)
      PROVE  JobHolds(t)' /\ \A u \in Terminals \ {t} : jobs'[u] = jobs[u]
  <2>1. j \in Jobs /\ j.at \in {"idle", "export"}
    <3>1. Job("export", None, None, None) \in Jobs /\ Job("export", None, None, None).at = "export"
      BY DEF Job, Jobs, Steps
    <3> QED
      BY <1>3, <3>1, IdleType
  <2>2. jobs'[t] = j /\ \A u \in Terminals \ {t} : jobs'[u] = jobs[u]
    BY <1>3, <2>1, Commanded
  <2> QED
    BY <2>1, <2>2, AtRest
<1>4. Preflight(t) => Command(t, Idle)
  BY DEF Preflight, Checked
<1>5. RunAssurance(t) => Command(t, Job("export", None, None, None))
  BY DEF RunAssurance
<1>6. AskForScore(t) => \E s \in Services : Command(t, Job("read profile", s, None, None))
  BY DEF AskForScore
<1>7. AskForPlan(t) => \E s \in Services : Command(t, Job("plan", s, None, None))
  BY DEF AskForPlan
<1> QED
  BY <1>1, <1>2, <1>3, <1>4, <1>5, <1>6, <1>7 DEF Ask

LEMMA SteppingHolds ==
  ASSUME TypeOK, InOrder, ReadBefore, SummaryHolds, Grows, NEW t \in Terminals, Step(t)
  PROVE  JobHolds(t)' /\ \A u \in Terminals \ {t} : jobs'[u] = jobs[u]
<1> DEFINE s == jobs[t].service
           Goal == JobHolds(t)' /\ \A u \in Terminals \ {t} : jobs'[u] = jobs[u]
<1>1. JobHolds(t) /\ jobs \in [Terminals -> Jobs] /\ jobs[t] \in Jobs
  BY JobsHold DEF TypeOK
<1>2. ASSUME WriteProfile(t) PROVE Goal
  <2>1. /\ jobs'[t].at = "checklist" /\ jobs'[t].service = s
        /\ \A u \in Terminals \ {t} : jobs'[u] = jobs[u]
    BY <1>2, Going DEF WriteProfile, Steps
  <2>2. s \in Services /\ profile'[s] # None
    BY <1>1, <1>2 DEF WriteProfile, At, JobHolds, TypeOK
  <2> QED
    BY <2>1, <2>2 DEF JobHolds
<1>3. ASSUME WriteChecklist(t) PROVE Goal
  <2>1. /\ jobs'[t].at = "snippet" /\ jobs'[t].service = s
        /\ \A u \in Terminals \ {t} : jobs'[u] = jobs[u]
    BY <1>3, Going DEF WriteChecklist, Steps
  <2>2. s \in Services /\ profile'[s] # None /\ checklist'[s]
    BY <1>1, <1>3 DEF WriteChecklist, At, JobHolds, TypeOK
  <2> QED
    BY <2>1, <2>2 DEF JobHolds
<1>4. ASSUME GoesOn(t) PROVE Goal
  BY <1>4, GoingOn, AtRest
<1>5. ASSUME ReadProfile(t) PROVE Goal
  <2>1. jobs' = [jobs EXCEPT ![t] = [jobs[t] EXCEPT !.at = "read preflight", !.profile = profile[s]]]
    BY <1>1, <1>5 DEF ReadProfile
  <2>2. jobs'[t] = [jobs[t] EXCEPT !.at = "read preflight", !.profile = profile[s]]
    BY <1>1, <2>1
  <2>3. /\ jobs'[t].at = "read preflight" /\ jobs'[t].service = s
        /\ jobs'[t].profile = profile[s]
        /\ \A u \in Terminals \ {t} : jobs'[u] = jobs[u]
    BY <1>1, <2>1, <2>2 DEF Jobs
  <2>4. s \in Services /\ profile' = profile
    BY <1>1, <1>5 DEF ReadProfile, At, JobHolds, repo
  <2> QED
    BY <2>3, <2>4 DEF JobHolds
<1>6. ASSUME ReadPreflight(t) PROVE Goal
  <2> DEFINE c == Credited(s, summary)
  <2>1. c \in BOOLEAN
    BY DEF Credited, TypeOK, Summaries
  <2>2. c => s \in vetted
    BY DEF Credited, SummaryHolds
  <2>3. jobs' = [jobs EXCEPT ![t] = [jobs[t] EXCEPT !.at = "score", !.checks = c]]
    BY <1>1, <1>6 DEF ReadPreflight
  <2> HIDE DEF c
  <2>4. jobs'[t] = [jobs[t] EXCEPT !.at = "score", !.checks = c]
    BY <1>1, <2>3
  <2>5. /\ jobs'[t].at = "score" /\ jobs'[t].service = s
        /\ jobs'[t].profile = jobs[t].profile /\ jobs'[t].checks = c
        /\ \A u \in Terminals \ {t} : jobs'[u] = jobs[u]
    BY <1>1, <2>3, <2>4 DEF Jobs
  <2>6. s \in Services /\ profile' = profile /\ vetted' = vetted
        /\ (jobs[t].profile # None => profile[s] # None)
    BY <1>1, <1>6 DEF ReadPreflight, At, JobHolds, repo, history
  <2> QED
    BY <2>1, <2>2, <2>5, <2>6 DEF JobHolds
<1>7. ASSUME Gather(t) PROVE Goal
  <2> DEFINE j == Job("publish", None, None, RowsNow)
  <2>1. j.at = "publish" /\ j.rows # None
    BY TableType DEF Job
  <2>2. Idle.at = "idle"
    BY IdleType
  <2>3. jobs' = [jobs EXCEPT ![t] = IF results THEN j ELSE Idle]
    BY <1>7 DEF Gather
  <2> HIDE DEF j
  <2>4. jobs'[t] \in {j, Idle} /\ \A u \in Terminals \ {t} : jobs'[u] = jobs[u]
    BY <1>1, <2>3
  <2> QED
    BY <2>1, <2>2, <2>4 DEF JobHolds
<1>8. ASSUME Publish(t) PROVE Goal
  BY <1>8, Ending, IdleType, AtRest DEF Publish
<1> QED
  BY <1>2, <1>3, <1>4, <1>5, <1>6, <1>7, <1>8 DEF Step, WriteSnippet, WriteScore, WritePlan

LEMMA JobsKept ==
  ASSUME TypeOK, InOrder, ReadBefore, SummaryHolds, Grows, [Next]_vars
  PROVE  \A t \in Terminals : JobHolds(t)'
<1>1. ASSUME NEW t \in Terminals, Ask(t) \/ Step(t) \/ Interrupt(t), NEW u \in Terminals
      PROVE  JobHolds(u)'
  <2>1. JobHolds(t)' /\ \A w \in Terminals \ {t} : jobs'[w] = jobs[w]
    BY <1>1, AskingHolds, SteppingHolds, Ending, IdleType, AtRest DEF Interrupt
  <2> QED
    BY <2>1, JobsHold, Elsewhere
<1>2. ASSUME UNCHANGED jobs, NEW u \in Terminals PROVE JobHolds(u)'
  BY <1>2, JobsHold, Elsewhere
<1> QED
  BY <1>1, <1>2 DEF Next, EditProfile, Clean, vars

(* Snippets *)
LEMMA SnippetsKept ==
  ASSUME TypeOK, InOrder, Grows, [Next]_vars
  PROVE  \A s \in Services : snippet'[s] => profile'[s] # None /\ checklist'[s] /\ s \in onboarded'
<1>1. CASE UNCHANGED snippet
  BY <1>1 DEF InOrder, Grows
<1>2. CASE Clean
  BY <1>2 DEF Clean, Nothing
<1>3. ASSUME NEW t \in Terminals, WriteSnippet(t), NEW s \in Services, snippet'[s]
      PROVE  profile'[s] # None /\ checklist'[s] /\ s \in onboarded'
  <2>1. CASE s = jobs[t].service
    BY <1>3, <2>1 DEF WriteSnippet, At, InOrder, repo
  <2>2. CASE s # jobs[t].service
    BY <1>3, <2>2 DEF WriteSnippet, InOrder, Grows, TypeOK
  <2> QED
    BY <2>1, <2>2
<1>4. ASSUME NEW t \in Terminals, Ask(t) PROVE UNCHANGED snippet
  <2>1. Preflight(t) => UNCHANGED latest
    BY DEF Preflight, Checked
  <2> QED
    BY <1>4, <2>1 DEF Ask, Onboard, AskForScore, AskForPlan, RunAssurance, latest
<1>5. ASSUME NEW t \in Terminals, Step(t) PROVE UNCHANGED snippet \/ WriteSnippet(t)
  BY <1>5 DEF Step, WriteProfile, WriteChecklist, ReadProfile, ReadPreflight, WriteScore,
     WritePlan, Gather, Publish, latest
<1>6. ASSUME NEW t \in Terminals, Interrupt(t) PROVE UNCHANGED snippet
  BY <1>6 DEF Interrupt, latest
<1>7. ASSUME NEW s \in Services, EditProfile(s) PROVE UNCHANGED snippet
  BY <1>7 DEF EditProfile, latest
<1>8. ASSUME UNCHANGED vars PROVE UNCHANGED snippet
  BY <1>8 DEF vars, latest
<1> QED
  BY <1>1, <1>2, <1>3, <1>4, <1>5, <1>6, <1>7, <1>8 DEF Next

------------------------------------------------------------------------------
(* Artifacts *)

LEMMA SummaryKept ==
  ASSUME TypeOK, SummaryHolds, Grows, [Next]_vars
  PROVE  SummaryHolds'
<1>1. CASE UNCHANGED summary
  BY <1>1 DEF SummaryHolds, Grows
<1>2. CASE Clean
  BY <1>2 DEF Clean, SummaryHolds
<1>3. ASSUME NEW t \in Terminals, Preflight(t) PROVE SummaryHolds'
  <2>1. PICK m \in Modules, k \in Types, tier \in Tiers, touched \in BOOLEAN, bad \in SUBSET Checks :
          Checked(t, m, k, tier, touched, bad)
    BY <1>3, APreflight
  <2> QED
    BY <2>1, SummaryFacts
<1>4. ASSUME NEW t \in Terminals, Ask(t) PROVE UNCHANGED summary \/ Preflight(t)
  BY <1>4 DEF Ask, Onboard, AskForScore, AskForPlan, RunAssurance
<1>5. ASSUME NEW t \in Terminals, Step(t) PROVE UNCHANGED summary
  BY <1>5 DEF Step, WriteProfile, WriteChecklist, WriteSnippet, ReadProfile, ReadPreflight,
     WriteScore, WritePlan, Gather, Publish
<1> QED
  BY <1>1, <1>2, <1>3, <1>4, <1>5 DEF Next, Interrupt, EditProfile, vars

(* A score says what was true when the service's files were read. *)
LEMMA CardsKept ==
  ASSUME TypeOK, InOrder, ReadBefore, CardsHold, Grows, [Next]_vars
  PROVE  CardsHold'
<1>1. CASE UNCHANGED card
  BY <1>1 DEF CardsHold, Grows
<1>2. CASE Clean
  BY <1>2 DEF Clean, Nothing, CardsHold
<1>3. ASSUME NEW t \in Terminals, WriteScore(t) PROVE CardsHold'
  <2> DEFINE s == jobs[t].service
             c == CardOf(s, jobs[t].profile, jobs[t].checks)
  <2>1. s \in Services /\ (jobs[t].profile # None => profile[s] # None)
        /\ (jobs[t].checks => s \in vetted)
    BY <1>3 DEF WriteScore, At, InOrder, ReadBefore
  <2>2. /\ c.owners => jobs[t].profile # None /\ snippet[s]
        /\ c.profile => profile[s] # None /\ checklist[s]
        /\ c.checks => jobs[t].checks
    BY DEF CardOf
  <2>3. snippet[s] => profile[s] # None /\ checklist[s] /\ s \in onboarded
    BY <2>1 DEF InOrder
  <2>4. /\ c.owners => profile[s] # None /\ checklist[s] /\ s \in onboarded
        /\ c.profile => profile[s] # None /\ checklist[s]
        /\ c.checks => s \in vetted
    BY <2>1, <2>2, <2>3
  <2>5. card' = [card EXCEPT ![s] = c] /\ UNCHANGED <<profile, checklist, onboarded, vetted>>
    BY <1>3 DEF WriteScore, repo, history
  <2> HIDE DEF c
  <2>6. card'[s] = c /\ \A u \in Services \ {s} : card'[u] = card[u]
    BY <2>1, <2>5 DEF TypeOK
  <2> QED
    BY <2>4, <2>5, <2>6 DEF CardsHold
<1>4. ASSUME NEW t \in Terminals, Ask(t) PROVE UNCHANGED card
  <2>1. Preflight(t) => UNCHANGED latest
    BY DEF Preflight, Checked
  <2> QED
    BY <1>4, <2>1 DEF Ask, Onboard, AskForScore, AskForPlan, RunAssurance, latest
<1>5. ASSUME NEW t \in Terminals, Step(t) PROVE UNCHANGED card \/ WriteScore(t)
  BY <1>5 DEF Step, WriteProfile, WriteChecklist, WriteSnippet, ReadProfile, ReadPreflight,
     WritePlan, Gather, Publish, latest
<1>6. ASSUME NEW t \in Terminals, Interrupt(t) PROVE UNCHANGED card
  BY <1>6 DEF Interrupt, latest
<1>7. ASSUME (\E s \in Services : EditProfile(s)) \/ UNCHANGED vars PROVE UNCHANGED card
  BY <1>7 DEF EditProfile, vars, latest
<1> QED
  BY <1>1, <1>2, <1>3, <1>4, <1>5, <1>6, <1>7 DEF Next

(* The rows of a step were there before, or are those of the state before. *)
LEMMA ShownKept ==
  ASSUME TypeOK, [Next]_vars
  PROVE  Shown' \subseteq Shown \cup {RowsNow, None}
<1> SUFFICES /\ gauges' \in Shown \cup {RowsNow, None}
             /\ \A t \in Terminals : jobs'[t].rows \in Shown \cup {RowsNow, None}
  BY DEF Shown
<1>1. /\ gauges \in Shown /\ \A t \in Terminals : jobs[t].rows \in Shown
      /\ jobs \in [Terminals -> Jobs]
  BY DEF Shown, TypeOK
<1> DEFINE Rest(t) == \A u \in Terminals \ {t} : jobs'[u] = jobs[u]
<1>2. ASSUME NEW t \in Terminals, Ask(t)
      PROVE  UNCHANGED gauges /\ jobs'[t].rows = None /\ Rest(t)
  <2>1. ASSUME NEW j \in Jobs, Command(t, j), j.rows = None PROVE jobs'[t].rows = None /\ Rest(t)
    BY <2>1, Commanded
  <2>2. Preflight(t) => Command(t, Idle) /\ UNCHANGED gauges
    BY DEF Preflight, Checked
  <2>3. Idle \in Jobs /\ Idle.rows = None
    BY IdleType
  <2>4. ASSUME NEW step \in Steps, NEW s \in Services \cup {None}
        PROVE  Job(step, s, None, None) \in Jobs /\ Job(step, s, None, None).rows = None
    BY DEF Job, Jobs
  <2>5. ASSUME Onboard(t) PROVE jobs'[t].rows = None /\ Rest(t)
    <3>1. PICK s \in Services, o \in SUBSET Owners, k \in Types, r \in Tiers :
            Command(t, Job("profile", s, [owners |-> o, type |-> k, tier |-> r, stage |-> "A"], None))
      BY <2>5 DEF Onboard
    <3>2. [owners |-> o, type |-> k, tier |-> r, stage |-> "A"] \in Profiles
      BY NewProfile
    <3> DEFINE j == Job("profile", s, [owners |-> o, type |-> k, tier |-> r, stage |-> "A"], None)
    <3>3. j \in Jobs /\ j.rows = None
      BY <3>2 DEF Job, Jobs, Steps
    <3> HIDE DEF j
    <3> QED
      BY <2>1, <3>1, <3>3 DEF j
  <2>6. ASSUME AskForScore(t) PROVE jobs'[t].rows = None /\ Rest(t)
    BY <2>1, <2>4, <2>6 DEF AskForScore, Steps
  <2>7. ASSUME AskForPlan(t) PROVE jobs'[t].rows = None /\ Rest(t)
    BY <2>1, <2>4, <2>7 DEF AskForPlan, Steps
  <2>8. ASSUME RunAssurance(t) PROVE jobs'[t].rows = None /\ Rest(t)
    BY <2>1, <2>4, <2>8 DEF RunAssurance, Steps
  <2>9. UNCHANGED gauges
    BY <1>2, <2>2 DEF Ask, Onboard, AskForScore, AskForPlan, RunAssurance
  <2> QED
    BY <1>2, <2>1, <2>2, <2>3, <2>5, <2>6, <2>7, <2>8, <2>9 DEF Ask
<1>3. ASSUME NEW t \in Terminals, Step(t)
      PROVE  /\ gauges' \in {gauges, jobs[t].rows}
             /\ jobs'[t].rows \in {jobs[t].rows, None, RowsNow} /\ Rest(t)
  <2> DEFINE Goal == jobs'[t].rows \in {jobs[t].rows, None, RowsNow} /\ Rest(t)
  <2>1. ASSUME NEW step \in Steps, Goes(t, step) PROVE Goal
    BY <2>1, Going
  <2>2. ASSUME GoesOn(t) PROVE Goal
    BY <2>2, GoingOn
  <2>3. ASSUME Ends(t) PROVE Goal
    BY <2>3, Ending, IdleType
  <2>4. ASSUME Gather(t) PROVE Goal
    <3>1. Job("publish", None, None, RowsNow).rows = RowsNow /\ Idle.rows = None
      BY IdleType DEF Job
    <3>2. jobs' = [jobs EXCEPT ![t] = IF results THEN Job("publish", None, None, RowsNow) ELSE Idle]
      BY <2>4 DEF Gather
    <3> QED
      BY <1>1, <3>1, <3>2
  <2>5. ASSUME NEW j, jobs' = [jobs EXCEPT ![t] = j], j.rows = jobs[t].rows PROVE Goal
    BY <1>1, <2>5
  <2>6. ASSUME ReadProfile(t) PROVE Goal
    <3>1. /\ jobs' = [jobs EXCEPT ![t] = [jobs[t] EXCEPT !.at = "read preflight",
                                                        !.profile = profile[jobs[t].service]]]
          /\ jobs[t] \in Jobs
      BY <1>1, <2>6 DEF ReadProfile
    <3> QED
      BY <2>5, <3>1 DEF Jobs
  <2>7. ASSUME ReadPreflight(t) PROVE Goal
    <3>1. /\ jobs' = [jobs EXCEPT ![t] = [jobs[t] EXCEPT !.at = "score",
                                      !.checks = Credited(jobs[t].service, summary)]]
          /\ jobs[t] \in Jobs
      BY <1>1, <2>7 DEF ReadPreflight
    <3> QED
      BY <2>5, <3>1 DEF Jobs
  <2>8. Goal
    BY <1>3, <2>1, <2>2, <2>3, <2>4, <2>6, <2>7 DEF Step, WriteProfile, WriteChecklist,
       WriteSnippet, WriteScore, WritePlan, Publish, Steps
  <2>9. gauges' \in {gauges, jobs[t].rows}
    BY <1>3 DEF Step, WriteProfile, WriteChecklist, WriteSnippet, ReadProfile, ReadPreflight,
       WriteScore, WritePlan, Gather, Publish
  <2> QED
    BY <2>8, <2>9
<1>4. ASSUME NEW t \in Terminals, Interrupt(t)
      PROVE  UNCHANGED gauges /\ jobs'[t].rows = None /\ Rest(t)
  BY <1>4, Ending, IdleType DEF Interrupt
<1>5. ASSUME Clean \/ UNCHANGED vars \/ \E s \in Services : EditProfile(s)
      PROVE  UNCHANGED jobs /\ gauges' \in {gauges, None}
  BY <1>5 DEF Clean, vars, EditProfile
<1> HIDE DEF Rest
<1>6. ASSUME NEW t \in Terminals, jobs'[t].rows \in {jobs[t].rows, None, RowsNow}, Rest(t),
             gauges' \in {gauges, jobs[t].rows}
      PROVE  /\ gauges' \in Shown \cup {RowsNow, None}
             /\ \A u \in Terminals : jobs'[u].rows \in Shown \cup {RowsNow, None}
  BY <1>1, <1>6 DEF Rest
<1> QED
  BY <1>1, <1>2, <1>3, <1>4, <1>5, <1>6 DEF Next

------------------------------------------------------------------------------
(* Rows *)

(* The rows of now hold what is claimed of the dashboard. *)
LEMMA RowsHold ==
  ASSUME TypeOK, CardsHold, StagesWereSet, NEW s \in Services, RowsNow[s] # None
  PROVE  /\ RowsNow[s].ready =>
              /\ profile[s] # None /\ checklist[s]
              /\ s \in onboarded \/ s \in vetted
         /\ RowsNow[s].stage = "A" \/ <<s, RowsNow[s].stage>> \in declared
<1>1. RowsNow[s] = Row(s)
  BY DEF RowsNow
<1>2. /\ Row(s) \in Rows
      /\ Row(s).ready <=> card[s] # None /\ Readiness(card[s]) = "ready"
      /\ \/ Row(s).stage = "A"
         \/ profile[s] # None /\ profile[s] \in Profiles /\ Row(s).stage = StageIn(profile[s])
         \/ plan[s] # None /\ Row(s).stage = plan[s]
  BY RowType
<1>3. ASSUME card[s] # None, Readiness(card[s]) = "ready"
      PROVE  /\ profile[s] # None /\ checklist[s]
             /\ s \in onboarded \/ s \in vetted
  <2>1. card[s] \in Cards
    BY <1>3 DEF TypeOK
  <2>2. /\ card[s].owners \/ card[s].profile
        /\ card[s].owners \/ card[s].checks
    BY <1>3, <2>1, LacksOne
  <2> QED
    BY <1>3, <2>2 DEF CardsHold
<1>4. Row(s).stage = "A" \/ <<s, Row(s).stage>> \in declared
  BY <1>2 DEF StagesWereSet
<1> QED
  BY <1>1, <1>2, <1>3, <1>4

LEMMA ReadyKept ==
  ASSUME TypeOK, CardsHold, StagesWereSet, ReadyIsEarned, Grows, [Next]_vars
  PROVE  ReadyIsEarned'
<1> SUFFICES ASSUME NEW table \in Shown', table # None, NEW s \in Services,
                    table[s] # None, table[s].ready
             PROVE  /\ profile'[s] # None /\ checklist'[s]
                    /\ s \in onboarded' \/ s \in vetted'
  BY DEF ReadyIsEarned
<1>1. table \in Shown \/ table = RowsNow
  BY ShownKept
<1>2. /\ profile[s] # None /\ checklist[s]
      /\ s \in onboarded \/ s \in vetted
  BY <1>1, RowsHold DEF ReadyIsEarned
<1> QED
  BY <1>2 DEF Grows

LEMMA StagesKept ==
  ASSUME TypeOK, InOrder, CardsHold, StagesWereSet, Grows, [Next]_vars
  PROVE  StagesWereSet'
<1>1. ASSUME NEW table \in Shown', table # None, NEW s \in Services, table[s] # None
      PROVE  table[s].stage = "A" \/ <<s, table[s].stage>> \in declared'
  <2>1. table \in Shown \/ table = RowsNow
    BY <1>1, ShownKept
  <2>2. table[s].stage = "A" \/ <<s, table[s].stage>> \in declared
    BY <1>1, <2>1, RowsHold DEF StagesWereSet
  <2> QED
    BY <2>2 DEF Grows
<1>2. ASSUME NEW s \in Services, profile'[s] # None
      PROVE  <<s, StageIn(profile'[s])>> \in declared'
  <2>1. CASE UNCHANGED profile
    BY <1>2, <2>1 DEF StagesWereSet, Grows
  <2>2. ASSUME NEW t \in Terminals, WriteProfile(t) PROVE <<s, StageIn(profile'[s])>> \in declared'
    <3>1. /\ jobs[t].profile # None /\ jobs[t].profile.stage = "A" /\ jobs[t].service \in Services
          /\ profile' = [profile EXCEPT ![jobs[t].service] = jobs[t].profile]
          /\ declared' = declared \cup {<<jobs[t].service, "A">>}
      BY <2>2 DEF WriteProfile, At, InOrder
    <3>2. "A" \in Spellings
      BY DEF Spellings, Stages
    <3>3. StageIn(jobs[t].profile) = "A"
      BY <3>1, <3>2, NoneAssumption DEF StageIn, Upper
    <3>4. CASE s = jobs[t].service
      BY <3>1, <3>3, <3>4 DEF TypeOK
    <3>5. CASE s # jobs[t].service
      BY <1>2, <3>1, <3>5 DEF StagesWereSet, TypeOK
    <3> QED
      BY <3>4, <3>5
  <2>3. ASSUME NEW u \in Services, EditProfile(u) PROVE <<s, StageIn(profile'[s])>> \in declared'
    <3>1. PICK p \in HandWritten :
            /\ profile' = [profile EXCEPT ![u] = p]
            /\ declared' = declared \cup {<<u, StageIn(p)>>}
      BY <2>3 DEF EditProfile
    <3> QED
      BY <1>2, <3>1 DEF StagesWereSet, TypeOK
  <2>4. ASSUME NEW t \in Terminals, Ask(t) PROVE UNCHANGED profile
    <3>1. Preflight(t) => UNCHANGED repo
      BY DEF Preflight, Checked
    <3> QED
      BY <2>4, <3>1 DEF Ask, Onboard, AskForScore, AskForPlan, RunAssurance, repo
  <2>5. ASSUME NEW t \in Terminals, Step(t) PROVE UNCHANGED profile \/ WriteProfile(t)
    BY <2>5 DEF Step, WriteChecklist, WriteSnippet, ReadProfile, ReadPreflight, WriteScore,
       WritePlan, Gather, Publish, repo
  <2>6. ASSUME (\E t \in Terminals : Interrupt(t)) \/ Clean \/ UNCHANGED vars
        PROVE  UNCHANGED profile
    BY <2>6 DEF Interrupt, Clean, vars, repo
  <2> QED
    BY <2>1, <2>2, <2>3, <2>4, <2>5, <2>6 DEF Next
<1>3. ASSUME NEW s \in Services, plan'[s] # None
      PROVE  <<s, plan'[s]>> \in declared'
  <2>1. CASE UNCHANGED plan
    BY <1>3, <2>1 DEF StagesWereSet, Grows
  <2>2. CASE Clean
    BY <1>3, <2>2 DEF Clean, Nothing
  <2>3. ASSUME NEW t \in Terminals, WritePlan(t) PROVE <<s, plan'[s]>> \in declared'
    <3>1. plan'[s] = plan[s] \/ (profile[s] # None /\ plan'[s] = StageIn(profile[s]))
      BY <2>3 DEF WritePlan, TypeOK
    <3> QED
      BY <1>3, <3>1 DEF StagesWereSet, Grows
  <2>4. ASSUME NEW t \in Terminals, Ask(t) PROVE UNCHANGED plan
    <3>1. Preflight(t) => UNCHANGED latest
      BY DEF Preflight, Checked
    <3> QED
      BY <2>4, <3>1 DEF Ask, Onboard, AskForScore, AskForPlan, RunAssurance, latest
  <2>5. ASSUME NEW t \in Terminals, Step(t) PROVE UNCHANGED plan \/ WritePlan(t)
    BY <2>5 DEF Step, WriteProfile, WriteChecklist, WriteSnippet, ReadProfile, ReadPreflight,
       WriteScore, Gather, Publish, latest
  <2>6. ASSUME NEW t \in Terminals, Interrupt(t) PROVE UNCHANGED plan
    BY <2>6 DEF Interrupt, latest
  <2>7. ASSUME (\E u \in Services : EditProfile(u)) \/ UNCHANGED vars PROVE UNCHANGED plan
    BY <2>7 DEF EditProfile, vars, latest
  <2> QED
    BY <2>1, <2>2, <2>3, <2>4, <2>5, <2>6, <2>7 DEF Next
<1> QED
  BY <1>1, <1>2, <1>3 DEF StagesWereSet

------------------------------------------------------------------------------
(* Theorems *)

LEMMA OnboardingInit == Init => IndInv
<1> SUFFICES ASSUME Init PROVE IndInv
  OBVIOUS
<1>1. /\ Idle \in Jobs /\ Idle.at = "idle" /\ Idle.rows = None
      /\ MaxCommands \in Nat
  BY IdleType, OnboardingAssumption
<1>2. TypeOK
  <2>1. /\ profile \in [Services -> Profiles \cup {None}] /\ checklist \in [Services -> BOOLEAN]
        /\ snippet \in [Services -> BOOLEAN] /\ card \in [Services -> Cards \cup {None}]
        /\ plan \in [Services -> Stages \cup {None}] /\ text \in [Services -> BOOLEAN]
    BY DEF Init, Nothing
  <2>2. jobs \in [Terminals -> Jobs] /\ commands \in 0..MaxCommands
    BY <1>1 DEF Init
  <2>3. /\ shared \subseteq {"dashboard", "exceptions"} /\ results \in BOOLEAN
        /\ summary \in Summaries \cup {None} /\ gauges \in Tables \cup {None}
        /\ onboarded \subseteq Services /\ vetted \subseteq Modules
        /\ declared \subseteq Services \X Stages
    BY DEF Init
  <2> QED
    BY <2>1, <2>2, <2>3 DEF TypeOK
<1>3. Shown \subseteq {None}
  BY <1>1 DEF Init, Shown
<1>4. \A t \in Terminals : jobs[t].at = "idle"
  BY <1>1 DEF Init
<1>5. /\ \A s \in Services : snippet[s] = FALSE /\ card[s] = None /\ plan[s] = None
                             /\ profile[s] = None
      /\ summary = None
  BY DEF Init, Nothing
<1>6. InOrder /\ ReadBefore
  BY <1>4, <1>5 DEF InOrder, ReadBefore
<1>7. SummaryHolds /\ CardsHold
  BY <1>5 DEF SummaryHolds, CardsHold
<1>8. StagesWereSet /\ ReadyIsEarned
  BY <1>3, <1>5 DEF StagesWereSet, ReadyIsEarned
<1> QED
  BY <1>2, <1>6, <1>7, <1>8 DEF IndInv

LEMMA OnboardingNext == IndInv /\ [Next]_vars => IndInv'
<1> SUFFICES ASSUME IndInv, [Next]_vars PROVE IndInv'
  OBVIOUS
<1>1. /\ TypeOK /\ InOrder /\ ReadBefore /\ SummaryHolds /\ CardsHold /\ StagesWereSet
      /\ ReadyIsEarned
  BY DEF IndInv
<1>2. Grows
  BY <1>1, Growing
<1>3. TypeOK'
  BY <1>1, TypesKept
<1>4. \A t \in Terminals : JobHolds(t)'
  BY <1>1, <1>2, JobsKept
<1>5. \A s \in Services : snippet'[s] => profile'[s] # None /\ checklist'[s] /\ s \in onboarded'
  BY <1>1, <1>2, SnippetsKept
<1>6. (InOrder /\ ReadBefore)'
  BY <1>4, <1>5 DEF InOrder, ReadBefore, JobHolds
<1>7. SummaryHolds' /\ CardsHold'
  BY <1>1, <1>2, SummaryKept, CardsKept
<1>8. StagesWereSet' /\ ReadyIsEarned'
  BY <1>1, <1>2, StagesKept, ReadyKept
<1> QED
  BY <1>3, <1>6, <1>7, <1>8 DEF IndInv

(* Every command, from any terminal, at any moment and interrupted at any, *)
(* preserves what is written before what, what a command has read, what a  *)
(* summary and a score say, and where a stage comes from.                  *)
THEOREM OnboardingInductive == Spec => []IndInv
<1> QED
  BY OnboardingInit, OnboardingNext, PTL DEF Spec

(* A service that the dashboard shows as ready has been onboarded or       *)
(* checked itself, and has a profile and a checklist.                      *)
THEOREM ReadyServicesEarnedIt == Spec => []ReadyIsEarned
<1>1. IndInv => ReadyIsEarned
  BY DEF IndInv
<1> QED
  BY <1>1, OnboardingInductive, PTL

(* A stage that the dashboard shows is one the service's profile has had,  *)
(* or the first one: parse_onboarding_metrics and onboarding-plan.py.      *)
THEOREM ShownStagesWereSet == Spec => []StagesWereSet
<1>1. IndInv => StagesWereSet
  BY DEF IndInv
<1> QED
  BY <1>1, OnboardingInductive, PTL

(* A score of 80 or more lacks one category at most, so it has what two of *)
(* them share: a profile, and either owners or a preflight.                *)
THEOREM ReadyLacksOne ==
  \A c \in Cards : Readiness(c) = "ready" =>
    /\ c.owners \/ c.profile
    /\ c.owners \/ c.checks
<1> QED
  BY LacksOne
=============================================================================
