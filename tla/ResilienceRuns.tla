--------------------------- MODULE ResilienceRuns ---------------------------
(***************************************************************************)
(* run-resilience-intelligence.sh, started by a schedule or by             *)
(* resilience-incident-trigger.py, and what is made of its summaries: the  *)
(* archive, the answer of a trigger, the scorecard and the report.  Runs   *)
(* of the same directory overwrite each other's files, and what a killed   *)
(* run has started goes on writing.  A step is what happens between two    *)
(* accesses to a file that others write.                                   *)
(* Which tools a run finds depends on who has started it.                  *)
(*                                                                         *)
(* An operator introduced as a "slip" is the definition after it with a    *)
(* mistake in it; the behaviours never use it.                             *)
(***************************************************************************)
EXTENDS Integers, Sequences, FiniteSets

CONSTANTS
  Payloads,      \* what a trigger is given: a directory and a context
  Scheduled,     \* the context of scheduled runs: service, environment, tier
  Measures,      \* the rates k6 may leave: errors and passes, per mille,
                 \* None for one that cannot be read
  Outputs,       \* what either of the two adapters may print
  MaxErrorRate, MinPassRate,  \* thresholds of resilience-intelligence.json
  MaxAttempts,   \* its retries
  MaxRuns,       \* bound: runs of the script
  MaxTime,       \* bound: seconds on the clock
  None, Broken   \* no file, no value; a file that is opened and not written

Latest   == "latest"
Dirs     == {p.dir : p \in Payloads} \cup {Latest}
Contexts == {p.context : p \in Payloads} \cup {Scheduled}
Words    == {"pass", "fail", "skipped"}
Never    == 0        \* no timestamp
Times    == 0..MaxTime

ASSUME RunsAssumption ==
  /\ \A p \in Payloads : p = [dir |-> p.dir, context |-> p.context] /\ p.dir # Latest
  /\ \A q \in Measures : q.errors \in Int \cup {None} /\ q.passes \in Int \cup {None}
  /\ \A o \in Outputs : {"complete", "signal", "status", "degradation"} \subseteq DOMAIN o
  /\ MaxErrorRate \in Int /\ MinPassRate \in Int
  /\ MaxAttempts \in Nat \ {0} /\ MaxRuns \in Nat /\ MaxTime \in Nat \ {0}

VARIABLES
  clock,    \* the time, in seconds
  runs,     \* the runs of the script, in the order they were started
  dirs,     \* the files of each directory: k6, chaos, summary
  archive,  \* artifacts/history: one summary per context and second
  orphans   \* what outlives its killed run: k6, chaos, jq and its summary

vars == <<clock, runs, dirs, archive, orphans>>

------------------------------------------------------------------------------
(* Rules *)

(* A rate that is not in the file, or a file that is not JSON, is perfect. *)
ErrorsOf(q) == IF q.errors = None THEN 0 ELSE q.errors
PassesOf(q) == IF q.passes = None THEN 1000 ELSE q.passes

Within(q) == ErrorsOf(q) <= MaxErrorRate /\ PassesOf(q) >= MinPassRate

(* The overall status of a run                                             *)
StatusOf(load, chaos) ==
  IF "fail" \in {load, chaos} THEN "fail"
  ELSE IF {load, chaos} = {"skipped"} THEN "skipped" ELSE "pass"

(* slip: an adapter is trusted to stay within 0 and 1.                     *)
Unclamped(n) == n

Clamped(n) == IF n < 0 THEN 0 ELSE IF n > 1000 THEN 1000 ELSE n

(* max(0, min(1, 0.55 (1 - ld) + 0.25 (1 - ci) + 0.20 rr)), per mille: the *)
(* error rate of k6, or what adapters report, or 0                         *)
CorrelationScore(degradation, load, chaos) ==
  Clamped((550 * (1000 - degradation) + (IF chaos = "fail" THEN 0 ELSE 250000)
           + (IF "fail" \in {load, chaos} THEN 0 ELSE 200000)) \div 1000)

CorrelationOf(load, chaos) ==
  IF "fail" \in {load, chaos} THEN "degraded"
  ELSE IF "skipped" \in {load, chaos} THEN "partial" ELSE "strong"

(* What the properties say of a k6 file: there is nothing against it if it *)
(* is missing, or if the rates that can be read in it are kept to.         *)
Remark(q) == IF q = None \/ (q # Broken /\ Within(q)) THEN "kept" ELSE "objectionable"

------------------------------------------------------------------------------
(* State *)

Stages == {"load", "judge", "chaos", "read", "adapters", "fill", "archive", "exit", "ended"}

(* what the script writes about itself; a run without jq or with a wrong   *)
(* mode writes neither context nor, without jq, a time                     *)
Summaries ==
  [by : 1..MaxRuns, at : Times, dir : Dirs \cup {None}, context : Contexts \cup {None},
   status : Words, load : Words \cup {None}, chaos : Words \cup {None},
   correlation : {"unknown", "degraded", "partial", "strong"}, score : 0..1000]

Answers == [status : {"pass", "fail"}, carried : Summaries \cup {None, Broken}]

K6Files == Measures \cup {None, Broken}

(* The attempt and the rate are forgotten when they are no longer read.    *)
(* For the properties: measured is None until an attempt of the run has    *)
(* ended with 0, then whether what lay in the k6 file at its end was       *)
(* "kept" to the thresholds; alone, whether no other run and no jq of a    *)
(* killed one has been in the directory; quiet, whether no k6 of a killed  *)
(* run was there.                                                          *)
Runs ==
  [dir : Dirs, context : Contexts, triggered : BOOLEAN, stage : Stages,
   attempt : 0..MaxAttempts, load : Words, rate : Int \cup {None}, chaos : Words,
   at : Times, stored : Times, exit : {None, 0, 1}, answer : Answers \cup {None},
   measured : {None, "kept", "objectionable"}, alone : BOOLEAN, quiet : BOOLEAN]

Contents ==
  [k6 : K6Files, chaos : Words \cup {None}, summary : Summaries \cup {None, Broken}]

Archived == [context : Contexts, second : Times, summary : Summaries \cup {Broken}]

Orphans == [dir : Dirs, file : {"k6", "chaos", "summary"}, left : Summaries \cup {None}]

ASSUME NoneAssumption ==
  /\ None \notin Summaries /\ Broken \notin Summaries /\ None \notin Answers
  /\ {None, Broken} \cap Measures = {} /\ None # Broken
  /\ None \notin Orphans /\ None \notin Words /\ None \notin Contexts
  /\ None \notin {"kept", "objectionable"}

TypeOK ==
  /\ clock \in 1..MaxTime
  /\ runs \in Seq(Runs) /\ Len(runs) <= MaxRuns
  /\ dirs \in [Dirs -> Contents]
  /\ archive \subseteq Archived
  /\ orphans \subseteq Orphans

NoFiles == [k6 |-> None, chaos |-> None, summary |-> None]

Init ==
  /\ clock = 1 /\ runs = <<>>
  /\ dirs = [d \in Dirs |-> NoFiles]
  /\ archive = {} /\ orphans = {}

Files(n)   == dirs[runs[n].dir]
Live(n)    == runs[n].stage # "ended"
Holding(n) == Live(n) \/ (runs[n].triggered /\ runs[n].answer = None)
At(n, s)   == n \in 1..Len(runs) /\ runs[n].stage = s
Outside    == <<clock, archive, orphans>>

------------------------------------------------------------------------------
(* Starting *)

NewRun(d, c, triggered) ==
  [dir |-> d, context |-> c, triggered |-> triggered, stage |-> "load", attempt |-> 0,
   load |-> "skipped", rate |-> None, chaos |-> "skipped", at |-> Never,
   stored |-> Never, exit |-> None, answer |-> None, measured |-> None,
   alone |-> /\ \A n \in 1..Len(runs) : Holding(n) => runs[n].dir # d
             /\ \A o \in orphans : o.file = "summary" => o.dir # d,
   quiet |-> \A o \in orphans : o.file = "k6" => o.dir # d]

(* Whoever is in the directory is alone no longer.                         *)
Begin(d, c, triggered) ==
  /\ Len(runs) < MaxRuns
  /\ runs' = Append([n \in 1..Len(runs) |->
                      IF Holding(n) /\ runs[n].dir = d THEN [runs[n] EXCEPT !.alone = FALSE]
                      ELSE runs[n]],
                    NewRun(d, c, triggered))

(* make resilience-intelligence, from cron or a run of the control plane   *)
Schedule ==
  /\ Begin(Latest, Scheduled, FALSE)
  /\ UNCHANGED <<dirs, Outside>>

(* The trigger writes its decision beside the files of its run; a payload  *)
(* it cannot read or map starts nothing.                                   *)
Trigger(p) ==
  /\ Begin(p.dir, p.context, TRUE)
  /\ UNCHANGED <<dirs, Outside>>

------------------------------------------------------------------------------
(* The script *)

(* What is left of a process *)
Over(r, code) ==
  [r EXCEPT !.stage = "ended", !.exit = code, !.attempt = 0, !.load = "skipped",
            !.rate = None, !.chaos = "skipped"]

(* Without jq nothing is measured, archived or dated.                      *)
SkipAll(n) ==
  /\ At(n, "load") /\ runs[n].attempt = 0
  /\ dirs' = [dirs EXCEPT ![runs[n].dir].summary =
       [by |-> n, at |-> Never, dir |-> None, context |-> None, status |-> "skipped",
        load |-> None, chaos |-> None, correlation |-> "unknown", score |-> 0]]
  /\ runs' = [runs EXCEPT ![n] = Over(@, 0)]
  /\ UNCHANGED Outside

(* RESILIENCE_INTELLIGENCE_MODE is wrong; a trigger takes it from a table. *)
WrongMode(n) ==
  /\ At(n, "load") /\ runs[n].attempt = 0 /\ ~runs[n].triggered
  /\ dirs' = [dirs EXCEPT ![runs[n].dir].summary =
       [by |-> n, at |-> clock, dir |-> None, context |-> None, status |-> "fail",
        load |-> None, chaos |-> None, correlation |-> "unknown", score |-> 0]]
  /\ runs' = [runs EXCEPT ![n] = Over(@, 1)]
  /\ UNCHANGED Outside

(* k6 is not installed.                                                    *)
SkipLoad(n) ==
  /\ At(n, "load") /\ runs[n].attempt = 0
  /\ runs' = [runs EXCEPT ![n].stage = "chaos"]
  /\ UNCHANGED <<dirs, Outside>>

(* k6 ends with 0, and nobody looks whether it has replaced its summary    *)
(* file, and with what.                                                    *)
Load(n) ==
  /\ At(n, "load") /\ runs[n].attempt < MaxAttempts
  /\ \E q \in Measures \cup {Broken, Files(n).k6} :
       /\ dirs' = [dirs EXCEPT ![runs[n].dir].k6 = q]
       /\ runs' = [runs EXCEPT ![n].stage = "judge", ![n].attempt = 0, ![n].measured = Remark(q)]
  /\ UNCHANGED Outside

(* k6 fails or is timed out, whatever it has done to the file: the next    *)
(* attempt, or the end of them.                                            *)
LoadFails(n) ==
  /\ At(n, "load") /\ runs[n].attempt < MaxAttempts
  /\ \E q \in Measures \cup {Broken, Files(n).k6} :
       dirs' = [dirs EXCEPT ![runs[n].dir].k6 = q]
  /\ LET more == runs[n].attempt + 1 < MaxAttempts IN
       runs' = [runs EXCEPT ![n].load = "fail", ![n].attempt = IF more THEN @ + 1 ELSE 0,
                            ![n].stage = IF more THEN @ ELSE "chaos"]
  /\ UNCHANGED Outside

(* slip: the pass rate is not looked at.                                   *)
JudgedByErrors(q) == IF q \in {None, Broken} \/ ErrorsOf(q) <= MaxErrorRate THEN "pass" ELSE "fail"

(* evaluate_k6_thresholds: no file, no objection; of an empty one jq has   *)
(* nothing to say, which is not an error rate too high, but a pass rate    *)
(* too low.                                                                *)
Judged(q) == IF q = None \/ (q # Broken /\ Within(q)) THEN "pass" ELSE "fail"

RateOf(q) == IF q \in {None, Broken} THEN None ELSE ErrorsOf(q)

Judge(n) ==
  /\ At(n, "judge")
  /\ LET q == Files(n).k6 IN
       runs' = [runs EXCEPT ![n].stage = "chaos", ![n].load = Judged(q), ![n].rate = RateOf(q)]
  /\ UNCHANGED <<dirs, Outside>>

(* run-chaos-checks.sh leaves a word, and the script reads it.             *)
Chaos(n) ==
  /\ At(n, "chaos")
  /\ \E w \in Words : dirs' = [dirs EXCEPT ![runs[n].dir].chaos = w]
  /\ runs' = [runs EXCEPT ![n].stage = "read"]
  /\ UNCHANGED Outside

(* It fails, is timed out, or is not there.                                *)
ChaosFails(n) ==
  /\ At(n, "chaos")
  /\ \E w \in {"fail", "skipped"} :
       runs' = [runs EXCEPT ![n].stage = "adapters", ![n].chaos = w]
  /\ UNCHANGED <<dirs, Outside>>

ReadChaos(n) ==
  /\ At(n, "read")
  /\ runs' = [runs EXCEPT ![n].stage = "adapters",
                          ![n].chaos = IF Files(n).chaos = None THEN "skipped" ELSE Files(n).chaos]
  /\ UNCHANGED <<dirs, Outside>>

(* The adapters are heard, and the summary file is opened.                 *)
Correlate(n) ==
  /\ At(n, "adapters")
  /\ runs' = [runs EXCEPT ![n].stage = "fill"]
  /\ dirs' = [dirs EXCEPT ![runs[n].dir].summary = Broken]
  /\ UNCHANGED Outside

(* validate-resilience-adapter.py                                          *)
Accepted(o) ==
  /\ o.complete /\ o.signal \in {"load", "resilience", "external"} /\ o.status \in Words
  /\ o.degradation \in Int \cup {None}

Heard(o) == IF Accepted(o) THEN o.degradation ELSE None

Mean(x, y) ==
  IF None \notin {x, y} THEN (x + y) \div 2
  ELSE IF x # None THEN x ELSE IF y # None THEN y ELSE 0

(* The adapters stand in for an error rate that k6 has not given; that     *)
(* they failed is not looked at.                                           *)
DegradationsOf(rate) ==
  IF rate # None THEN {rate}
  ELSE {Mean(Heard(locust), Heard(external)) : locust \in Outputs, external \in Outputs}

SummaryOf(n, t, d) ==
  LET r == runs[n] IN
  [by |-> n, at |-> t, dir |-> r.dir, context |-> r.context,
   status |-> StatusOf(r.load, r.chaos), load |-> r.load, chaos |-> r.chaos,
   correlation |-> CorrelationOf(r.load, r.chaos),
   score |-> CorrelationScore(d, r.load, r.chaos)]

Fill(n) ==
  /\ At(n, "fill")
  /\ \E d \in DegradationsOf(runs[n].rate) :
       dirs' = [dirs EXCEPT ![runs[n].dir].summary = SummaryOf(n, clock, d)]
  /\ runs' = [runs EXCEPT ![n].stage = "archive", ![n].at = clock, ![n].rate = None]
  /\ UNCHANGED Outside

(* The summary as it is now, under the second it is now                    *)
Archive(n) ==
  /\ At(n, "archive") /\ Files(n).summary # None
  /\ archive' = {a \in archive : ~(a.context = runs[n].context /\ a.second = clock)}
       \cup {[context |-> runs[n].context, second |-> clock, summary |-> Files(n).summary]}
  /\ runs' = [runs EXCEPT ![n].stage = "exit", ![n].stored = clock]
  /\ UNCHANGED <<clock, dirs, orphans>>

Exit(n) ==
  /\ At(n, "exit")
  /\ runs' = [runs EXCEPT ![n] =
                 Over(@, IF StatusOf(@.load, @.chaos) = "fail" THEN 1 ELSE 0)]
  /\ UNCHANGED <<dirs, Outside>>

(* set -e: a command outside of a condition fails.                         *)
Fails(n) ==
  /\ Len(runs) >= n /\ runs[n].stage \in {"adapters", "fill", "archive"}
  /\ runs' = [runs EXCEPT ![n] = Over(@, 1)]
  /\ UNCHANGED <<dirs, Outside>>

------------------------------------------------------------------------------
(* The trigger *)

Answer(n, r, word, carried) ==
  runs' = [runs EXCEPT ![n] = [r EXCEPT !.answer = [status |-> word, carried |-> carried]]]

(* The summary beside it, whoever wrote it                                 *)
AnswerTrigger(n) ==
  /\ At(n, "ended") /\ runs[n].triggered /\ runs[n].answer = None
  /\ Answer(n, runs[n], IF runs[n].exit = 0 THEN "pass" ELSE "fail", Files(n).summary)
  /\ UNCHANGED <<dirs, Outside>>

(* What a run is waiting for; jq has its arguments when it is started.     *)
Started(n) ==
  LET r == runs[n] IN
  CASE r.stage \in {"load", "chaos"} ->
         {[dir |-> r.dir, file |-> IF r.stage = "load" THEN "k6" ELSE "chaos", left |-> None]}
    [] r.stage = "fill" ->
         {[dir |-> r.dir, file |-> "summary", left |-> SummaryOf(n, clock, d)] :
           d \in DegradationsOf(r.rate)}
    [] OTHER -> {}

(* The script is killed, and not what it has started.                      *)
TimeOut(n) ==
  /\ n \in 1..Len(runs) /\ Live(n) /\ runs[n].triggered
  /\ LET r == runs[n] IN
       Answer(n, [Over(r, None) EXCEPT !.at = IF r.stage = "fill" THEN clock ELSE @], "fail", None)
  /\ \E o \in Started(n) \cup {None} : orphans' = orphans \cup ({o} \ {None})
  /\ UNCHANGED <<clock, dirs, archive>>

(* What it writes at its end; two jq of one file may write into each other *)
LastWrites(o) ==
  CASE o.file = "k6"      -> {[dirs EXCEPT ![o.dir].k6 = q] : q \in Measures \cup {Broken}}
    [] o.file = "chaos"   -> {[dirs EXCEPT ![o.dir].chaos = w] : w \in Words}
    [] o.file = "summary" -> {[dirs EXCEPT ![o.dir].summary = s] : s \in {o.left, Broken}}

(* It ends, with or without a last write.                                  *)
OrphanEnds ==
  \E o \in orphans :
    /\ orphans' = orphans \ {o}
    /\ dirs' \in LastWrites(o) \cup {dirs}
    /\ UNCHANGED <<clock, runs, archive>>

Tick ==
  /\ clock < MaxTime /\ clock' = clock + 1
  /\ UNCHANGED <<runs, dirs, archive, orphans>>

(* make clean between runs: the archive stays; what is still being written *)
(* to a file that is gone is lost.                                         *)
Clean ==
  /\ \A n \in 1..Len(runs) : ~Holding(n)
  /\ dirs' = [d \in Dirs |-> NoFiles]
  /\ orphans' = {o \in orphans : o.file # "summary"}
  /\ UNCHANGED <<clock, runs, archive>>

Script(n) ==
  \/ SkipAll(n) \/ WrongMode(n) \/ SkipLoad(n) \/ Load(n) \/ LoadFails(n) \/ Judge(n)
  \/ Chaos(n) \/ ChaosFails(n) \/ ReadChaos(n) \/ Correlate(n) \/ Fill(n) \/ Archive(n)
  \/ Exit(n) \/ Fails(n)

Next ==
  \/ Schedule \/ \E p \in Payloads : Trigger(p)
  \/ \E n \in 1..MaxRuns : Script(n) \/ AnswerTrigger(n) \/ TimeOut(n)
  \/ OrphanEnds \/ Tick \/ Clean

Spec == Init /\ [][Next]_vars

------------------------------------------------------------------------------
(* The scorecard and the report: what they say if they are made now *)

Known(x) == x \notin {None, Broken}

RankOf(d) == IF d = Latest THEN 2 ELSE 1

(* Every summary under artifacts/history and artifacts/latest that is      *)
(* JSON, with source_rank: 0 in the archive, 1 beside an incident, 2 else  *)
Found ==
  {[rank |-> 0, summary |-> a.summary] : a \in {b \in archive : Known(b.summary)}}
  \cup {[rank |-> RankOf(d), summary |-> dirs[d].summary] :
         d \in {e \in Dirs : Known(dirs[e].summary)}}

(* slip: a file is a run.                                                  *)
IdentityByPath(f) == <<f.rank, f.summary>>

(* run_identity: what the copies of a summary share                        *)
Identity(f) == <<f.summary.at, f.summary.context, f.summary.dir>>

(* collect_artifacts: for each identity one of the lowest rank             *)
Kept ==
  LET found == Found
      LowestOf(i) == {f \in found :
        Identity(f) = i /\ \A g \in found : Identity(g) = i => f.rank <= g.rank}
  IN {CHOOSE f \in LowestOf(i) : TRUE : i \in {Identity(f) : f \in found}}

(* The runs of a service that the scorecard lists, counts and averages     *)
RowsOf(c) == {f \in Kept : f.summary.context = c}

(* generate-resilience-report.py: the paths that failed                    *)
FailReasons(s) == {x \in {"load", "chaos"} : s[x] = "fail"}

------------------------------------------------------------------------------
(* Properties *)

(* An attempt of n has ended with 0, and what lay in the k6 file then, be  *)
(* it of this attempt, of an earlier one or of an earlier run, is no       *)
(* objection.                                                              *)
Measured(n) ==
  /\ runs[n].measured # None
  /\ runs[n].quiet => runs[n].measured = "kept"

(* A trigger that says pass has run the script to its end: if no other run *)
(* was in the directory, the summary it carries is that of its own run,    *)
(* which did not fail, although a k6 or chaos process of an earlier run    *)
(* that was killed may still be writing there.  If its load path passed,   *)
(* an attempt of this very run has ended with 0, and unless such a k6      *)
(* wrote in between, what then lay in the k6 file is not above the         *)
(* thresholds.  That k6 has measured anything cannot be said, as a missing *)
(* file or rate passes (resilience-incident-trigger.py reads a file,       *)
(* evaluate_k6_thresholds another).                                        *)
PassedTriggerIsOwn ==
  \A n \in 1..Len(runs) :
    LET a == runs[n].answer IN
    a # None /\ runs[n].alone /\ a.status = "pass" =>
      /\ Known(a.carried) /\ a.carried.by = n /\ a.carried.status # "fail"
      /\ a.carried.load = "pass" => Measured(n)

(* No other run of the context was archived in the same second, or summed  *)
(* up in the same directory in the same second: seconds are all that tells *)
(* them apart.                                                             *)
Apart(n) ==
  \A m \in 1..Len(runs) \ {n} : runs[m].context = runs[n].context =>
    /\ runs[m].stored # runs[n].stored
    /\ runs[m].dir = runs[n].dir => runs[m].at # runs[n].at

(* The scorecard counts no run twice and none for another service.  It     *)
(* counts a run that was archived, although its summary lies in the        *)
(* archive, in its directory, or, after a later run of the directory or    *)
(* make clean, in the archive alone (collect_artifacts, run_identity).     *)
CountedOnce ==
  /\ \A f, g \in Kept : f.summary.by = g.summary.by => f = g
  /\ \A f \in Kept :
       f.summary.context \in Contexts => runs[f.summary.by].context = f.summary.context
  /\ \A n \in 1..Len(runs) :
       runs[n].stored # Never /\ runs[n].alone /\ Apart(n) =>
         \E f \in RowsOf(runs[n].context) : f.summary.by = n

------------------------------------------------------------------------------
(* The inductive invariant *)

(* Nobody else writes the summary where a run is alone, nor, if it is      *)
(* quiet there, the k6 file.                                               *)
SoleHolder ==
  \A n \in 1..Len(runs) : runs[n].alone /\ Holding(n) =>
    /\ \A o \in orphans : o.dir = runs[n].dir =>
         o.file # "summary" /\ (runs[n].quiet => o.file # "k6")
    /\ \A m \in 1..Len(runs) \ {n} : Holding(m) => runs[m].dir # runs[n].dir

(* A load path is judged, and said to have passed, by what an attempt of   *)
(* this run has left or found.                                             *)
MeasuredHere ==
  \A n \in 1..Len(runs) : runs[n].alone /\ Holding(n) =>
    /\ runs[n].stage \in {"load", "judge"} => runs[n].load # "pass"
    /\ runs[n].stage = "judge" =>
         /\ runs[n].measured # None
         /\ runs[n].quiet => runs[n].measured = Remark(Files(n).k6)
    /\ runs[n].load = "pass" => Measured(n)

(* From then on the summary beside the run is its own.                     *)
SummedUpHere ==
  \A n \in 1..Len(runs) : runs[n].alone /\ Holding(n) =>
    LET s == Files(n).summary IN
    /\ runs[n].stage \in {"archive", "exit"} =>
         /\ Known(s) /\ s.by = n /\ s.context = runs[n].context
         /\ s.load = runs[n].load /\ s.status = StatusOf(runs[n].load, runs[n].chaos)
    /\ runs[n].stage = "ended" /\ runs[n].exit = 0 /\ runs[n].triggered =>
         /\ Known(s) /\ s.by = n /\ s.status # "fail"
         /\ s.load = "pass" => Measured(n)

(* A run is dated when it sums up, and again when it archives, and it      *)
(* answers when it is over.                                                *)
Dated ==
  \A n \in 1..Len(runs) :
    /\ runs[n].stage \notin {"archive", "exit", "ended"} => runs[n].at = Never
    /\ runs[n].stage \notin {"exit", "ended"} => runs[n].stored = Never
    /\ runs[n].stage \in {"archive", "exit"} \/ runs[n].stored # Never => runs[n].at # Never
    /\ runs[n].answer # None => runs[n].stage = "ended"

Written ==
  {a.summary : a \in archive} \cup {dirs[d].summary : d \in Dirs} \cup {o.left : o \in orphans}

(* A run sums up once, under the names and at the time it knows itself by, *)
(* and fails with a path that failed.                                      *)
Signed ==
  /\ \A s \in Written : Known(s) =>
       /\ s.by \in 1..Len(runs)
       /\ runs[s.by].stage \in {"archive", "exit", "ended"}
       /\ s.load # None => s.status = StatusOf(s.load, s.chaos)
       /\ s.context # None =>
            s.at = runs[s.by].at /\ s.context = runs[s.by].context /\ s.dir = runs[s.by].dir
  /\ \A s, t \in Written : Known(s) /\ Known(t) /\ s.by = t.by => s = t

(* What a run has archived stays.                                          *)
ArchiveHolds ==
  \A n \in 1..Len(runs) :
    runs[n].stored # Never /\ runs[n].alone /\ Apart(n) =>
      \E a \in archive :
        /\ a.context = runs[n].context /\ a.second = runs[n].stored /\ Known(a.summary)
        /\ a.summary.by = n /\ a.summary.context = runs[n].context

IndInv ==
  /\ TypeOK /\ SoleHolder /\ MeasuredHere /\ SummedUpHere /\ Dated /\ Signed /\ ArchiveHolds
  /\ PassedTriggerIsOwn
=============================================================================
