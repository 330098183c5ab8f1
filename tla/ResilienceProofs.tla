-------------------------- MODULE ResilienceProofs --------------------------
(***************************************************************************)
(* For any payloads, measurements, thresholds and number of runs: a passed *)
(* trigger of a run that was alone carries the summary of that run, and    *)
(* the scorecard counts an archived run once.  A run is followed through   *)
(* its stages (MeasuredHere, SummedUpHere) as long as nobody else can      *)
(* write its files (SoleHolder); a summary is followed through its copies  *)
(* by the name and the date it was signed with (Signed, ArchiveHolds).     *)
(***************************************************************************)
EXTENDS ResilienceRuns, SequenceTheorems, TLAPS

(* The correlation score is a share, whatever k6 or an adapter reports: an *)
(* adapter that says 140 percent passed, or that minus half of the calls   *)
(* failed, cannot push it out of its range                                 *)
(* (run-resilience-intelligence.sh:245).                                   *)
THEOREM CorrelationBounded ==
  ASSUME NEW d \in Int, NEW load \in Words, NEW chaos \in Words
  PROVE  CorrelationScore(d, load, chaos) \in 0..1000
<1>1. ASSUME NEW n \in Int
      PROVE  Clamped(n) \in 0..1000
  BY <1>1 DEF Clamped
<1>2. (550 * (1000 - d) + (IF chaos = "fail" THEN 0 ELSE 250000)
           + (IF "fail" \in {load, chaos} THEN 0 ELSE 200000)) \div 1000 \in Int
  OBVIOUS
<1> QED
  BY <1>1, <1>2 DEF CorrelationScore

(* The paths of a run, from worse to better                                *)
NoWorse(w, v) == v = "fail" \/ w # "fail"

(* A run that degraded less, and whose paths failed no more, never has a   *)
(* lower correlation score, although three weighted shares are added and   *)
(* rounded; and the score's own word agrees with the status of the run:    *)
(* degraded if it failed, strong only if it passed                         *)
(* (run-resilience-intelligence.sh:245).                                   *)
THEOREM CorrelationIsMonotone ==
  ASSUME NEW d \in Int, NEW e \in Int, d <= e,
         NEW load \in Words, NEW chaos \in Words, NEW load2 \in Words, NEW chaos2 \in Words,
         NoWorse(load, load2), NoWorse(chaos, chaos2)
  PROVE  /\ CorrelationScore(e, load2, chaos2) <= CorrelationScore(d, load, chaos)
         /\ CorrelationOf(load, chaos) = "degraded" <=> StatusOf(load, chaos) = "fail"
         /\ CorrelationOf(load, chaos) = "strong" => StatusOf(load, chaos) = "pass"
<1> DEFINE ci(c) == IF c = "fail" THEN 0 ELSE 250000
           rr(l, c) == IF "fail" \in {l, c} THEN 0 ELSE 200000
           Sum(x, l, c) == 550 * (1000 - x) + ci(c) + rr(l, c)
<1>1. ci(chaos2) <= ci(chaos) /\ ci(chaos) \in Int /\ ci(chaos2) \in Int
  BY DEF NoWorse
<1>2. /\ rr(load2, chaos2) <= rr(load, chaos)
      /\ rr(load, chaos) \in Int /\ rr(load2, chaos2) \in Int
  BY DEF NoWorse
<1>3. /\ Sum(e, load2, chaos2) <= Sum(d, load, chaos)
      /\ Sum(e, load2, chaos2) \in Int /\ Sum(d, load, chaos) \in Int
  <2> HIDE DEF ci, rr
  <2> QED
    BY <1>1, <1>2
<1>4. ASSUME NEW m \in Int, NEW n \in Int, m <= n
      PROVE  Clamped(m \div 1000) <= Clamped(n \div 1000)
  <2>1. m \div 1000 <= n \div 1000 /\ m \div 1000 \in Int /\ n \div 1000 \in Int
    BY <1>4
  <2>2. \A x, y \in Int : x <= y => Clamped(x) <= Clamped(y)
    BY DEF Clamped
  <2> QED
    BY <2>1, <2>2
<1>5. /\ CorrelationScore(e, load2, chaos2) = Clamped(Sum(e, load2, chaos2) \div 1000)
      /\ CorrelationScore(d, load, chaos) = Clamped(Sum(d, load, chaos) \div 1000)
  BY DEF CorrelationScore
<1>6. CorrelationScore(e, load2, chaos2) <= CorrelationScore(d, load, chaos)
  <2> HIDE DEF Sum
  <2> QED
    BY <1>3, <1>4, <1>5
<1>7. /\ CorrelationOf(load, chaos) = "degraded" <=> StatusOf(load, chaos) = "fail"
      /\ CorrelationOf(load, chaos) = "strong" => StatusOf(load, chaos) = "pass"
  BY DEF CorrelationOf, StatusOf, Words
<1> QED
  BY <1>6, <1>7

------------------------------------------------------------------------------
(* Sequences of runs *)

LEMMA RunAt ==
  ASSUME TypeOK, NEW n \in 1..Len(runs)
  PROVE  /\ runs[n] \in Runs /\ Len(runs) \in Nat /\ n \in 1..MaxRuns
         /\ runs[n].dir \in Dirs /\ Files(n) \in Contents
<1>1. runs[n] \in Runs /\ Len(runs) \in Nat
  BY ElementOfSeq, LenProperties DEF TypeOK
<1>2. runs[n].dir \in Dirs
  BY <1>1 DEF Runs
<1> QED
  BY <1>1, <1>2, RunsAssumption DEF TypeOK, Files

LEMMA Replacing ==
  ASSUME runs \in Seq(Runs), NEW n \in 1..Len(runs), NEW r \in Runs,
         runs' = [runs EXCEPT ![n] = r]
  PROVE  /\ runs' \in Seq(Runs) /\ Len(runs') = Len(runs) /\ runs'[n] = r
         /\ \A m \in 1..Len(runs) \ {n} : runs'[m] = runs[m]
BY ExceptSeq

(* A run that begins *)
LEMMA Beginning ==
  ASSUME TypeOK, NEW d \in Dirs, NEW c \in Contexts, NEW t \in BOOLEAN, Begin(d, c, t)
  PROVE  /\ runs' \in Seq(Runs) /\ Len(runs') = Len(runs) + 1 /\ Len(runs') <= MaxRuns
         /\ runs'[Len(runs) + 1] = NewRun(d, c, t)
         /\ \A n \in 1..Len(runs) :
              runs'[n] = IF Holding(n) /\ runs[n].dir = d
                         THEN [runs[n] EXCEPT !.alone = FALSE] ELSE runs[n]
<1> DEFINE old == [n \in 1..Len(runs) |->
                      IF Holding(n) /\ runs[n].dir = d THEN [runs[n] EXCEPT !.alone = FALSE]
                      ELSE runs[n]]
<1>1. Len(runs) \in Nat /\ Len(runs) + 1 <= MaxRuns
  BY LenProperties, RunsAssumption DEF TypeOK, Begin
<1>2. ASSUME NEW n \in 1..Len(runs)
      PROVE  old[n] \in Runs
  <2>1. runs[n] \in Runs
    BY RunAt
  <2>2. [runs[n] EXCEPT !.alone = FALSE] \in Runs
    BY <2>1 DEF Runs
  <2> QED
    BY <2>1, <2>2
<1>3. old \in [1..Len(runs) -> Runs]
  BY <1>2
<1>4. old \in Seq(Runs)
  BY <1>1, <1>3, SeqDef
<1>5. Len(old) = Len(runs)
  BY <1>1, <1>3, <1>4, LenProperties
<1>6. NewRun(d, c, t) \in Runs
  BY RunsAssumption DEF NewRun, Runs, Stages, Words, Times, Never
<1>7. runs' = Append(old, NewRun(d, c, t))
  BY DEF Begin
<1> QED
  BY <1>1, <1>4, <1>5, <1>6, <1>7, AppendProperties
------------------------------------------------------------------------------
(* A step of run n gives it the record r and its directory the files c. *)

Steps(n) == Script(n) \/ AnswerTrigger(n) \/ TimeOut(n)

Becomes(n, r, c) ==
  /\ n \in 1..Len(runs) /\ Holding(n) /\ r \in Runs /\ c \in Contents
  /\ runs' = [runs EXCEPT ![n] = r]
  /\ r.dir = runs[n].dir /\ r.context = runs[n].context
  /\ r.triggered = runs[n].triggered /\ r.alone = runs[n].alone /\ r.quiet = runs[n].quiet
  /\ dirs' = [dirs EXCEPT ![runs[n].dir] = c]
  /\ clock' = clock

LEMMA Summing ==
  ASSUME NEW n \in 1..MaxRuns, runs[n] \in Runs, clock \in 1..MaxTime,
         NEW d \in DegradationsOf(runs[n].rate)
  PROVE  SummaryOf(n, clock, d) \in Summaries /\ Known(SummaryOf(n, clock, d))
<1> DEFINE r0 == runs[n]
<1>a. d \in Int
  <2>1. \A o \in Outputs : Heard(o) \in Int \cup {None}
    BY DEF Heard, Accepted
  <2>2. \A x, y \in Int \cup {None} : Mean(x, y) \in Int
    BY DEF Mean
  <2>3. r0.rate \in Int \cup {None}
    BY DEF Runs
  <2>4. CASE r0.rate = None
    <3>1. PICK locust \in Outputs, external \in Outputs : d = Mean(Heard(locust), Heard(external))
      BY <2>4 DEF DegradationsOf
    <3> QED
      BY <2>1, <2>2, <3>1
  <2> QED
    BY <2>3, <2>4 DEF DegradationsOf
<1>1. d \in Int /\ r0.load \in Words /\ r0.chaos \in Words /\ clock \in Times
  BY <1>a, RunsAssumption DEF Runs, Times
<1>2. CorrelationScore(d, r0.load, r0.chaos) \in 0..1000
  BY <1>1, CorrelationBounded
<1>3. /\ StatusOf(r0.load, r0.chaos) \in Words
      /\ CorrelationOf(r0.load, r0.chaos) \in {"unknown", "degraded", "partial", "strong"}
  BY DEF StatusOf, CorrelationOf, Words
<1>4. SummaryOf(n, clock, d) \in Summaries
  BY <1>1, <1>2, <1>3 DEF SummaryOf, Summaries, Runs
<1> QED
  BY <1>4, NoneAssumption DEF Known

(* What a run is waiting for is typed, and where the run is.               *)
LEMMA StartedTypes ==
  ASSUME NEW n \in 1..MaxRuns, runs[n] \in Runs, clock \in 1..MaxTime, NEW o \in Started(n)
  PROVE  /\ o \in Orphans /\ o.dir = runs[n].dir
         /\ o.left # None => /\ runs[n].stage = "fill"
                             /\ \E d \in DegradationsOf(runs[n].rate) : o.left = SummaryOf(n, clock, d)
<1>1. CASE runs[n].stage \in {"load", "chaos"}
  <2>1. o = [dir |-> runs[n].dir, file |-> IF runs[n].stage = "load" THEN "k6" ELSE "chaos",
             left |-> None]
    BY <1>1 DEF Started
  <2> QED
    BY <2>1 DEF Orphans, Runs
<1>2. CASE runs[n].stage = "fill"
  <2>1. PICK d \in DegradationsOf(runs[n].rate) :
          o = [dir |-> runs[n].dir, file |-> "summary", left |-> SummaryOf(n, clock, d)]
    BY <1>2 DEF Started
  <2>2. SummaryOf(n, clock, d) \in Summaries
    BY Summing
  <2> QED
    BY <1>2, <2>1, <2>2 DEF Orphans, Runs
<1>3. CASE runs[n].stage \notin {"load", "chaos", "fill"}
  BY <1>3 DEF Started
<1> QED
  BY <1>1, <1>2, <1>3

LEMMA Becoming ==
  ASSUME TypeOK, NEW n \in 1..MaxRuns, Steps(n)
  PROVE  \E r \in Runs, c \in Contents : Becomes(n, r, c)
<1> DEFINE r0 == runs[n]
           c0 == Files(n)
           Goes(r, c) == Becomes(n, r, c)
<1>a. /\ n \in 1..Len(runs) /\ r0 \in Runs /\ c0 \in Contents /\ r0.dir \in Dirs
      /\ runs \in Seq(Runs) /\ clock \in Times /\ MaxAttempts \in Nat
      /\ dirs \in [Dirs -> Contents] /\ dirs = [dirs EXCEPT ![r0.dir] = c0]
  <2>1. n \in 1..Len(runs)
    BY LenProperties DEF TypeOK, Steps, Script, AnswerTrigger, TimeOut, At, Fails, SkipAll, WrongMode,
       SkipLoad, Load, LoadFails, Judge, Chaos, ChaosFails, ReadChaos, Correlate, Fill, Archive, Exit
  <2> QED
    BY <2>1, RunAt, RunsAssumption DEF TypeOK, Files, Times
<1>b. ASSUME NEW code \in {None, 0, 1}
      PROVE  Over(r0, code) \in Runs
  <2>1. /\ 0 \in 0..MaxAttempts /\ "ended" \in Stages /\ "skipped" \in Words
        /\ None \in Int \cup {None}
    BY <1>a DEF Stages, Words
  <2> QED
    BY <1>a, <2>1 DEF Over, Runs
<1>1. CASE SkipAll(n)
  <2> DEFINE t == [by |-> n, at |-> Never, dir |-> None, context |-> None, status |-> "skipped",
                   load |-> None, chaos |-> None, correlation |-> "unknown", score |-> 0]
  <2>1. Over(r0, 0) \in Runs /\ [c0 EXCEPT !.summary = t] \in Contents
    <3>1. Never \in Times
      BY <1>a, RunsAssumption DEF Never, Times
    <3> QED
      BY <1>a, <1>b, <3>1 DEF Words, Contents, Summaries
  <2>2. runs' = [runs EXCEPT ![n] = Over(r0, 0)]
    BY <1>1, <1>a, <2>1 DEF SkipAll, At, Holding, Live, Outside, Files, Over
  <2>3. dirs' = [dirs EXCEPT ![r0.dir] = [c0 EXCEPT !.summary = t]]
    BY <1>1, <1>a, <2>1 DEF SkipAll, At, Holding, Live, Outside, Files, Over
  <2>4. Holding(n) /\ clock' = clock
    BY <1>1, <1>a DEF SkipAll, At, Holding, Live, Outside
  <2>5. Becomes(n, Over(r0, 0), [c0 EXCEPT !.summary = t])
    BY <1>a, <2>1, <2>2, <2>3, <2>4 DEF Becomes, Over
  <2> QED
    BY <2>1, <2>5
<1>2. CASE WrongMode(n)
  <2> DEFINE t == [by |-> n, at |-> clock, dir |-> None, context |-> None, status |-> "fail",
                   load |-> None, chaos |-> None, correlation |-> "unknown", score |-> 0]
  <2>1. Over(r0, 1) \in Runs /\ [c0 EXCEPT !.summary = t] \in Contents
    BY <1>2, <1>a, <1>b DEF Words, Contents, Summaries
  <2>2. runs' = [runs EXCEPT ![n] = Over(r0, 1)]
    BY <1>2, <1>a, <2>1 DEF WrongMode, At, Holding, Live, Outside, Files, Over
  <2>3. dirs' = [dirs EXCEPT ![r0.dir] = [c0 EXCEPT !.summary = t]]
    BY <1>2, <1>a, <2>1 DEF WrongMode, At, Holding, Live, Outside, Files, Over
  <2>4. Holding(n) /\ clock' = clock
    BY <1>2, <1>a DEF WrongMode, At, Holding, Live, Outside
  <2>5. Becomes(n, Over(r0, 1), [c0 EXCEPT !.summary = t])
    BY <1>a, <2>1, <2>2, <2>3, <2>4 DEF Becomes, Over
  <2> QED
    BY <2>1, <2>5
<1>3. CASE SkipLoad(n)
  <2>1. [r0 EXCEPT !.stage = "chaos"] \in Runs /\ c0 \in Contents
    BY <1>3, <1>a, <1>b DEF SkipLoad, At, Runs, Stages, Words, Contents
  <2>2. runs' = [runs EXCEPT ![n] = [r0 EXCEPT !.stage = "chaos"]]
    BY <1>3, <1>a, <2>1 DEF SkipLoad, At, Holding, Live, Outside, Files, Over
  <2>3. dirs' = [dirs EXCEPT ![r0.dir] = c0]
    BY <1>3, <1>a, <2>1 DEF SkipLoad, At, Holding, Live, Outside, Files, Over
  <2>4. Holding(n) /\ clock' = clock
    BY <1>3, <1>a DEF SkipLoad, At, Holding, Live, Outside
  <2>5. Becomes(n, [r0 EXCEPT !.stage = "chaos"], c0)
    BY <1>a, <2>1, <2>2, <2>3, <2>4 DEF Becomes, Over
  <2> QED
    BY <2>1, <2>5
<1>4. CASE Load(n)
  <2>q. PICK q \in Measures \cup {Broken, c0.k6} :
          /\ dirs' = [dirs EXCEPT ![r0.dir].k6 = q]
          /\ runs' = [runs EXCEPT ![n].stage = "judge", ![n].attempt = 0, ![n].measured = Remark(q)]
    BY <1>4, <1>a DEF Load, Files, Contents
  <2> DEFINE r1 == [r0 EXCEPT !.stage = "judge", !.attempt = 0, !.measured = Remark(q)]
  <2>1. r1 \in Runs /\ [c0 EXCEPT !.k6 = q] \in Contents
    <3>1. q \in K6Files
      BY <1>a, <2>q DEF Contents, K6Files
    <3>2. Remark(q) \in {None, "kept", "objectionable"} /\ 0 \in 0..MaxAttempts
      BY <1>a DEF Remark
    <3> QED
      BY <1>a, <3>1, <3>2 DEF Runs, Stages, Contents
  <2>2. runs' = [runs EXCEPT ![n] = r1]
    BY <1>a, <2>q
  <2>3. dirs' = [dirs EXCEPT ![r0.dir] = [c0 EXCEPT !.k6 = q]]
    BY <1>a, <2>q DEF Files
  <2>4. Holding(n) /\ clock' = clock
    BY <1>4, <1>a DEF Load, At, Holding, Live, Outside
  <2>5. Becomes(n, r1, [c0 EXCEPT !.k6 = q])
    BY <1>a, <2>1, <2>2, <2>3, <2>4 DEF Becomes
  <2> QED
    BY <2>1, <2>5
<1>5. CASE LoadFails(n)
  <2>q. PICK q \in Measures \cup {Broken, c0.k6} : dirs' = [dirs EXCEPT ![r0.dir].k6 = q]
    BY <1>5, <1>a DEF LoadFails, Files, Contents
  <2> DEFINE more == r0.attempt + 1 < MaxAttempts
             r1 == [r0 EXCEPT !.load = "fail", !.attempt = IF more THEN @ + 1 ELSE 0,
                              !.stage = IF more THEN @ ELSE "chaos"]
  <2>1. r1 \in Runs /\ [c0 EXCEPT !.k6 = q] \in Contents
    <3>1. (IF more THEN r0.attempt + 1 ELSE 0) \in 0..MaxAttempts
      BY <1>5, <1>a DEF LoadFails, Runs
    <3>2. q \in K6Files
      BY <1>a, <2>q DEF Contents, K6Files
    <3>3. "fail" \in Words /\ "chaos" \in Stages
      BY DEF Words, Stages
    <3> HIDE DEF more
    <3> QED
      BY <1>a, <3>1, <3>2, <3>3 DEF Runs, Contents
  <2>2. runs' = [runs EXCEPT ![n] = r1]
    BY <1>5, <1>a DEF LoadFails
  <2>3. dirs' = [dirs EXCEPT ![r0.dir] = [c0 EXCEPT !.k6 = q]]
    BY <1>a, <2>q DEF Files
  <2>4. Holding(n) /\ clock' = clock
    BY <1>5, <1>a DEF LoadFails, At, Holding, Live, Outside
  <2>5. Becomes(n, r1, [c0 EXCEPT !.k6 = q])
    BY <1>a, <2>1, <2>2, <2>3, <2>4 DEF Becomes
  <2> QED
    BY <2>1, <2>5
<1>6. CASE Judge(n)
  <2> DEFINE r1 == [r0 EXCEPT !.stage = "chaos", !.load = Judged(c0.k6), !.rate = RateOf(c0.k6)]
  <2>1. r1 \in Runs
    <3>1. Judged(c0.k6) \in Words /\ RateOf(c0.k6) \in Int \cup {None}
      BY <1>a, RunsAssumption DEF Judged, RateOf, ErrorsOf, Words, Contents, K6Files
    <3> QED
      BY <1>a, <3>1 DEF Runs, Stages
  <2>2. runs' = [runs EXCEPT ![n] = r1]
    BY <1>6, <1>a DEF Judge
  <2>3. dirs' = [dirs EXCEPT ![r0.dir] = c0]
    BY <1>6, <1>a DEF Judge
  <2>4. Holding(n) /\ clock' = clock
    BY <1>6, <1>a DEF Judge, At, Holding, Live, Outside
  <2>5. Becomes(n, r1, c0)
    BY <1>a, <2>1, <2>2, <2>3, <2>4 DEF Becomes
  <2> QED
    BY <1>a, <2>1, <2>5
<1>7. CASE Chaos(n)
  <2>q. PICK w \in Words : dirs' = [dirs EXCEPT ![r0.dir].chaos = w]
    BY <1>7, <1>a DEF Chaos, Files, Contents
  <2>1. [r0 EXCEPT !.stage = "read"] \in Runs /\ [c0 EXCEPT !.chaos = w] \in Contents
    BY <1>7, <1>a, <2>q, RunsAssumption DEF Chaos, At, Runs, Stages, Words, Contents
  <2>2. runs' = [runs EXCEPT ![n] = [r0 EXCEPT !.stage = "read"]]
    BY <1>7, <1>a, <2>q, <2>1 DEF Chaos, At, Holding, Live, Outside, Files, Over
  <2>3. dirs' = [dirs EXCEPT ![r0.dir] = [c0 EXCEPT !.chaos = w]]
    BY <1>7, <1>a, <2>q, <2>1 DEF Chaos, At, Holding, Live, Outside, Files, Over
  <2>4. Holding(n) /\ clock' = clock
    BY <1>7, <1>a DEF Chaos, At, Holding, Live, Outside
  <2>5. Becomes(n, [r0 EXCEPT !.stage = "read"], [c0 EXCEPT !.chaos = w])
    BY <1>a, <2>1, <2>2, <2>3, <2>4 DEF Becomes, Over
  <2> QED
    BY <2>1, <2>5
<1>8. CASE ChaosFails(n)
  <2>q. PICK w \in {"fail", "skipped"} : runs' = [runs EXCEPT ![n].stage = "adapters", ![n].chaos = w]
    BY <1>8, <1>a DEF ChaosFails, Files, Contents
  <2>1. [r0 EXCEPT !.stage = "adapters", !.chaos = w] \in Runs /\ c0 \in Contents
    BY <1>8, <1>a, <2>q, RunsAssumption DEF ChaosFails, At, Runs, Stages, Words, Contents
  <2>2. runs' = [runs EXCEPT ![n] = [r0 EXCEPT !.stage = "adapters", !.chaos = w]]
    BY <1>8, <1>a, <2>q, <2>1 DEF ChaosFails, At, Holding, Live, Outside, Files, Over
  <2>3. dirs' = [dirs EXCEPT ![r0.dir] = c0]
    BY <1>8, <1>a, <2>q, <2>1 DEF ChaosFails, At, Holding, Live, Outside, Files, Over
  <2>4. Holding(n) /\ clock' = clock
    BY <1>8, <1>a DEF ChaosFails, At, Holding, Live, Outside
  <2>5. Becomes(n, [r0 EXCEPT !.stage = "adapters", !.chaos = w], c0)
    BY <1>a, <2>1, <2>2, <2>3, <2>4 DEF Becomes, Over
  <2> QED
    BY <2>1, <2>5
<1>9. CASE ReadChaos(n)
  <2>1. [r0 EXCEPT !.stage = "adapters", !.chaos = IF c0.chaos = None THEN "skipped" ELSE c0.chaos] \in Runs /\ c0 \in Contents
    <3>1. (IF c0.chaos = None THEN "skipped" ELSE c0.chaos) \in Words
      BY <1>a DEF Contents, Words
    <3> QED
      BY <1>a, <3>1 DEF Runs, Stages
  <2>2. runs' = [runs EXCEPT ![n] = [r0 EXCEPT !.stage = "adapters", !.chaos = IF c0.chaos = None THEN "skipped" ELSE c0.chaos]]
    BY <1>9, <1>a, <2>1 DEF ReadChaos, At, Holding, Live, Outside, Files, Over
  <2>3. dirs' = [dirs EXCEPT ![r0.dir] = c0]
    BY <1>9, <1>a, <2>1 DEF ReadChaos, At, Holding, Live, Outside, Files, Over
  <2>4. Holding(n) /\ clock' = clock
    BY <1>9, <1>a DEF ReadChaos, At, Holding, Live, Outside
  <2>5. Becomes(n, [r0 EXCEPT !.stage = "adapters", !.chaos = IF c0.chaos = None THEN "skipped" ELSE c0.chaos], c0)
    BY <1>a, <2>1, <2>2, <2>3, <2>4 DEF Becomes, Over
  <2> QED
    BY <2>1, <2>5
<1>10. CASE Correlate(n)
  <2>1. [r0 EXCEPT !.stage = "fill"] \in Runs /\ [c0 EXCEPT !.summary = Broken] \in Contents
    BY <1>10, <1>a, <1>b DEF Correlate, At, Runs, Stages, Words, Contents
  <2>2. runs' = [runs EXCEPT ![n] = [r0 EXCEPT !.stage = "fill"]]
    BY <1>10, <1>a, <2>1 DEF Correlate, At, Holding, Live, Outside, Files, Over
  <2>3. dirs' = [dirs EXCEPT ![r0.dir] = [c0 EXCEPT !.summary = Broken]]
    BY <1>10, <1>a, <2>1 DEF Correlate, At, Holding, Live, Outside, Files, Over
  <2>4. Holding(n) /\ clock' = clock
    BY <1>10, <1>a DEF Correlate, At, Holding, Live, Outside
  <2>5. Becomes(n, [r0 EXCEPT !.stage = "fill"], [c0 EXCEPT !.summary = Broken])
    BY <1>a, <2>1, <2>2, <2>3, <2>4 DEF Becomes, Over
  <2> QED
    BY <2>1, <2>5
<1>11. CASE Fill(n)
  <2>q. PICK d \in DegradationsOf(r0.rate) : dirs' = [dirs EXCEPT ![r0.dir].summary = SummaryOf(n, clock, d)]
    BY <1>11, <1>a DEF Fill, Files, Contents
  <2>s. SummaryOf(n, clock, d) \in Summaries
    BY <1>a, <2>q, Summing DEF TypeOK
  <2>1. [r0 EXCEPT !.stage = "archive", !.at = clock, !.rate = None] \in Runs /\ [c0 EXCEPT !.summary = SummaryOf(n, clock, d)] \in Contents
    BY <1>11, <1>a, <2>q, <2>s, RunsAssumption DEF Fill, At, Runs, Stages, Words, Contents
  <2>2. runs' = [runs EXCEPT ![n] = [r0 EXCEPT !.stage = "archive", !.at = clock, !.rate = None]]
    BY <1>11, <1>a, <2>q, <2>1 DEF Fill, At, Holding, Live, Outside, Files, Over
  <2>3. dirs' = [dirs EXCEPT ![r0.dir] = [c0 EXCEPT !.summary = SummaryOf(n, clock, d)]]
    BY <1>11, <1>a, <2>q, <2>1 DEF Fill, At, Holding, Live, Outside, Files, Over
  <2>4. Holding(n) /\ clock' = clock
    BY <1>11, <1>a DEF Fill, At, Holding, Live, Outside
  <2>5. Becomes(n, [r0 EXCEPT !.stage = "archive", !.at = clock, !.rate = None], [c0 EXCEPT !.summary = SummaryOf(n, clock, d)])
    BY <1>a, <2>1, <2>2, <2>3, <2>4 DEF Becomes, Over
  <2> QED
    BY <2>1, <2>5
<1>12. CASE Archive(n)
  <2>1. [r0 EXCEPT !.stage = "exit", !.stored = clock] \in Runs /\ c0 \in Contents
    BY <1>12, <1>a, <1>b DEF Archive, At, Runs, Stages, Words, Contents
  <2>2. runs' = [runs EXCEPT ![n] = [r0 EXCEPT !.stage = "exit", !.stored = clock]]
    BY <1>12, <1>a, <2>1 DEF Archive, At, Holding, Live, Outside, Files, Over
  <2>3. dirs' = [dirs EXCEPT ![r0.dir] = c0]
    BY <1>12, <1>a, <2>1 DEF Archive, At, Holding, Live, Outside, Files, Over
  <2>4. Holding(n) /\ clock' = clock
    BY <1>12, <1>a DEF Archive, At, Holding, Live, Outside
  <2>5. Becomes(n, [r0 EXCEPT !.stage = "exit", !.stored = clock], c0)
    BY <1>a, <2>1, <2>2, <2>3, <2>4 DEF Becomes, Over
  <2> QED
    BY <2>1, <2>5
<1>13. CASE Exit(n)
  <2>1. Over(r0, IF StatusOf(r0.load, r0.chaos) = "fail" THEN 1 ELSE 0) \in Runs /\ c0 \in Contents
    BY <1>13, <1>a, <1>b DEF Exit, At, Runs, Stages, Words, Contents, Over
  <2>2. runs' = [runs EXCEPT ![n] = Over(r0, IF StatusOf(r0.load, r0.chaos) = "fail" THEN 1 ELSE 0)]
    BY <1>13, <1>a, <2>1 DEF Exit, At, Holding, Live, Outside, Files, Over
  <2>3. dirs' = [dirs EXCEPT ![r0.dir] = c0]
    BY <1>13, <1>a, <2>1 DEF Exit, At, Holding, Live, Outside, Files, Over
  <2>4. Holding(n) /\ clock' = clock
    BY <1>13, <1>a DEF Exit, At, Holding, Live, Outside
  <2>5. Becomes(n, Over(r0, IF StatusOf(r0.load, r0.chaos) = "fail" THEN 1 ELSE 0), c0)
    BY <1>a, <2>1, <2>2, <2>3, <2>4 DEF Becomes, Over
  <2> QED
    BY <2>1, <2>5
<1>14. CASE Fails(n)
  <2>1. Over(r0, 1) \in Runs /\ c0 \in Contents
    BY <1>14, <1>a, <1>b DEF Fails, At, Runs, Stages, Words, Contents, Over
  <2>2. runs' = [runs EXCEPT ![n] = Over(r0, 1)]
    BY <1>14, <1>a, <2>1 DEF Fails, At, Holding, Live, Outside, Files, Over
  <2>3. dirs' = [dirs EXCEPT ![r0.dir] = c0]
    BY <1>14, <1>a, <2>1 DEF Fails, At, Holding, Live, Outside, Files, Over
  <2>4. Holding(n) /\ clock' = clock
    BY <1>14, <1>a DEF Fails, At, Holding, Live, Outside
  <2>5. Becomes(n, Over(r0, 1), c0)
    BY <1>a, <2>1, <2>2, <2>3, <2>4 DEF Becomes, Over
  <2> QED
    BY <2>1, <2>5
<1>15. CASE AnswerTrigger(n)
  <2> DEFINE a == [status |-> IF r0.exit = 0 THEN "pass" ELSE "fail", carried |-> c0.summary]
  <2>1. [r0 EXCEPT !.answer = a] \in Runs /\ c0 \in Contents
    BY <1>a DEF Runs, Contents, Answers
  <2>2. runs' = [runs EXCEPT ![n] = [r0 EXCEPT !.answer = a]]
    BY <1>15, <1>a, <2>1 DEF AnswerTrigger, Answer, At, Holding, Live, Outside, Files
  <2>3. dirs' = [dirs EXCEPT ![r0.dir] = c0]
    BY <1>15, <1>a, <2>1 DEF AnswerTrigger, Answer, At, Holding, Live, Outside, Files
  <2>4. Holding(n) /\ clock' = clock
    BY <1>15, <1>a DEF AnswerTrigger, At, Holding, Live, Outside
  <2>5. Becomes(n, [r0 EXCEPT !.answer = a], c0)
    BY <1>a, <2>1, <2>2, <2>3, <2>4 DEF Becomes, Over
  <2> QED
    BY <2>1, <2>5
<1>16. CASE TimeOut(n)
  <2> DEFINE r1 == [Over(r0, None) EXCEPT !.at = IF r0.stage = "fill" THEN clock ELSE @]
             a == [status |-> "fail", carried |-> None]
  <2>1. [r1 EXCEPT !.answer = a] \in Runs
    <3>1. r1 \in Runs
      BY <1>a, <1>b DEF Runs
    <3>2. a \in Answers
      BY DEF Answers
    <3> QED
      BY <3>1, <3>2 DEF Runs
  <2>2. runs' = [runs EXCEPT ![n] = [r1 EXCEPT !.answer = a]]
    BY <1>16 DEF TimeOut, Answer
  <2>3. dirs' = [dirs EXCEPT ![r0.dir] = c0]
    BY <1>16, <1>a DEF TimeOut
  <2>4. Holding(n) /\ clock' = clock
    BY <1>16 DEF TimeOut, Holding
  <2>5. Becomes(n, [r1 EXCEPT !.answer = a], c0)
    BY <1>a, <2>1, <2>2, <2>3, <2>4 DEF Becomes, Over
  <2> QED
    BY <1>a, <2>1, <2>5
<1> QED
  BY <1>1, <1>2, <1>3, <1>4, <1>5, <1>6, <1>7, <1>8, <1>9, <1>10, <1>11, <1>12, <1>13, <1>14, <1>15,
     <1>16 DEF Steps, Script

LEMMA Framing ==
  ASSUME TypeOK, NEW n, NEW r, NEW c, Becomes(n, r, c)
  PROVE  /\ n \in 1..Len(runs) /\ runs[n] \in Runs /\ runs[n].dir \in Dirs
         /\ runs' \in Seq(Runs) /\ Len(runs') = Len(runs) /\ runs'[n] = r
         /\ \A m \in 1..Len(runs) \ {n} : runs'[m] = runs[m]
         /\ dirs' \in [Dirs -> Contents] /\ dirs'[runs[n].dir] = c
         /\ \A d \in Dirs \ {runs[n].dir} : dirs'[d] = dirs[d]
<1>1. /\ n \in 1..Len(runs) /\ r \in Runs /\ c \in Contents /\ runs' = [runs EXCEPT ![n] = r]
      /\ dirs' = [dirs EXCEPT ![runs[n].dir] = c]
  BY DEF Becomes
<1>2. runs[n] \in Runs /\ runs[n].dir \in Dirs
  BY <1>1, RunAt
<1>3. /\ runs' \in Seq(Runs) /\ Len(runs') = Len(runs) /\ runs'[n] = r
      /\ \A m \in 1..Len(runs) \ {n} : runs'[m] = runs[m]
  BY <1>1, Replacing DEF TypeOK
<1> QED
  BY <1>1, <1>2, <1>3 DEF TypeOK

LEMMA StepTypes ==
  ASSUME TypeOK, NEW n \in 1..MaxRuns, Steps(n)
  PROVE  TypeOK'
<1>1. PICK r \in Runs, c \in Contents : Becomes(n, r, c)
  BY Becoming
<1>2. /\ n \in 1..Len(runs) /\ runs[n] \in Runs /\ runs' \in Seq(Runs) /\ Len(runs') = Len(runs)
      /\ dirs' \in [Dirs -> Contents]
  BY <1>1, Framing
<1>3. clock' = clock
  BY <1>1 DEF Becomes
<1>4. archive' \subseteq Archived
  <2>1. CASE Archive(n)
    <3>1. Files(n).summary \in Summaries \cup {Broken}
      BY <1>2, <2>1, RunAt DEF Archive, Contents
    <3>2. runs[n].context \in Contexts /\ clock \in Times
      <4>1. clock \in 1..MaxTime
        BY DEF TypeOK
      <4> QED
        <5>1. runs[n].context \in Contexts
          BY <1>2 DEF Runs
        <5>2. clock \in Times
          BY <4>1, RunsAssumption DEF Times
        <5> QED
          BY <5>1, <5>2
    <3>3. [context |-> runs[n].context, second |-> clock, summary |-> Files(n).summary] \in Archived
      BY <3>1, <3>2 DEF Archived
    <3>4. archive \subseteq Archived
      BY DEF TypeOK
    <3> QED
      BY <2>1, <3>3, <3>4 DEF Archive
  <2>2. CASE ~Archive(n)
    BY <2>2 DEF TypeOK, Steps, Script, AnswerTrigger, TimeOut, Fails, SkipAll, WrongMode, Outside,
       SkipLoad, Load, LoadFails, Judge, Chaos, ChaosFails, ReadChaos, Correlate, Fill, Exit
  <2> QED
    BY <2>1, <2>2
<1>5. orphans' \subseteq Orphans
  <2>1. CASE TimeOut(n)
    <3>1. Started(n) \subseteq Orphans
      BY <1>2, StartedTypes DEF TypeOK
    <3>2. PICK o \in Started(n) \cup {None} : orphans' = orphans \cup ({o} \ {None})
      BY <2>1 DEF TimeOut
    <3> QED
      BY <3>1, <3>2 DEF TypeOK
  <2>2. CASE ~TimeOut(n)
    BY <2>2 DEF TypeOK, Steps, Script, AnswerTrigger, Fails, SkipAll, WrongMode, Outside, Archive,
       SkipLoad, Load, LoadFails, Judge, Chaos, ChaosFails, ReadChaos, Correlate, Fill, Exit
  <2> QED
    BY <2>1, <2>2
<1> QED
  BY <1>2, <1>3, <1>4, <1>5 DEF TypeOK

------------------------------------------------------------------------------
(* The steps that are nobody's: a run that begins, an orphan that ends,    *)
(* the clock, make clean                                                   *)

Begins == \E d \in Dirs, c \in Contexts, t \in BOOLEAN :
            Begin(d, c, t) /\ UNCHANGED <<dirs, Outside>>

LEMMA NextSteps ==
  ASSUME Next
  PROVE  \/ Begins \/ OrphanEnds \/ Tick \/ Clean
         \/ \E n \in 1..MaxRuns : Steps(n)
<1>1. ASSUME NEW p \in Payloads, Trigger(p)
      PROVE  Begins
  <2>1. p.dir \in Dirs /\ p.context \in Contexts
    BY DEF Dirs, Contexts
  <2> QED
    BY <1>1, <2>1 DEF Trigger, Begins
<1>2. Schedule => Begins
  <2>1. Latest \in Dirs /\ Scheduled \in Contexts
    BY DEF Dirs, Contexts
  <2> QED
    BY <2>1 DEF Schedule, Begins
<1> QED
  BY <1>1, <1>2 DEF Next, Steps

LEMMA BeginsTypes ==
  ASSUME TypeOK, Begins
  PROVE  TypeOK'
<1>1. PICK d \in Dirs, c \in Contexts, t \in BOOLEAN : Begin(d, c, t)
  BY DEF Begins
<1>2. runs' \in Seq(Runs) /\ Len(runs') <= MaxRuns
  BY <1>1, Beginning
<1> QED
  BY <1>2 DEF TypeOK, Begins, Outside

(* What an orphan writes at its end: one file of its directory             *)
LEMMA LastWriting ==
  ASSUME TypeOK, NEW o \in Orphans, NEW f \in LastWrites(o)
  PROVE  /\ f \in [Dirs -> Contents] /\ \A d \in Dirs \ {o.dir} : f[d] = dirs[d]
         /\ o.file # "summary" => f[o.dir].summary = dirs[o.dir].summary
         /\ o.file # "k6" => f[o.dir].k6 = dirs[o.dir].k6
         /\ o.file = "summary" => f[o.dir].summary \in {o.left, Broken}
<1>1. o.dir \in Dirs /\ dirs \in [Dirs -> Contents] /\ dirs[o.dir] \in Contents
  BY DEF Orphans, TypeOK
<1>2. CASE o.file = "k6"
  <2>1. PICK q \in Measures \cup {Broken} : f = [dirs EXCEPT ![o.dir].k6 = q]
    BY <1>2 DEF LastWrites
  <2>2. [dirs[o.dir] EXCEPT !.k6 = q] \in Contents
    BY <1>1 DEF Contents, K6Files
  <2> QED
    BY <1>1, <1>2, <2>1, <2>2 DEF Contents
<1>3. CASE o.file = "chaos"
  <2>1. PICK w \in Words : f = [dirs EXCEPT ![o.dir].chaos = w]
    BY <1>3 DEF LastWrites
  <2>2. [dirs[o.dir] EXCEPT !.chaos = w] \in Contents
    BY <1>1 DEF Contents
  <2> QED
    BY <1>1, <1>3, <2>1, <2>2 DEF Contents
<1>4. CASE o.file = "summary"
  <2>1. PICK t \in {o.left, Broken} : f = [dirs EXCEPT ![o.dir].summary = t]
    BY <1>4 DEF LastWrites
  <2>2. [dirs[o.dir] EXCEPT !.summary = t] \in Contents
    BY <1>1 DEF Contents, Orphans
  <2> QED
    BY <1>1, <1>4, <2>1, <2>2 DEF Contents
<1> QED
  BY <1>2, <1>3, <1>4 DEF Orphans

LEMMA OthersTypes ==
  ASSUME TypeOK, OrphanEnds \/ Tick \/ Clean
  PROVE  TypeOK'
<1>1. CASE OrphanEnds
  <2>1. PICK o \in orphans :
          /\ orphans' = orphans \ {o} /\ dirs' \in LastWrites(o) \cup {dirs}
          /\ UNCHANGED <<clock, runs, archive>>
    BY <1>1 DEF OrphanEnds
  <2>2. o \in Orphans
    BY DEF TypeOK
  <2>3. dirs' \in [Dirs -> Contents]
    BY <2>1, <2>2, LastWriting DEF TypeOK
  <2> QED
    BY <2>1, <2>3 DEF TypeOK
<1>2. CASE Tick
  BY <1>2, RunsAssumption DEF Tick, TypeOK
<1>3. CASE Clean
  <2>1. NoFiles \in Contents
    BY DEF NoFiles, Contents, K6Files
  <2> QED
    BY <1>3, <2>1 DEF Clean, TypeOK
<1> QED
  BY <1>1, <1>2, <1>3

------------------------------------------------------------------------------
(* A run that is alone *)

(* Nobody else's step reaches it.                                          *)
LEMMA Unreached ==
  ASSUME TypeOK, SoleHolder, NEW n, NEW r, NEW c, Becomes(n, r, c),
         NEW p \in 1..Len(runs) \ {n}
  PROVE  /\ runs'[p] = runs[p]
         /\ runs[p].alone /\ Holding(p) => dirs'[runs[p].dir] = dirs[runs[p].dir]
<1>1. runs'[p] = runs[p] /\ \A d \in Dirs \ {runs[n].dir} : dirs'[d] = dirs[d]
  BY Framing
<1>2. n \in 1..Len(runs) /\ Holding(n) /\ runs[p].dir \in Dirs
  BY RunAt DEF Becomes
<1> QED
  BY <1>1, <1>2 DEF SoleHolder

(* A trigger that gives up holds nothing. *)
LEMMA GivesUp ==
  ASSUME TypeOK, NEW n \in 1..MaxRuns, TimeOut(n)
  PROVE  /\ runs'[n].stage = "ended" /\ runs'[n].answer = [status |-> "fail", carried |-> None]
         /\ runs'[n].at = IF runs[n].stage = "fill" THEN clock ELSE runs[n].at
         /\ runs'[n].stored = runs[n].stored /\ ~Holding(n)'
<1> DEFINE a == [status |-> "fail", carried |-> None]
           r1 == [Over(runs[n], None) EXCEPT !.at = IF runs[n].stage = "fill" THEN clock ELSE @]
<1>1. PICK r \in Runs, c \in Contents : Becomes(n, r, c)
  BY Becoming DEF Steps
<1>2. n \in 1..Len(runs) /\ runs[n] \in Runs /\ DOMAIN runs = 1..Len(runs)
  BY <1>1, Framing, LenProperties DEF TypeOK
<1>3. runs'[n] = [r1 EXCEPT !.answer = a]
  BY <1>2 DEF TimeOut, Answer
<1>4. /\ runs'[n].stage = "ended" /\ runs'[n].answer = a
      /\ runs'[n].at = IF runs[n].stage = "fill" THEN clock ELSE runs[n].at
      /\ runs'[n].stored = runs[n].stored
  BY <1>2, <1>3 DEF Over, Runs
<1>5. a # None
  BY NoneAssumption DEF Answers
<1> QED
  BY <1>4, <1>5 DEF Holding, Live

LEMMA StepSole ==
  ASSUME TypeOK, SoleHolder, NEW n \in 1..MaxRuns, Steps(n)
  PROVE  SoleHolder'
<1>1. PICK r \in Runs, c \in Contents : Becomes(n, r, c)
  BY Becoming
<1>2. /\ n \in 1..Len(runs) /\ Holding(n) /\ Len(runs') = Len(runs) /\ runs'[n] = r
      /\ \A m \in 1..Len(runs) \ {n} : runs'[m] = runs[m]
      /\ r.dir = runs[n].dir /\ r.alone = runs[n].alone /\ r.quiet = runs[n].quiet
  BY <1>1, Framing DEF Becomes
<1>3. /\ \A o \in orphans' : o \in orphans \/ o.dir = runs[n].dir
      /\ Holding(n)' => orphans' = orphans
  <2>1. CASE TimeOut(n)
    <3>4. ~Holding(n)'
      BY <2>1, GivesUp
    <3>5. \A o \in Started(n) : o.dir = runs[n].dir
      BY <1>1, Framing, StartedTypes DEF TypeOK
    <3> QED
      BY <2>1, <3>4, <3>5 DEF TimeOut
  <2>2. CASE ~TimeOut(n)
    BY <2>2 DEF Steps, Script, AnswerTrigger, Fails, SkipAll, WrongMode, Outside, Archive,
       SkipLoad, Load, LoadFails, Judge, Chaos, ChaosFails, ReadChaos, Correlate, Fill, Exit
  <2> QED
    BY <2>1, <2>2
<1>4. \A m \in 1..Len(runs) \ {n} : Holding(m)' => Holding(m)
  BY <1>2 DEF Holding, Live
<1>5. SUFFICES ASSUME NEW p \in 1..Len(runs), runs'[p].alone, Holding(p)'
               PROVE  /\ \A o \in orphans' : o.dir = runs'[p].dir =>
                           o.file # "summary" /\ (runs'[p].quiet => o.file # "k6")
                      /\ \A m \in 1..Len(runs) \ {p} : Holding(m)' => runs'[m].dir # runs'[p].dir
  BY <1>2 DEF SoleHolder
<1>6. runs[p].alone /\ Holding(p) /\ runs'[p].dir = runs[p].dir /\ runs'[p].quiet = runs[p].quiet
  BY <1>2, <1>4, <1>5
<1>7. /\ \A o \in orphans : o.dir = runs[p].dir =>
           o.file # "summary" /\ (runs[p].quiet => o.file # "k6")
      /\ \A m \in 1..Len(runs) \ {p} : Holding(m) => runs[m].dir # runs[p].dir
  BY <1>6 DEF SoleHolder
<1> QED
  BY <1>2, <1>3, <1>4, <1>5, <1>6, <1>7

(* What a step of run n does to a run that is alone and goes on *)
LEMMA Onward ==
  ASSUME TypeOK, SoleHolder, NEW n \in 1..MaxRuns, Steps(n), NEW p \in 1..Len(runs'),
         runs'[p].alone, Holding(p)'
  PROVE  /\ p \in 1..Len(runs) /\ runs[p].alone /\ Holding(p) /\ runs'[p].dir = runs[p].dir
         /\ p # n => runs'[p] = runs[p] /\ Files(p)' = Files(p)
<1>1. PICK r \in Runs, c \in Contents : Becomes(n, r, c)
  BY Becoming
<1>2. /\ n \in 1..Len(runs) /\ Holding(n) /\ Len(runs') = Len(runs) /\ runs'[n] = r
      /\ r.dir = runs[n].dir /\ r.alone = runs[n].alone
  BY <1>1, Framing DEF Becomes
<1>3. CASE p = n
  BY <1>2, <1>3
<1>4. CASE p # n
  <2>1. /\ runs'[p] = runs[p]
        /\ runs[p].alone /\ Holding(p) => dirs'[runs[p].dir] = dirs[runs[p].dir]
    BY <1>1, <1>2, <1>4, Unreached
  <2>2. runs[p].alone /\ Holding(p)
    BY <2>1 DEF Holding, Live
  <2> QED
    BY <1>2, <1>4, <2>1, <2>2 DEF Files
<1> QED
  BY <1>3, <1>4

(* Where a step of run n has to be looked up *)
LEMMA Here ==
  ASSUME TypeOK, NEW n \in 1..MaxRuns, Steps(n)
  PROVE  /\ n \in 1..Len(runs) /\ DOMAIN runs = 1..Len(runs) /\ Len(runs') = Len(runs)
         /\ runs[n] \in Runs /\ runs[n].dir \in Dirs /\ runs'[n].dir = runs[n].dir
         /\ runs' \in Seq(Runs) /\ runs'[n] \in Runs
         /\ DOMAIN dirs = Dirs /\ dirs[runs[n].dir] \in Contents
         /\ \A m \in 1..Len(runs) \ {n} : runs'[m] = runs[m]
         /\ runs'[n].context = runs[n].context /\ runs'[n].alone = runs[n].alone
         /\ runs'[n].quiet = runs[n].quiet
<1>1. PICK r \in Runs, c \in Contents : Becomes(n, r, c)
  BY Becoming
<1>2. /\ n \in 1..Len(runs) /\ Len(runs') = Len(runs) /\ runs'[n] = r /\ runs' \in Seq(Runs)
      /\ \A m \in 1..Len(runs) \ {n} : runs'[m] = runs[m]
      /\ r.dir = runs[n].dir /\ r.context = runs[n].context /\ r.alone = runs[n].alone
      /\ r.quiet = runs[n].quiet
  BY <1>1, Framing DEF Becomes
<1>3. DOMAIN runs = 1..Len(runs)
  BY LenProperties DEF TypeOK
<1> QED
  BY <1>1, <1>2, <1>3, RunAt DEF TypeOK, Files

(* Measured, of the record of a run                                        *)
MeasuredIn(r) == r.measured # None /\ (r.quiet => r.measured = "kept")

LEMMA StepMeasured ==
  ASSUME TypeOK, SoleHolder, MeasuredHere, NEW n \in 1..MaxRuns, Steps(n)
  PROVE  MeasuredHere'
<1> SUFFICES ASSUME NEW p \in 1..Len(runs'), runs'[p].alone, Holding(p)'
             PROVE  /\ runs'[p].stage \in {"load", "judge"} => runs'[p].load # "pass"
                    /\ runs'[p].stage = "judge" =>
                         /\ runs'[p].measured # None
                         /\ runs'[p].quiet => runs'[p].measured = Remark(Files(p)'.k6)
                    /\ runs'[p].load = "pass" => MeasuredIn(runs'[p])
  BY DEF MeasuredHere, Measured, MeasuredIn, Remark, Within
<1>1. /\ p \in 1..Len(runs) /\ runs[p].alone /\ Holding(p) /\ runs'[p].dir = runs[p].dir
      /\ p # n => runs'[p] = runs[p] /\ Files(p)' = Files(p)
  BY Onward
<1>2. /\ runs[p].stage \in {"load", "judge"} => runs[p].load # "pass"
      /\ runs[p].stage = "judge" =>
           runs[p].measured # None /\ (runs[p].quiet => runs[p].measured = Remark(Files(p).k6))
      /\ runs[p].load = "pass" => MeasuredIn(runs[p])
  BY <1>1 DEF MeasuredHere, Measured, MeasuredIn
<1>3. CASE p # n
  BY <1>1, <1>2, <1>3
<1>4. CASE p = n
  <2> USE <1>4
  <2>a. /\ DOMAIN runs = 1..Len(runs) /\ runs[n] \in Runs /\ runs[n].dir \in Dirs
        /\ DOMAIN dirs = Dirs /\ dirs[runs[n].dir] \in Contents
    BY Here
  <2>1. CASE SkipAll(n) \/ WrongMode(n) \/ Exit(n) \/ Fails(n)
    <3>1. runs'[n].stage = "ended" /\ runs'[n].load = "skipped"
      <4>1. PICK code \in {0, 1} : runs' = [runs EXCEPT ![n] = Over(runs[n], code)]
        BY <2>1 DEF SkipAll, WrongMode, Exit, Fails
      <4> QED
        BY <1>1, <2>a, <4>1 DEF Over, Runs
    <3> QED
      BY <3>1
  <2>7. CASE TimeOut(n)
    BY <2>7, GivesUp
  <2>2. CASE Load(n)
    <3>1. PICK q : /\ dirs' = [dirs EXCEPT ![runs[n].dir].k6 = q]
                   /\ runs' = [runs EXCEPT ![n].stage = "judge", ![n].attempt = 0,
                                           ![n].measured = Remark(q)]
      BY <2>2 DEF Load
    <3>2. /\ runs'[n].stage = "judge" /\ runs'[n].measured = Remark(q)
          /\ runs'[n].load = runs[n].load /\ dirs'[runs[n].dir].k6 = q
      BY <1>1, <2>a, <3>1 DEF Runs, Contents
    <3>3. runs[n].load # "pass"
      BY <1>2, <2>2 DEF Load, At
    <3>4. Remark(q) # None
      BY NoneAssumption DEF Remark
    <3> QED
      BY <1>1, <3>2, <3>3, <3>4 DEF Files
  <2>3. CASE LoadFails(n)
    <3>1. runs'[n].load = "fail" /\ runs'[n].stage # "judge"
      BY <1>1, <2>3, <2>a DEF LoadFails, At, Runs
    <3> QED
      BY <3>1
  <2>4. CASE Judge(n)
    <3>1. /\ runs'[n].stage = "chaos" /\ runs'[n].load = Judged(Files(n).k6)
          /\ runs'[n].measured = runs[n].measured /\ runs'[n].quiet = runs[n].quiet
      BY <1>1, <2>4, <2>a DEF Judge, Runs
    <3>2. /\ runs[n].measured # None
          /\ runs[n].quiet => runs[n].measured = Remark(Files(n).k6)
      BY <1>2, <2>4 DEF Judge, At
    <3>3. Judged(Files(n).k6) = "pass" => Remark(Files(n).k6) = "kept"
      BY DEF Judged, Remark
    <3> QED
      BY <3>1, <3>2, <3>3 DEF MeasuredIn
  <2>5. CASE \/ SkipLoad(n) \/ Chaos(n) \/ ChaosFails(n) \/ ReadChaos(n) \/ Correlate(n) \/ Fill(n)
             \/ Archive(n)
    <3>1. /\ runs'[n].load = runs[n].load /\ runs'[n].measured = runs[n].measured
          /\ runs'[n].quiet = runs[n].quiet /\ runs'[n].stage \notin {"load", "judge"}
      BY <1>1, <2>5, <2>a DEF SkipLoad, Chaos, ChaosFails, ReadChaos, Correlate, Fill, Archive, Runs
    <3> QED
      BY <1>2, <3>1 DEF MeasuredIn
  <2>6. CASE AnswerTrigger(n)
    <3>1. /\ runs'[n].load = runs[n].load /\ runs'[n].measured = runs[n].measured
          /\ runs'[n].quiet = runs[n].quiet /\ runs'[n].stage = "ended"
      BY <1>1, <2>6, <2>a DEF AnswerTrigger, Answer, At, Runs
    <3> QED
      BY <1>2, <3>1 DEF MeasuredIn
  <2> QED
    BY <2>1, <2>2, <2>3, <2>4, <2>5, <2>6, <2>7 DEF Steps, Script
<1> QED
  BY <1>3, <1>4

LEMMA StepSummed ==
  ASSUME TypeOK, SoleHolder, MeasuredHere, SummedUpHere, NEW n \in 1..MaxRuns, Steps(n)
  PROVE  SummedUpHere'
<1> SUFFICES ASSUME NEW p \in 1..Len(runs'), runs'[p].alone, Holding(p)'
             PROVE  LET s == Files(p)'.summary IN
                    /\ runs'[p].stage \in {"archive", "exit"} =>
                         /\ Known(s) /\ s.by = p /\ s.context = runs'[p].context
                         /\ s.load = runs'[p].load
                         /\ s.status = StatusOf(runs'[p].load, runs'[p].chaos)
                    /\ runs'[p].stage = "ended" /\ runs'[p].exit = 0 /\ runs'[p].triggered =>
                         /\ Known(s) /\ s.by = p /\ s.status # "fail"
                         /\ s.load = "pass" => MeasuredIn(runs'[p])
  BY DEF SummedUpHere, Measured, MeasuredIn, Known
<1> DEFINE s0 == Files(p).summary
<1>1. /\ p \in 1..Len(runs) /\ runs[p].alone /\ Holding(p) /\ runs'[p].dir = runs[p].dir
      /\ p # n => runs'[p] = runs[p] /\ Files(p)' = Files(p)
  BY Onward
<1>2. /\ runs[p].stage \in {"archive", "exit"} =>
           /\ Known(s0) /\ s0.by = p /\ s0.context = runs[p].context
           /\ s0.load = runs[p].load /\ s0.status = StatusOf(runs[p].load, runs[p].chaos)
      /\ runs[p].stage = "ended" /\ runs[p].exit = 0 /\ runs[p].triggered =>
           /\ Known(s0) /\ s0.by = p /\ s0.status # "fail"
           /\ s0.load = "pass" => MeasuredIn(runs[p])
  BY <1>1 DEF SummedUpHere, Measured, MeasuredIn
<1>3. CASE p # n
  BY <1>1, <1>2, <1>3
<1>4. CASE p = n
  <2> USE <1>4
  <2>a. /\ DOMAIN runs = 1..Len(runs) /\ runs[n] \in Runs /\ runs[n].dir \in Dirs
        /\ DOMAIN dirs = Dirs /\ dirs[runs[n].dir] \in Contents /\ n \in 1..Len(runs)
    BY Here
  <2>1. CASE SkipAll(n)
    <3> DEFINE t == [by |-> n, at |-> Never, dir |-> None, context |-> None, status |-> "skipped",
                     load |-> None, chaos |-> None, correlation |-> "unknown", score |-> 0]
    <3>1. t \in Summaries
      BY RunsAssumption DEF Summaries, Times, Never, Words
    <3>2. runs'[n].stage = "ended" /\ dirs'[runs[n].dir].summary = t
      BY <2>1, <2>a DEF SkipAll, Over, Runs, Contents
    <3>3. t.by = n /\ t.status = "skipped" /\ t.load # "pass"
      BY NoneAssumption DEF Words
    <3> QED
      BY <1>1, <3>1, <3>2, <3>3, NoneAssumption DEF Files, Known
  <2>2. CASE WrongMode(n) \/ Fails(n)
    <3>1. /\ runs'[n].stage = "ended" /\ runs'[n].exit # 0
      <4>1. runs' = [runs EXCEPT ![n] = Over(runs[n], 1)]
        BY <2>2 DEF WrongMode, Fails
      <4> QED
        BY <2>a, <4>1 DEF Over, Runs
    <3> QED
      BY <3>1
  <2>8. CASE TimeOut(n)
    BY <2>8, GivesUp
  <2>3. CASE Exit(n)
    <3>1. /\ runs'[n].stage = "ended" /\ runs'[n].measured = runs[n].measured /\ dirs' = dirs
          /\ runs'[n].quiet = runs[n].quiet
          /\ runs'[n].exit = 0 => StatusOf(runs[n].load, runs[n].chaos) # "fail"
      BY <2>3, <2>a DEF Exit, Over, Runs
    <3>2. runs[n].load = "pass" => MeasuredIn(runs[n])
      BY <1>1 DEF MeasuredHere, Measured, MeasuredIn
    <3> QED
      BY <1>1, <1>2, <2>3, <3>1, <3>2 DEF Exit, At, Files, MeasuredIn
  <2>4. CASE Fill(n)
    <3>1. PICK d \in DegradationsOf(runs[n].rate) :
            dirs' = [dirs EXCEPT ![runs[n].dir].summary = SummaryOf(n, clock, d)]
      BY <2>4 DEF Fill
    <3>2. /\ runs'[n].stage = "archive" /\ runs'[n].load = runs[n].load
          /\ runs'[n].chaos = runs[n].chaos /\ runs'[n].context = runs[n].context
      BY <2>4, <2>a DEF Fill, Runs
    <3>3. Files(n)'.summary = SummaryOf(n, clock, d)
      BY <1>1, <2>a, <3>1 DEF Files, Contents
    <3>4. Known(SummaryOf(n, clock, d))
      BY <2>a, <3>1, Summing DEF TypeOK
    <3> QED
      BY <3>2, <3>3, <3>4 DEF SummaryOf
  <2>5. CASE Archive(n)
    <3>1. /\ runs'[n].stage = "exit" /\ runs'[n].load = runs[n].load
          /\ runs'[n].chaos = runs[n].chaos /\ runs'[n].context = runs[n].context /\ dirs' = dirs
      BY <2>5, <2>a DEF Archive, Runs
    <3> QED
      BY <1>1, <1>2, <2>5, <3>1 DEF Archive, At, Files
  <2>6. CASE AnswerTrigger(n)
    <3>1. /\ runs'[n].stage = runs[n].stage /\ runs'[n].exit = runs[n].exit
          /\ runs'[n].triggered = runs[n].triggered /\ runs'[n].measured = runs[n].measured
          /\ runs[n].stage = "ended" /\ dirs' = dirs /\ runs'[n].quiet = runs[n].quiet
      BY <2>6, <2>a DEF AnswerTrigger, Answer, At, Runs
    <3> QED
      BY <1>1, <1>2, <3>1 DEF Files, MeasuredIn
  <2>7. CASE \/ SkipLoad(n) \/ Load(n) \/ LoadFails(n) \/ Judge(n) \/ Chaos(n) \/ ChaosFails(n)
             \/ ReadChaos(n) \/ Correlate(n)
    <3>1. runs'[n].stage \notin {"archive", "exit", "ended"}
      BY <2>7, <2>a DEF SkipLoad, Load, LoadFails, Judge, Chaos, ChaosFails, ReadChaos, Correlate,
         At, Runs
    <3> QED
      BY <3>1
  <2> QED
    BY <2>1, <2>2, <2>3, <2>4, <2>5, <2>6, <2>7, <2>8 DEF Steps, Script
<1> QED
  BY <1>3, <1>4

(* Dates and answers of run n *)
LEMMA StepDated ==
  ASSUME TypeOK, Dated, NEW n \in 1..MaxRuns, Steps(n)
  PROVE  Dated'
<1>a. /\ n \in 1..Len(runs) /\ DOMAIN runs = 1..Len(runs) /\ Len(runs') = Len(runs)
      /\ runs[n] \in Runs /\ \A m \in 1..Len(runs) \ {n} : runs'[m] = runs[m]
  BY Here
<1>b. /\ runs[n].stage \notin {"archive", "exit", "ended"} => runs[n].at = Never
      /\ runs[n].stage \notin {"exit", "ended"} => runs[n].stored = Never
      /\ runs[n].stage \in {"archive", "exit"} \/ runs[n].stored # Never => runs[n].at # Never
      /\ runs[n].answer # None => runs[n].stage = "ended"
  BY <1>a DEF Dated
<1>c. clock # Never
  BY RunsAssumption DEF TypeOK, Never
<1>d. SUFFICES /\ runs'[n].stage \notin {"archive", "exit", "ended"} => runs'[n].at = Never
               /\ runs'[n].stage \notin {"exit", "ended"} => runs'[n].stored = Never
               /\ runs'[n].stage \in {"archive", "exit"} \/ runs'[n].stored # Never =>
                    runs'[n].at # Never
               /\ runs'[n].answer # None => runs'[n].stage = "ended"
  BY <1>a DEF Dated
<1>1. CASE SkipAll(n) \/ WrongMode(n) \/ Exit(n) \/ Fails(n)
  <2>1. PICK code \in {0, 1} : runs' = [runs EXCEPT ![n] = Over(runs[n], code)]
    BY <1>1 DEF SkipAll, WrongMode, Exit, Fails
  <2>2. /\ runs'[n].stage = "ended" /\ runs'[n].at = runs[n].at /\ runs'[n].stored = runs[n].stored
    BY <1>a, <2>1 DEF Over, Runs
  <2> QED
    BY <1>b, <2>2
<1>2. CASE \/ SkipLoad(n) \/ Load(n) \/ LoadFails(n) \/ Judge(n) \/ Chaos(n) \/ ChaosFails(n)
           \/ ReadChaos(n) \/ Correlate(n)
  <2>1. /\ runs'[n].at = runs[n].at /\ runs'[n].stored = runs[n].stored
        /\ runs'[n].answer = runs[n].answer /\ runs[n].stage # "ended"
        /\ {runs[n].stage, runs'[n].stage} \cap {"archive", "exit", "ended"} = {}
    BY <1>2, <1>a DEF SkipLoad, Load, LoadFails, Judge, Chaos, ChaosFails, ReadChaos, Correlate,
       At, Runs
  <2> QED
    BY <1>b, <2>1
<1>3. CASE Fill(n)
  <2>1. /\ runs'[n].at = clock /\ runs'[n].stored = runs[n].stored /\ runs'[n].stage = "archive"
        /\ runs[n].stage = "fill" /\ runs'[n].answer = runs[n].answer
    BY <1>3, <1>a DEF Fill, At, Runs
  <2> QED
    BY <1>b, <1>c, <2>1
<1>4. CASE Archive(n)
  <2>1. /\ runs'[n].at = runs[n].at /\ runs'[n].stored = clock /\ runs'[n].stage = "exit"
        /\ runs[n].stage = "archive" /\ runs'[n].answer = runs[n].answer
    BY <1>4, <1>a DEF Archive, At, Runs
  <2>2. runs[n].at # Never
    BY <1>b, <1>4 DEF Archive, At
  <2> QED
    BY <1>b, <2>1, <2>2
<1>5. CASE AnswerTrigger(n)
  <2>1. /\ runs'[n].at = runs[n].at /\ runs'[n].stored = runs[n].stored /\ runs'[n].stage = "ended"
    BY <1>5, <1>a DEF AnswerTrigger, Answer, At, Runs
  <2> QED
    BY <1>b, <2>1
<1>6. CASE TimeOut(n)
  <2>1. /\ runs'[n].stage = "ended" /\ runs'[n].stored = runs[n].stored
        /\ runs'[n].at = IF runs[n].stage = "fill" THEN clock ELSE runs[n].at
    BY <1>6, GivesUp
  <2> QED
    BY <1>b, <1>c, <2>1
<1> QED
  BY <1>1, <1>2, <1>3, <1>4, <1>5, <1>6 DEF Steps, Script

(* A summary once written stays its run's.                                 *)
LEMMA StillSigned ==
  ASSUME Signed, Len(runs) \in Nat, Len(runs) <= Len(runs'),
         \A m \in 1..Len(runs) : runs[m].stage \in {"archive", "exit", "ended"} =>
           /\ runs'[m].stage \in {"archive", "exit", "ended"} /\ runs'[m].at = runs[m].at
           /\ runs'[m].context = runs[m].context /\ runs'[m].dir = runs[m].dir,
         \A s \in Written' : Known(s) => s \in Written, Len(runs') \in Nat
  PROVE  Signed'
<1>1. 1..Len(runs) \subseteq 1..Len(runs')
  OBVIOUS
<1>2. ASSUME NEW s \in Written', Known(s)
      PROVE  /\ s.by \in 1..Len(runs')
             /\ runs'[s.by].stage \in {"archive", "exit", "ended"}
             /\ s.load # None => s.status = StatusOf(s.load, s.chaos)
             /\ s.context # None => /\ s.at = runs'[s.by].at /\ s.context = runs'[s.by].context
                                    /\ s.dir = runs'[s.by].dir
  <2>1. s \in Written
    BY <1>2
  <2>2. /\ s.by \in 1..Len(runs) /\ runs[s.by].stage \in {"archive", "exit", "ended"}
        /\ s.load # None => s.status = StatusOf(s.load, s.chaos)
        /\ s.context # None => /\ s.at = runs[s.by].at /\ s.context = runs[s.by].context
                               /\ s.dir = runs[s.by].dir
    BY <1>2, <2>1 DEF Signed
  <2> QED
    BY <1>1, <2>2
<1>3. ASSUME NEW s \in Written', NEW t \in Written', Known(s), Known(t), s.by = t.by
      PROVE  s = t
  <2>1. s \in Written /\ t \in Written
    BY <1>3
  <2> QED
    BY <1>3, <2>1 DEF Signed
<1>4. \A s : Known(s)' <=> Known(s)
  BY DEF Known
<1> QED
  BY <1>2, <1>3, <1>4 DEF Signed

(* A run signs the one summary it writes.                                  *)
LEMMA NewlySigned ==
  ASSUME TypeOK, Signed, NEW n \in 1..Len(runs), Len(runs') = Len(runs),
         \A m \in 1..Len(runs) \ {n} : runs'[m] = runs[m],
         runs[n].stage \notin {"archive", "exit", "ended"},
         runs'[n].stage \in {"archive", "exit", "ended"},
         NEW t, t.by = n, t.load # None => t.status = StatusOf(t.load, t.chaos),
         t.context # None =>
           t.at = runs'[n].at /\ t.context = runs'[n].context /\ t.dir = runs'[n].dir,
         Written' \subseteq Written \cup {t}
  PROVE  Signed'
<1>1. ASSUME NEW s \in Written, Known(s)
      PROVE  /\ s.by \in 1..Len(runs) \ {n}
             /\ runs'[s.by].stage \in {"archive", "exit", "ended"}
             /\ s.load # None => s.status = StatusOf(s.load, s.chaos)
             /\ s.context # None => /\ s.at = runs'[s.by].at /\ s.context = runs'[s.by].context
                                    /\ s.dir = runs'[s.by].dir
  BY <1>1 DEF Signed
<1>2. ASSUME NEW s \in Written', Known(s)
      PROVE  /\ s.by \in 1..Len(runs')
             /\ runs'[s.by].stage \in {"archive", "exit", "ended"}
             /\ s.load # None => s.status = StatusOf(s.load, s.chaos)
             /\ s.context # None => /\ s.at = runs'[s.by].at /\ s.context = runs'[s.by].context
                                    /\ s.dir = runs'[s.by].dir
  <2>1. CASE s = t
    BY <2>1
  <2>2. CASE s \in Written
    BY <1>1, <1>2, <2>2
  <2> QED
    BY <2>1, <2>2
<1>3. ASSUME NEW s \in Written', NEW u \in Written', Known(s), Known(u), s.by = u.by
      PROVE  s = u
  <2>1. CASE s \in Written /\ u \in Written
    BY <1>3, <2>1 DEF Signed
  <2>2. CASE s = t /\ u = t
    BY <2>2
  <2>3. CASE s \in Written /\ u = t
    BY <1>1, <1>3, <2>3
  <2>4. CASE s = t /\ u \in Written
    BY <1>1, <1>3, <2>4
  <2> QED
    BY <2>1, <2>2, <2>3, <2>4
<1>4. \A s : Known(s)' <=> Known(s)
  BY DEF Known
<1> QED
  BY <1>2, <1>3, <1>4 DEF Signed

LEMMA StepSigned ==
  ASSUME TypeOK, Dated, Signed, NEW n \in 1..MaxRuns, Steps(n)
  PROVE  Signed'
<1>a. /\ n \in 1..Len(runs) /\ DOMAIN runs = 1..Len(runs) /\ Len(runs') = Len(runs)
      /\ runs[n] \in Runs /\ \A m \in 1..Len(runs) \ {n} : runs'[m] = runs[m]
      /\ runs[n].dir \in Dirs /\ DOMAIN dirs = Dirs /\ dirs[runs[n].dir] \in Contents
      /\ runs'[n].dir = runs[n].dir /\ runs'[n].context = runs[n].context
  BY Here
<1>n. Len(runs) \in Nat
  BY LenProperties DEF TypeOK
<1>w. ASSUME NEW t, archive' = archive, orphans' = orphans, dirs' = [dirs EXCEPT ![runs[n].dir].summary = t]
      PROVE  Written' \subseteq Written \cup {t}
  <2>1. \A d \in Dirs : dirs'[d].summary = dirs[d].summary \/ dirs'[d].summary = t
    BY <1>a, <1>w DEF TypeOK, Contents
  <2> QED
    BY <1>w, <2>1 DEF Written
<1>1. CASE SkipAll(n)
  <2> DEFINE t == [by |-> n, at |-> Never, dir |-> None, context |-> None, status |-> "skipped",
                   load |-> None, chaos |-> None, correlation |-> "unknown", score |-> 0]
  <2>1. Written' \subseteq Written \cup {t}
    BY <1>1, <1>w DEF SkipAll, Outside
  <2>2. runs[n].stage = "load" /\ runs'[n].stage = "ended"
    BY <1>1, <1>a DEF SkipAll, At, Over, Runs
  <2>3. t.by = n /\ t.load = None /\ t.context = None
    OBVIOUS
  <2> HIDE DEF t
  <2> QED
    BY <1>a, <2>1, <2>2, <2>3, NewlySigned
<1>2. CASE WrongMode(n)
  <2> DEFINE t == [by |-> n, at |-> clock, dir |-> None, context |-> None, status |-> "fail",
                   load |-> None, chaos |-> None, correlation |-> "unknown", score |-> 0]
  <2>1. Written' \subseteq Written \cup {t}
    BY <1>2, <1>w DEF WrongMode, Outside
  <2>2. runs[n].stage = "load" /\ runs'[n].stage = "ended"
    BY <1>2, <1>a DEF WrongMode, At, Over, Runs
  <2>3. t.by = n /\ t.load = None /\ t.context = None
    OBVIOUS
  <2> HIDE DEF t
  <2> QED
    BY <1>a, <2>1, <2>2, <2>3, NewlySigned
<1>3. CASE Fill(n)
  <2>1. PICK d \in DegradationsOf(runs[n].rate) :
          dirs' = [dirs EXCEPT ![runs[n].dir].summary = SummaryOf(n, clock, d)]
    BY <1>3 DEF Fill
  <2> DEFINE t == SummaryOf(n, clock, d)
  <2>2. Written' \subseteq Written \cup {t}
    BY <1>3, <1>w, <2>1 DEF Fill, Outside
  <2>3. runs[n].stage = "fill" /\ runs'[n].stage = "archive" /\ runs'[n].at = clock
    BY <1>3, <1>a DEF Fill, At, Runs
  <2>4. /\ t.by = n /\ t.status = StatusOf(t.load, t.chaos)
        /\ t.at = clock /\ t.context = runs[n].context /\ t.dir = runs[n].dir
    BY DEF SummaryOf
  <2> HIDE DEF t
  <2> QED
    BY <1>a, <2>2, <2>3, <2>4, NewlySigned
<1>5. CASE TimeOut(n) /\ runs[n].stage = "fill"
  <2>1. PICK o \in Started(n) \cup {None} : orphans' = orphans \cup ({o} \ {None})
    BY <1>5 DEF TimeOut
  <2>2. runs[n].stage = "fill" /\ runs'[n].stage = "ended" /\ runs'[n].at = clock
    BY <1>5, GivesUp
  <2>3. CASE o = None
    <3> DEFINE t == [by |-> n, load |-> None, context |-> None]
    <3>1. Written' \subseteq Written \cup {t}
      BY <1>5, <2>1, <2>3 DEF TimeOut, Written
    <3>2. t.by = n /\ t.load = None /\ t.context = None
      OBVIOUS
    <3> HIDE DEF t
    <3> QED
      BY <1>a, <2>2, <3>1, <3>2, NewlySigned
  <2>4. CASE o # None
    <3>1. PICK d \in DegradationsOf(runs[n].rate) : o.left = SummaryOf(n, clock, d)
      BY <1>5, <2>1, <2>4 DEF Started
    <3> DEFINE t == SummaryOf(n, clock, d)
    <3>2. Written' \subseteq Written \cup {t}
      BY <1>5, <2>1, <3>1 DEF TimeOut, Written
    <3>3. /\ t.by = n /\ t.status = StatusOf(t.load, t.chaos)
          /\ t.at = clock /\ t.context = runs[n].context /\ t.dir = runs[n].dir
      BY DEF SummaryOf
    <3> HIDE DEF t
    <3> QED
      BY <1>a, <2>2, <3>2, <3>3, NewlySigned
  <2> QED
    BY <2>3, <2>4
<1>4. CASE ~(SkipAll(n) \/ WrongMode(n) \/ Fill(n) \/ (TimeOut(n) /\ runs[n].stage = "fill"))
  <2>o. \A s \in {o.left : o \in orphans'} : Known(s) => s \in {o.left : o \in orphans}
    <3>1. CASE TimeOut(n)
      <4>1. \A o \in Started(n) : o.left = None
        BY <1>4, <1>a, <3>1, StartedTypes DEF TypeOK
      <4>2. PICK o \in Started(n) \cup {None} : orphans' = orphans \cup ({o} \ {None})
        BY <3>1 DEF TimeOut
      <4> QED
        BY <4>1, <4>2 DEF Known
    <3>2. CASE ~TimeOut(n)
      BY <1>4, <3>2 DEF Steps, Script, AnswerTrigger, Fails, Outside, Archive, SkipLoad, Load,
         LoadFails, Judge, Chaos, ChaosFails, ReadChaos, Correlate, Exit
    <3> QED
      BY <3>1, <3>2
  <2>1. \A s \in Written' : Known(s) => s \in Written
    <3>1. CASE Archive(n)
      <4>1. Files(n).summary \in Written /\ dirs' = dirs
        BY <1>a, <3>1 DEF Archive, Written, Files
      <4> QED
        BY <2>o, <3>1, <4>1 DEF Archive, Written
    <3>2. CASE Correlate(n)
      <4>1. Written' \subseteq Written \cup {Broken}
        BY <1>w, <3>2 DEF Correlate, Outside
      <4> QED
        BY <4>1 DEF Known
    <3>3. CASE ~(Archive(n) \/ Correlate(n))
      <4>1. archive' = archive
        BY <1>4, <3>3 DEF Steps, Script, AnswerTrigger, TimeOut, Fails, Outside, SkipLoad, Load,
           LoadFails, Judge, Chaos, ChaosFails, ReadChaos, Exit
      <4>2. \A d \in Dirs : dirs'[d].summary = dirs[d].summary
        <5>1. CASE Load(n) \/ LoadFails(n)
          <6>1. PICK q : dirs' = [dirs EXCEPT ![runs[n].dir].k6 = q]
            BY <5>1 DEF Load, LoadFails
          <6> QED
            BY <1>a, <6>1 DEF Contents
        <5>2. CASE Chaos(n)
          <6>1. PICK q : dirs' = [dirs EXCEPT ![runs[n].dir].chaos = q]
            BY <5>2 DEF Chaos
          <6> QED
            BY <1>a, <6>1 DEF Contents
        <5>3. CASE ~(Load(n) \/ LoadFails(n) \/ Chaos(n))
          BY <1>4, <3>3, <5>3 DEF Steps, Script, AnswerTrigger, TimeOut, Fails, Outside, SkipLoad,
             Judge, ChaosFails, ReadChaos, Exit
        <5> QED
          BY <5>1, <5>2, <5>3
      <4> QED
        BY <2>o, <4>1, <4>2 DEF Written
    <3> QED
      BY <3>1, <3>2, <3>3
  <2>2. runs[n].stage \in {"archive", "exit", "ended"} =>
          runs'[n].stage \in {"archive", "exit", "ended"} /\ runs'[n].at = runs[n].at
    <3>1. CASE Archive(n)
      BY <1>a, <3>1 DEF Archive, Runs
    <3>2. CASE Exit(n) \/ Fails(n)
      <4>1. PICK code \in {0, 1} : runs' = [runs EXCEPT ![n] = Over(runs[n], code)]
        BY <3>2 DEF Exit, Fails
      <4> QED
        BY <1>a, <4>1 DEF Over, Runs
    <3>3. CASE AnswerTrigger(n)
      BY <1>a, <3>3 DEF AnswerTrigger, Answer, Runs
    <3>4. CASE TimeOut(n)
      BY <1>4, <3>4, GivesUp
    <3>5. CASE ~(Archive(n) \/ Exit(n) \/ Fails(n) \/ AnswerTrigger(n) \/ TimeOut(n))
      BY <1>4, <3>5 DEF Steps, Script, SkipLoad, Load, LoadFails, Judge, Chaos, ChaosFails, ReadChaos,
         Correlate, At
    <3> QED
      BY <3>1, <3>2, <3>3, <3>4, <3>5
  <2> QED
    BY <1>a, <1>n, <2>1, <2>2, StillSigned
<1> QED
  BY <1>1, <1>2, <1>3, <1>4, <1>5

(* Dates are given once. *)
LEMMA DatesStand ==
  ASSUME TypeOK, Dated, NEW n \in 1..MaxRuns, Steps(n), NEW m \in 1..Len(runs)
  PROVE  /\ runs'[m].stored = runs[m].stored \/ (runs[m].stored = Never /\ m = n /\ Archive(n))
         /\ runs'[m].at = runs[m].at \/ runs[m].at = Never
<1>a. /\ n \in 1..Len(runs) /\ DOMAIN runs = 1..Len(runs)
      /\ runs[n] \in Runs /\ \A p \in 1..Len(runs) \ {n} : runs'[p] = runs[p]
  BY Here
<1>1. CASE m # n
  BY <1>a, <1>1
<1>2. CASE m = n
  <2>1. CASE Fill(n)
    <3>1. runs'[n].stored = runs[n].stored /\ runs[n].at = Never
      BY <1>a, <2>1 DEF Fill, At, Dated, Runs
    <3> QED
      BY <1>2, <3>1
  <2>2. CASE Archive(n)
    <3>1. runs[n].stored = Never /\ runs'[n].at = runs[n].at
      BY <1>a, <2>2 DEF Archive, At, Dated, Runs
    <3> QED
      BY <1>2, <2>2, <3>1
  <2>3. CASE SkipAll(n) \/ WrongMode(n) \/ Exit(n) \/ Fails(n)
    <3>1. PICK code \in {0, 1} : runs' = [runs EXCEPT ![n] = Over(runs[n], code)]
      BY <2>3 DEF SkipAll, WrongMode, Exit, Fails
    <3> QED
      BY <1>a, <1>2, <3>1 DEF Over, Runs
  <2>4. CASE AnswerTrigger(n)
    BY <1>a, <1>2, <2>4 DEF AnswerTrigger, Answer, Runs
  <2>5. CASE TimeOut(n)
    <3>1. /\ runs'[n].stored = runs[n].stored
          /\ runs'[n].at = IF runs[n].stage = "fill" THEN clock ELSE runs[n].at
      BY <2>5, GivesUp
    <3>2. runs[n].stage = "fill" => runs[n].at = Never
      BY <1>a DEF Dated
    <3> QED
      BY <1>2, <3>1, <3>2
  <2>6. CASE \/ SkipLoad(n) \/ Load(n) \/ LoadFails(n) \/ Judge(n) \/ Chaos(n) \/ ChaosFails(n)
             \/ ReadChaos(n) \/ Correlate(n)
    BY <1>a, <1>2, <2>6 DEF SkipLoad, Load, LoadFails, Judge, Chaos, ChaosFails, ReadChaos,
       Correlate, Runs
  <2> QED
    BY <2>1, <2>2, <2>3, <2>4, <2>5, <2>6 DEF Steps, Script
<1> QED
  BY <1>1, <1>2

(* What a run has archived is overwritten only by one that is not apart    *)
(* from it.                                                                *)
LEMMA StillHolds ==
  ASSUME TypeOK, Dated, ArchiveHolds, NEW n \in 1..MaxRuns, Steps(n),
         NEW p \in 1..Len(runs), runs[p].stored # Never, runs'[p].stored = runs[p].stored,
         runs'[p].at = runs[p].at, runs'[p].dir = runs[p].dir,
         runs'[p].context = runs[p].context, runs'[p].alone, runs'[p].alone = runs[p].alone,
         Apart(p)'
  PROVE  \E a \in archive' :
           /\ a.context = runs[p].context /\ a.second = runs[p].stored /\ Known(a.summary)
           /\ a.summary.by = p /\ a.summary.context = runs[p].context
<1>a. /\ n \in 1..Len(runs) /\ DOMAIN runs = 1..Len(runs) /\ Len(runs') = Len(runs)
      /\ runs[n] \in Runs /\ \A m \in 1..Len(runs) \ {n} : runs'[m] = runs[m]
      /\ runs'[n].dir = runs[n].dir /\ runs'[n].context = runs[n].context
  BY Here
<1>2. ASSUME NEW m \in 1..Len(runs) \ {p}, runs[m].context = runs[p].context
      PROVE  /\ runs[m].stored # runs[p].stored /\ runs'[m].stored # runs[p].stored
             /\ runs[m].dir = runs[p].dir => runs[m].at # runs[p].at
  <2>1. runs[p].at # Never
    BY DEF Dated
  <2>2. runs'[m].context = runs[m].context /\ runs'[m].dir = runs[m].dir
    BY <1>a
  <2>3. /\ runs'[m].stored # runs[p].stored
        /\ runs'[m].dir = runs[p].dir => runs'[m].at # runs[p].at
    BY <1>2, <1>a, <2>2 DEF Apart
  <2> QED
    BY <2>1, <2>2, <2>3, DatesStand
<1>3. Apart(p)
  BY <1>2 DEF Apart
<1>4. PICK a \in archive :
        /\ a.context = runs[p].context /\ a.second = runs[p].stored /\ Known(a.summary)
        /\ a.summary.by = p /\ a.summary.context = runs[p].context
  BY <1>3 DEF ArchiveHolds
<1>5. CASE Archive(n)
  <2>1. ~(a.context = runs[n].context /\ a.second = clock)
    <3>1. runs'[n].stored = clock /\ runs[n].stored = Never
      BY <1>5, <1>a DEF Archive, At, Dated, Runs
    <3>2. p # n
      BY <3>1
    <3> QED
      BY <1>2, <1>4, <1>a, <3>1, <3>2
  <2> QED
    BY <1>4, <1>5, <2>1 DEF Archive
<1>6. CASE ~Archive(n)
  <2>1. archive' = archive
    BY <1>6 DEF Steps, Script, AnswerTrigger, TimeOut, Fails, SkipAll, WrongMode, Outside,
       SkipLoad, Load, LoadFails, Judge, Chaos, ChaosFails, ReadChaos, Correlate, Fill, Exit
  <2> QED
    BY <1>4, <2>1
<1> QED
  BY <1>5, <1>6

LEMMA StepHolds ==
  ASSUME TypeOK, SummedUpHere, Dated, ArchiveHolds, NEW n \in 1..MaxRuns, Steps(n)
  PROVE  ArchiveHolds'
<1>a. /\ n \in 1..Len(runs) /\ DOMAIN runs = 1..Len(runs) /\ Len(runs') = Len(runs)
      /\ runs[n] \in Runs /\ \A m \in 1..Len(runs) \ {n} : runs'[m] = runs[m]
      /\ runs'[n].dir = runs[n].dir /\ runs'[n].context = runs[n].context
      /\ runs'[n].alone = runs[n].alone
  BY Here
<1> SUFFICES ASSUME NEW p \in 1..Len(runs), runs'[p].stored # Never, runs'[p].alone, Apart(p)'
             PROVE  \E a \in archive' :
                      /\ a.context = runs'[p].context /\ a.second = runs'[p].stored
                      /\ Known(a.summary) /\ a.summary.by = p
                      /\ a.summary.context = runs'[p].context
  BY <1>a DEF ArchiveHolds, Known
<1>1. CASE runs[p].stored # Never
  <2>1. runs'[p].stored = runs[p].stored /\ runs'[p].at = runs[p].at
    BY <1>1, DatesStand DEF Dated
  <2>2. /\ runs'[p].dir = runs[p].dir /\ runs'[p].context = runs[p].context
        /\ runs'[p].alone = runs[p].alone
    BY <1>a
  <2> QED
    BY <1>1, <2>1, <2>2, StillHolds
<1>2. CASE runs[p].stored = Never
  <2>1. p = n /\ Archive(n)
    BY <1>2, <1>a, DatesStand
  <2> DEFINE s == Files(n).summary
  <2>2. Known(s) /\ s.by = n /\ s.context = runs[n].context
    <3>1. runs[n].stage = "archive" /\ runs[n].alone
      BY <1>a, <2>1 DEF Archive, At
    <3> QED
      BY <1>a, <3>1 DEF SummedUpHere, Holding, Live
  <2>3. [context |-> runs[n].context, second |-> clock, summary |-> s] \in archive'
    BY <2>1 DEF Archive
  <2>4. runs'[n].stored = clock
    BY <1>a, <2>1 DEF Archive, Runs
  <2> QED
    BY <1>a, <2>1, <2>2, <2>3, <2>4
<1> QED
  BY <1>1, <1>2

LEMMA StepAnswered ==
  ASSUME TypeOK, SummedUpHere, Dated, PassedTriggerIsOwn, NEW n \in 1..MaxRuns, Steps(n)
  PROVE  PassedTriggerIsOwn'
<1>a. /\ n \in 1..Len(runs) /\ DOMAIN runs = 1..Len(runs) /\ Len(runs') = Len(runs)
      /\ runs[n] \in Runs /\ \A m \in 1..Len(runs) \ {n} : runs'[m] = runs[m]
      /\ runs'[n].alone = runs[n].alone
  BY Here
<1>b. runs[n].answer = None
  <2>1. Holding(n)
    BY Becoming DEF Becomes
  <2> QED
    BY <1>a, <2>1 DEF Dated, Holding, Live
<1> DEFINE Own(m, r) == r.answer # None /\ r.alone /\ r.answer.status = "pass" =>
                          /\ Known(r.answer.carried) /\ r.answer.carried.by = m
                          /\ r.answer.carried.status # "fail"
                          /\ r.answer.carried.load = "pass" => MeasuredIn(r)
<1>1. SUFFICES Own(n, runs'[n])
  <2>1. \A m \in 1..Len(runs) : Own(m, runs[m])
    BY DEF PassedTriggerIsOwn, Measured, MeasuredIn
  <2>2. \A m \in 1..Len(runs') : Own(m, runs'[m])
    BY <1>a, <1>1, <2>1
  <2> QED
    BY <2>2 DEF PassedTriggerIsOwn, Known, Measured, MeasuredIn
<1>2. CASE AnswerTrigger(n)
  <2> DEFINE a == [status |-> IF runs[n].exit = 0 THEN "pass" ELSE "fail",
                   carried |-> Files(n).summary]
  <2>1. runs'[n] = [runs[n] EXCEPT !.answer = a]
    BY <1>a, <1>2 DEF AnswerTrigger, Answer
  <2>2. /\ runs'[n].answer = a /\ runs'[n].measured = runs[n].measured
        /\ runs'[n].quiet = runs[n].quiet
    BY <1>a, <2>1 DEF Runs
  <2>3. runs[n].alone /\ runs[n].exit = 0 =>
          /\ Known(Files(n).summary) /\ Files(n).summary.by = n /\ Files(n).summary.status # "fail"
          /\ Files(n).summary.load = "pass" => MeasuredIn(runs[n])
    BY <1>a, <1>2 DEF AnswerTrigger, At, SummedUpHere, Holding, Measured, MeasuredIn
  <2>4. a.carried = Files(n).summary /\ (a.status = "pass" => runs[n].exit = 0)
    OBVIOUS
  <2> HIDE DEF a
  <2> QED
    BY <1>a, <2>2, <2>3, <2>4 DEF MeasuredIn
<1>3. CASE TimeOut(n)
  BY <1>3, GivesUp
<1>4. CASE SkipAll(n) \/ WrongMode(n) \/ Exit(n) \/ Fails(n)
  <2>1. PICK code \in {0, 1} : runs' = [runs EXCEPT ![n] = Over(runs[n], code)]
    BY <1>4 DEF SkipAll, WrongMode, Exit, Fails
  <2>2. runs'[n].answer = None
    BY <1>a, <1>b, <2>1 DEF Over, Runs
  <2> QED
    BY <2>2
<1>5. CASE \/ SkipLoad(n) \/ Load(n) \/ LoadFails(n) \/ Judge(n) \/ Chaos(n) \/ ChaosFails(n)
           \/ ReadChaos(n) \/ Correlate(n) \/ Fill(n) \/ Archive(n)
  <2>1. runs'[n].answer = None
    BY <1>a, <1>b, <1>5 DEF SkipLoad, Load, LoadFails, Judge, Chaos, ChaosFails, ReadChaos,
       Correlate, Fill, Archive, Runs
  <2> QED
    BY <2>1
<1> QED
  BY <1>2, <1>3, <1>4, <1>5 DEF Steps, Script

------------------------------------------------------------------------------
(* The steps that are nobody's *)

LEMMA BeginsKeeps ==
  ASSUME IndInv, Begins
  PROVE  IndInv'
<1>1. PICK d \in Dirs, c \in Contexts, t \in BOOLEAN :
        Begin(d, c, t) /\ UNCHANGED <<dirs, Outside>>
  BY DEF Begins
<1>t. TypeOK
  BY DEF IndInv
<1> DEFINE k == Len(runs) + 1
<1>2. /\ Len(runs') = k /\ runs'[k] = NewRun(d, c, t)
      /\ \A n \in 1..Len(runs) :
           runs'[n] = IF Holding(n) /\ runs[n].dir = d
                      THEN [runs[n] EXCEPT !.alone = FALSE] ELSE runs[n]
  BY <1>1, <1>t, Beginning
<1>3. Len(runs) \in Nat /\ dirs' = dirs /\ archive' = archive /\ orphans' = orphans
  BY <1>1, <1>t, LenProperties DEF TypeOK, Outside
<1>4. /\ runs'[k].dir = d /\ runs'[k].stage = "load" /\ runs'[k].load = "skipped"
      /\ runs'[k].at = Never /\ runs'[k].stored = Never /\ runs'[k].answer = None
  BY <1>2 DEF NewRun
<1>5. /\ runs'[k].alone =>
                        /\ \A n \in 1..Len(runs) : Holding(n) => runs[n].dir # d
                        /\ \A o \in orphans : o.file = "summary" => o.dir # d
      /\ runs'[k].quiet =>
           \A o \in orphans : o.file = "k6" => o.dir # d
  BY <1>2 DEF NewRun
<1>6. ASSUME NEW n \in 1..Len(runs)
      PROVE  /\ \A x \in {"dir", "context", "stage", "load", "chaos", "at", "stored", "exit", "answer",
                          "measured", "quiet"} : runs'[n][x] = runs[n][x]
             /\ Holding(n)' <=> Holding(n)
             /\ runs'[n].alone => runs'[n] = runs[n] /\ (Holding(n) => runs[n].dir # d)
  <2>1. runs[n] \in Runs
    BY <1>t, RunAt
  <2>2. CASE Holding(n) /\ runs[n].dir = d
    <3>1. runs'[n] = [runs[n] EXCEPT !.alone = FALSE]
      BY <1>2, <2>2
    <3> QED
      BY <2>1, <3>1 DEF Runs, Holding, Live
  <2>3. CASE ~(Holding(n) /\ runs[n].dir = d)
    BY <1>2, <2>3 DEF Holding, Live
  <2> QED
    BY <2>2, <2>3
<1>7. TypeOK'
  BY <1>t, BeginsTypes, <1>1 DEF Begins
<1>8. SoleHolder'
  <2> SUFFICES ASSUME NEW p \in 1..k, runs'[p].alone, Holding(p)'
               PROVE  /\ \A o \in orphans : o.dir = runs'[p].dir =>
                           o.file # "summary" /\ (runs'[p].quiet => o.file # "k6")
                      /\ \A m \in 1..k \ {p} : Holding(m)' => runs'[m].dir # runs'[p].dir
    BY <1>2, <1>3 DEF SoleHolder
  <2>1. CASE p = k
    BY <1>3, <1>4, <1>5, <1>6, <2>1
  <2>2. CASE p # k
    <3>1. /\ p \in 1..Len(runs) /\ runs'[p] = runs[p] /\ Holding(p) /\ runs[p].alone
          /\ runs[p].dir # d
      BY <1>3, <1>6, <2>2
    <3>2. /\ \A o \in orphans : o.dir = runs[p].dir =>
               o.file # "summary" /\ (runs[p].quiet => o.file # "k6")
          /\ \A m \in 1..Len(runs) \ {p} : Holding(m) => runs[m].dir # runs[p].dir
      BY <3>1 DEF IndInv, SoleHolder
    <3> QED
      BY <1>3, <1>4, <1>6, <3>1, <3>2
  <2> QED
    BY <2>1, <2>2
<1>9. MeasuredHere'
  <2> SUFFICES ASSUME NEW p \in 1..k, runs'[p].alone, Holding(p)'
               PROVE  /\ runs'[p].stage \in {"load", "judge"} => runs'[p].load # "pass"
                      /\ runs'[p].stage = "judge" =>
                           /\ runs'[p].measured # None
                           /\ runs'[p].quiet => runs'[p].measured = Remark(Files(p)'.k6)
                      /\ runs'[p].load = "pass" => MeasuredIn(runs'[p])
    BY <1>2 DEF MeasuredHere, Measured, MeasuredIn, Remark, Within
  <2>1. CASE p = k
    BY <1>4, <2>1
  <2>2. CASE p # k
    <3>1. p \in 1..Len(runs) /\ runs'[p] = runs[p] /\ Holding(p) /\ Files(p)' = Files(p)
      BY <1>3, <1>6, <2>2 DEF Files
    <3> QED
      BY <3>1 DEF IndInv, MeasuredHere, Measured, MeasuredIn
  <2> QED
    BY <2>1, <2>2
<1>10. SummedUpHere'
  <2> SUFFICES ASSUME NEW p \in 1..k, runs'[p].alone, Holding(p)'
               PROVE  LET s == Files(p)'.summary IN
                      /\ runs'[p].stage \in {"archive", "exit"} =>
                           /\ Known(s) /\ s.by = p /\ s.context = runs'[p].context
                           /\ s.load = runs'[p].load
                           /\ s.status = StatusOf(runs'[p].load, runs'[p].chaos)
                      /\ runs'[p].stage = "ended" /\ runs'[p].exit = 0 /\ runs'[p].triggered =>
                           /\ Known(s) /\ s.by = p /\ s.status # "fail"
                           /\ s.load = "pass" => MeasuredIn(runs'[p])
    BY <1>2 DEF SummedUpHere, Measured, MeasuredIn, Known
  <2>1. CASE p = k
    BY <1>4, <2>1
  <2>2. CASE p # k
    <3>1. p \in 1..Len(runs) /\ runs'[p] = runs[p] /\ Holding(p) /\ Files(p)' = Files(p)
      BY <1>3, <1>6, <2>2 DEF Files
    <3> QED
      BY <3>1 DEF IndInv, SummedUpHere, Measured, MeasuredIn
  <2> QED
    BY <2>1, <2>2
<1>11. Dated'
  <2> SUFFICES ASSUME NEW p \in 1..k
               PROVE  /\ runs'[p].stage \notin {"archive", "exit", "ended"} => runs'[p].at = Never
                      /\ runs'[p].stage \notin {"exit", "ended"} => runs'[p].stored = Never
                      /\ runs'[p].stage \in {"archive", "exit"} \/ runs'[p].stored # Never =>
                           runs'[p].at # Never
                      /\ runs'[p].answer # None => runs'[p].stage = "ended"
    BY <1>2 DEF Dated
  <2>1. CASE p = k
    BY <1>4, <2>1
  <2>2. CASE p # k
    <3>1. p \in 1..Len(runs)
      BY <1>3, <2>2
    <3> QED
      BY <1>6, <3>1 DEF IndInv, Dated
  <2> QED
    BY <2>1, <2>2
<1>12. Signed'
  <2>1. Written' = Written
    BY <1>3 DEF Written
  <2>2. Len(runs) <= Len(runs') /\ Len(runs') \in Nat
    BY <1>2, <1>3
  <2> QED
    BY <1>3, <1>6, <2>1, <2>2, StillSigned DEF IndInv
<1>13. ArchiveHolds'
  <2> SUFFICES ASSUME NEW p \in 1..k, runs'[p].stored # Never, runs'[p].alone, Apart(p)'
               PROVE  \E a \in archive :
                        /\ a.context = runs'[p].context /\ a.second = runs'[p].stored
                        /\ Known(a.summary) /\ a.summary.by = p
                        /\ a.summary.context = runs'[p].context
    BY <1>2, <1>3 DEF ArchiveHolds, Known
  <2>1. p \in 1..Len(runs)
    BY <1>3, <1>4
  <2>2. runs'[p] = runs[p]
    BY <1>6, <2>1
  <2>3. Apart(p)
    BY <1>2, <1>3, <1>6, <2>1, <2>2 DEF Apart
  <2> QED
    BY <2>1, <2>2, <2>3 DEF IndInv, ArchiveHolds
<1>14. PassedTriggerIsOwn'
  <2> DEFINE Own(m, r) == r.answer # None /\ r.alone /\ r.answer.status = "pass" =>
                          /\ Known(r.answer.carried) /\ r.answer.carried.by = m
                          /\ r.answer.carried.status # "fail"
                          /\ r.answer.carried.load = "pass" => MeasuredIn(r)
  <2>1. \A m \in 1..Len(runs) : Own(m, runs[m])
    BY DEF IndInv, PassedTriggerIsOwn, Measured, MeasuredIn
  <2>2. ASSUME NEW m \in 1..k
        PROVE  Own(m, runs'[m])
    <3>1. CASE m = k
      BY <1>4, <3>1
    <3>2. CASE m # k
      <4>1. m \in 1..Len(runs)
        BY <1>3, <3>2
      <4>2. runs'[m].alone => runs'[m] = runs[m]
        BY <1>6, <4>1
      <4> QED
        BY <2>1, <4>1, <4>2
    <3> QED
      BY <3>1, <3>2
  <2> QED
    BY <1>2, <2>2 DEF PassedTriggerIsOwn, Known, Measured, MeasuredIn
<1> QED
  BY <1>7, <1>8, <1>9, <1>10, <1>11, <1>12, <1>13, <1>14 DEF IndInv

LEMMA OrphanKeeps ==
  ASSUME IndInv, OrphanEnds
  PROVE  IndInv'
<1>1. PICK o \in orphans :
        /\ orphans' = orphans \ {o} /\ dirs' \in LastWrites(o) \cup {dirs}
        /\ UNCHANGED <<clock, runs, archive>>
  BY DEF OrphanEnds
<1>2. TypeOK'
  BY OthersTypes DEF IndInv
<1>3. o \in Orphans /\ DOMAIN dirs = Dirs
  BY DEF IndInv, TypeOK
<1>4. /\ \A d \in Dirs \ {o.dir} : dirs'[d] = dirs[d]
      /\ o.file # "summary" => dirs'[o.dir].summary = dirs[o.dir].summary
      /\ o.file # "k6" => dirs'[o.dir].k6 = dirs[o.dir].k6
      /\ dirs'[o.dir].summary \in {dirs[o.dir].summary, o.left, Broken}
  <2>1. CASE dirs' = dirs
    BY <2>1
  <2>2. CASE dirs' \in LastWrites(o)
    BY <1>3, <2>2, LastWriting DEF IndInv
  <2> QED
    BY <1>1, <2>1, <2>2
<1>5. ASSUME NEW n \in 1..Len(runs)
      PROVE  /\ Holding(n)' <=> Holding(n)
             /\ runs[n].alone /\ Holding(n) =>
                  /\ Files(n)'.summary = Files(n).summary
                  /\ runs[n].quiet => Files(n)'.k6 = Files(n).k6
  <2>1. runs[n].dir \in Dirs
    BY RunAt DEF IndInv
  <2>2. runs[n].alone /\ Holding(n) /\ runs[n].dir = o.dir =>
          o.file # "summary" /\ (runs[n].quiet => o.file # "k6")
    BY DEF IndInv, SoleHolder
  <2> QED
    BY <1>1, <1>4, <2>1, <2>2 DEF Holding, Live, Files
<1>6. SoleHolder'
  BY <1>1, <1>5 DEF IndInv, SoleHolder
<1>7. MeasuredHere'
  BY <1>1, <1>5 DEF IndInv, MeasuredHere, Measured, Remark, Within
<1>8. SummedUpHere'
  BY <1>1, <1>5 DEF IndInv, SummedUpHere, Measured, Known
<1>9. Signed'
  <2>1. \A s \in Written' : Known(s) => s \in Written
    <3>1. ASSUME NEW d \in Dirs, Known(dirs'[d].summary)
          PROVE  dirs'[d].summary \in Written
      BY <1>1, <1>3, <1>4, <3>1 DEF Written, Known
    <3>2. \A p \in orphans' : p.left \in Written
      BY <1>1 DEF Written
    <3>3. \A a \in archive' : a.summary \in Written
      BY <1>1 DEF Written
    <3> QED
      BY <3>1, <3>2, <3>3 DEF Written
  <2>2. Len(runs) \in Nat
    BY LenProperties DEF IndInv, TypeOK
  <2> QED
    BY <1>1, <2>1, <2>2, StillSigned DEF IndInv
<1>10. Dated' /\ ArchiveHolds' /\ PassedTriggerIsOwn'
  BY <1>1 DEF IndInv, Dated, ArchiveHolds, Apart, PassedTriggerIsOwn, Known, Measured
<1> QED
  BY <1>2, <1>6, <1>7, <1>8, <1>9, <1>10 DEF IndInv

LEMMA TickKeeps ==
  ASSUME IndInv, Tick
  PROVE  IndInv'
<1>1. UNCHANGED <<runs, dirs, archive, orphans>>
  BY DEF Tick
<1>2. TypeOK'
  BY OthersTypes DEF IndInv
<1>3. SoleHolder' /\ MeasuredHere' /\ SummedUpHere'
  BY <1>1 DEF IndInv, SoleHolder, MeasuredHere, SummedUpHere, Holding, Live, Files, Known, Measured,
     Remark, Within
<1>4. Dated' /\ Signed' /\ ArchiveHolds' /\ PassedTriggerIsOwn'
  BY <1>1 DEF IndInv, Dated, Signed, Written, ArchiveHolds, Apart, PassedTriggerIsOwn, Known, Measured
<1> QED
  BY <1>2, <1>3, <1>4 DEF IndInv

LEMMA CleanKeeps ==
  ASSUME IndInv, Clean
  PROVE  IndInv'
<1>1. /\ UNCHANGED <<runs, archive>> /\ dirs' = [d \in Dirs |-> NoFiles]
      /\ orphans' \subseteq orphans /\ \A n \in 1..Len(runs) : ~Holding(n)
  BY DEF Clean
<1>2. TypeOK'
  BY OthersTypes DEF IndInv
<1>3. \A n \in 1..Len(runs) : ~Holding(n)'
  BY <1>1 DEF Holding, Live
<1>4. SoleHolder' /\ MeasuredHere' /\ SummedUpHere'
  BY <1>1, <1>3 DEF SoleHolder, MeasuredHere, SummedUpHere
<1>5. Signed'
  <2>1. \A s \in Written' : Known(s) => s \in Written
    BY <1>1 DEF Written, NoFiles, Known
  <2>2. Len(runs) \in Nat
    BY LenProperties DEF IndInv, TypeOK
  <2> QED
    BY <1>1, <2>1, <2>2, StillSigned DEF IndInv
<1>6. Dated' /\ ArchiveHolds' /\ PassedTriggerIsOwn'
  BY <1>1 DEF IndInv, Dated, ArchiveHolds, Apart, PassedTriggerIsOwn, Known, Measured
<1> QED
  BY <1>2, <1>4, <1>5, <1>6 DEF IndInv

------------------------------------------------------------------------------
(* Theorems *)

LEMMA InitKeeps ==
  ASSUME Init
  PROVE  IndInv
<1>1. Len(runs) = 0 /\ runs \in Seq(Runs) /\ 1..Len(runs) = {}
  BY DEF Init
<1>2. NoFiles \in Contents
  BY DEF NoFiles, Contents, K6Files
<1>3. TypeOK
  BY <1>1, <1>2, RunsAssumption DEF Init, TypeOK
<1>4. \A s \in Written : ~Known(s)
  BY DEF Init, Written, NoFiles, Known
<1> QED
  BY <1>1, <1>3, <1>4 DEF IndInv, SoleHolder, MeasuredHere, SummedUpHere, Dated, Signed, ArchiveHolds,
     PassedTriggerIsOwn

LEMMA NextKeeps ==
  ASSUME IndInv, [Next]_vars
  PROVE  IndInv'
<1>1. CASE Begins
  BY <1>1, BeginsKeeps
<1>2. CASE OrphanEnds
  BY <1>2, OrphanKeeps
<1>3. CASE Tick
  BY <1>3, TickKeeps
<1>4. CASE Clean
  BY <1>4, CleanKeeps
<1>5. ASSUME NEW n \in 1..MaxRuns, Steps(n)
      PROVE  IndInv'
  <2>1. /\ TypeOK /\ SoleHolder /\ MeasuredHere /\ SummedUpHere /\ Dated /\ Signed /\ ArchiveHolds
        /\ PassedTriggerIsOwn
    BY DEF IndInv
  <2>2. TypeOK' /\ SoleHolder' /\ MeasuredHere'
    BY <1>5, <2>1, StepTypes, StepSole, StepMeasured
  <2>3. SummedUpHere' /\ Dated' /\ Signed'
    BY <1>5, <2>1, StepSummed, StepDated, StepSigned
  <2>4. ArchiveHolds' /\ PassedTriggerIsOwn'
    BY <1>5, <2>1, StepHolds, StepAnswered
  <2> QED
    BY <2>2, <2>3, <2>4 DEF IndInv
<1>6. CASE UNCHANGED vars
  BY <1>6 DEF vars, IndInv, TypeOK, SoleHolder, MeasuredHere, SummedUpHere, Dated, Signed, Written,
     ArchiveHolds, Apart, PassedTriggerIsOwn, Holding, Live, Files, Known, Measured, Remark, Within
<1> QED
  BY <1>1, <1>2, <1>3, <1>4, <1>5, <1>6, NextSteps

(* The inductive invariant holds for any payloads, measurements,           *)
(* thresholds and number of runs.                                          *)
THEOREM ResilienceInductive == Spec => []IndInv
<1>1. Init => IndInv
  BY InitKeeps
<1>2. IndInv /\ [Next]_vars => IndInv'
  BY NextKeeps
<1> QED
  BY <1>1, <1>2, PTL DEF Spec

(* A trigger that says pass carries the summary of the run it started,     *)
(* which did not fail, if no other run was in the directory.  If that says *)
(* its load path passed, an attempt of the run has ended with 0, and what  *)
(* lay in the k6 file then was no objection, unless the k6 of a killed run *)
(* was still writing there (resilience-incident-trigger.py:120,            *)
(* run-resilience-intelligence.sh:123).                                    *)
THEOREM PassedTriggersAreOwn == Spec => []PassedTriggerIsOwn
<1>1. IndInv => PassedTriggerIsOwn
  BY DEF IndInv
<1> QED
  BY <1>1, ResilienceInductive, PTL

(* Where the scorecard finds its summaries                                 *)
LEMMA Finding ==
  ASSUME NEW g \in Found
  PROVE  /\ g.rank \in 0..2 /\ g.summary \in Written /\ Known(g.summary)
         /\ g = [rank |-> g.rank, summary |-> g.summary]
BY DEF Found, RankOf, Written

(* Of the summaries that share an identity one has the lowest rank, and    *)
(* the scorecard keeps one of those.                                       *)
LowestOf(i) ==
  {f \in Found : Identity(f) = i /\ \A g \in Found : Identity(g) = i => f.rank <= g.rank}

LEMMA LowestExists ==
  ASSUME NEW f \in Found
  PROVE  LowestOf(Identity(f)) # {}
<1> DEFINE Copies == {g \in Found : Identity(g) = Identity(f)}
<1>1. PICK g \in Copies : \A h \in Copies : g.rank <= h.rank
  <2>1. \A g \in Copies : g.rank \in {0, 1, 2}
    BY Finding
  <2>2. CASE \E g \in Copies : g.rank = 0
    BY <2>1, <2>2
  <2>3. CASE ~(\E g \in Copies : g.rank = 0) /\ \E g \in Copies : g.rank = 1
    <3>1. \A g \in Copies : g.rank \in {1, 2}
      BY <2>1, <2>3
    <3> QED
      BY <2>3, <3>1
  <2>4. CASE ~(\E g \in Copies : g.rank = 0) /\ ~(\E g \in Copies : g.rank = 1)
    <3>1. \A g \in Copies : g.rank = 2
      BY <2>1, <2>4
    <3>2. f \in Copies
      OBVIOUS
    <3> QED
      BY <3>1, <3>2
  <2> QED
    BY <2>2, <2>3, <2>4
<1>2. g \in LowestOf(Identity(f))
  BY <1>1 DEF LowestOf
<1> QED
  BY <1>2

LEMMA KeepsLowest ==
  /\ Kept = {CHOOSE f \in LowestOf(i) : TRUE : i \in {Identity(f) : f \in Found}}
  /\ \A f \in Kept : f \in LowestOf(Identity(f)) /\ f = CHOOSE g \in LowestOf(Identity(f)) : TRUE
  /\ \A f \in Found : \E g \in Kept : g \in LowestOf(Identity(f))
<1>1. Kept = {CHOOSE f \in LowestOf(i) : TRUE : i \in {Identity(f) : f \in Found}}
  BY DEF Kept, LowestOf
<1>2. ASSUME NEW h \in Found
      PROVE  (CHOOSE g \in LowestOf(Identity(h)) : TRUE) \in LowestOf(Identity(h))
  BY <1>2, LowestExists
<1>3. ASSUME NEW f \in Kept
      PROVE  f \in LowestOf(Identity(f)) /\ f = CHOOSE g \in LowestOf(Identity(f)) : TRUE
  <2>1. PICK h \in Found : f = CHOOSE g \in LowestOf(Identity(h)) : TRUE
    BY <1>1
  <2>2. f \in LowestOf(Identity(h))
    BY <1>2, <2>1
  <2>3. Identity(f) = Identity(h)
    BY <2>2 DEF LowestOf
  <2> QED
    BY <2>1, <2>2, <2>3
<1>4. ASSUME NEW f \in Found
      PROVE  \E g \in Kept : g \in LowestOf(Identity(f))
  BY <1>1, <1>2
<1> QED
  BY <1>1, <1>3, <1>4

(* Of the copies of a summary the scorecard keeps one, whoever wrote it.   *)
LEMMA KeptOnce ==
  ASSUME IndInv, NEW f \in Kept, NEW g \in Kept, f.summary.by = g.summary.by
  PROVE  f = g
<1>1. f \in Found /\ g \in Found
  BY KeepsLowest DEF LowestOf
<1>2. f.summary = g.summary
  BY <1>1, Finding DEF IndInv, Signed
<1>3. Identity(f) = Identity(g)
  BY <1>2 DEF Identity
<1> QED
  BY <1>3, KeepsLowest

(* The scorecard counts no run twice and none for another service, and     *)
(* every archived run that was alone and apart (resilience-scorecard.py:86). *)
THEOREM RunsAreCountedOnce == Spec => []CountedOnce
<1>1. ASSUME IndInv, NEW f \in Kept, f.summary.context \in Contexts
      PROVE  runs[f.summary.by].context = f.summary.context
  <2>1. f \in Found
    BY KeepsLowest DEF LowestOf
  <2>2. f.summary.context # None
    BY <1>1, NoneAssumption
  <2> QED
    BY <1>1, <2>1, <2>2, Finding DEF IndInv, Signed
<1>2. ASSUME IndInv, NEW n \in 1..Len(runs), runs[n].stored # Never, runs[n].alone, Apart(n)
      PROVE  \E f \in RowsOf(runs[n].context) : f.summary.by = n
  <2>1. PICK a \in archive :
          /\ a.context = runs[n].context /\ a.second = runs[n].stored /\ Known(a.summary)
          /\ a.summary.by = n /\ a.summary.context = runs[n].context
    BY <1>2 DEF IndInv, ArchiveHolds
  <2> DEFINE f == [rank |-> 0, summary |-> a.summary]
  <2>2. f \in Found
    BY <2>1 DEF Found
  <2>3. PICK g \in Kept : g \in LowestOf(Identity(f))
    BY <2>2, KeepsLowest
  <2>4. /\ g.summary.at = a.summary.at /\ g.summary.context = a.summary.context
        /\ g.summary.dir = a.summary.dir /\ g \in Found
    BY <2>3 DEF LowestOf, Identity
  <2>5. a.summary \in Written /\ a.summary.context # None
    BY <1>2, <2>1, RunAt, NoneAssumption DEF IndInv, Written, Runs
  <2>6. a.summary.at = runs[n].at /\ a.summary.dir = runs[n].dir
    BY <1>2, <2>1, <2>5 DEF IndInv, Signed
  <2>7. /\ g.summary.by \in 1..Len(runs) /\ g.summary.at = runs[g.summary.by].at
        /\ g.summary.context = runs[g.summary.by].context
        /\ g.summary.dir = runs[g.summary.by].dir
    BY <1>2, <2>4, <2>5, Finding DEF IndInv, Signed
  <2>8. g.summary.by = n
    BY <1>2, <2>1, <2>4, <2>6, <2>7 DEF Apart
  <2> QED
    BY <2>1, <2>3, <2>4, <2>8 DEF RowsOf
<1>3. IndInv => CountedOnce
  BY <1>1, <1>2, KeptOnce DEF CountedOnce
<1> QED
  BY <1>3, ResilienceInductive, PTL

(* For every summary on disk that has paths, the report of                 *)
(* generate-resilience-report.py names one that failed exactly if the run  *)
(* failed.                                                                 *)
THEOREM FailuresHaveReasons ==
  Spec => [](\A s \in Written :
               Known(s) /\ s.load # None => (s.status = "fail" <=> FailReasons(s) # {}))
<1>1. IndInv => \A s \in Written :
                  Known(s) /\ s.load # None => (s.status = "fail" <=> FailReasons(s) # {})
  BY DEF IndInv, Signed, StatusOf, FailReasons
<1> QED
  BY <1>1, ResilienceInductive, PTL
=============================================================================
