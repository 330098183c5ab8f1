--------------------------- MODULE RunQueueProofs ---------------------------
(***************************************************************************)
(* Proofs about RunQueue for every set of runs, API processes and workers, *)
(* every timeout and every fault budget.                                   *)
(***************************************************************************)
EXTENDS RunQueue, TLAPS

USE QueueAssumption

(* appending an element adds it to the elements of a sequence *)
LEMMA RangeAppend ==
  ASSUME NEW S, NEW s \in Seq(S), NEW e \in S
  PROVE  SeqRange(Append(s, e)) = SeqRange(s) \cup {e}
<1>1. /\ Append(s, e) \in Seq(S)
      /\ Len(Append(s, e)) = Len(s) + 1
      /\ \A i \in 1..Len(s) : Append(s, e)[i] = s[i]
      /\ Append(s, e)[Len(s) + 1] = e
  OBVIOUS
<1>2. DOMAIN Append(s, e) = 1..(Len(s) + 1) /\ DOMAIN s = 1..Len(s)
  BY <1>1
<1>3. Len(s) \in Nat
  OBVIOUS
<1>4. SeqRange(s) \cup {e} \subseteq SeqRange(Append(s, e))
  BY <1>1, <1>2, <1>3 DEF SeqRange
<1>5. SeqRange(Append(s, e)) \subseteq SeqRange(s) \cup {e}
  BY <1>1, <1>2, <1>3 DEF SeqRange
<1> QED
  BY <1>4, <1>5

(* appendEvent keeps the type of the event table *)
LEMMA LogType ==
  ASSUME NEW r, NEW type \in EventTypes, Log(r, type),
         events \in [Runs -> Seq(EventTypes)]
  PROVE  events' \in [Runs -> Seq(EventTypes)]
<1>1. \A s \in Seq(EventTypes) : Append(s, type) \in Seq(EventTypes)
  OBVIOUS
<1> QED
  BY <1>1 DEF Log

(* every event the actions log is one of the event types *)
LEMMA LoggedTypes ==
  /\ {"run.queued", "audit.trigger", "run.started", "run.exec", "run.error",
      "artifacts.finalize_failed"} \subseteq EventTypes
  /\ \A w \in Workers : VerdictEvent(w) \in EventTypes
  BY DEF EventTypes, VerdictEvent

(* a throw keeps the spent failure budget within its bound *)
LEMMA ThrowsType ==
  ASSUME failures \in 0..MaxFailures, Throws
  PROVE  failures' \in 0..MaxFailures
  BY DEF Throws

(* the heartbeat ages the actions write stay between 0 and Timeout + 1 *)
LEMMA BeatTypes ==
  /\ 0 \in 0..(Timeout + 1)
  /\ \A n \in 0..(Timeout + 1) : n <= Timeout => n + 1 \in 0..(Timeout + 1)
  OBVIOUS

(* every action of every process keeps the types *)
LEMMA TypeStep ==
  ASSUME TypeOK, JobsHeld, RequestsFresh, ExitsKnown, [Next]_vars
  PROVE  TypeOK'
<1> USE DEF TypeOK, dbVars, apiVars, loopVars, handlerVars, childVars, faultVars
<1>1. ASSUME NEW a \in Apis, ApiRequest(a) PROVE TypeOK'
  BY <1>1 DEF ApiRequest, ApiStep
<1>2. ASSUME NEW a \in Apis, ApiInsert(a) PROVE TypeOK'
  BY <1>2 DEF ApiInsert, ApiStep
<1>3. ASSUME NEW a \in Apis, ApiLogQueued(a) PROVE TypeOK'
  BY <1>3, LogType, LoggedTypes DEF ApiLogQueued, ApiStep
<1>4. ASSUME NEW a \in Apis, ApiSkeleton(a) PROVE TypeOK'
  BY <1>4 DEF ApiSkeleton, ApiStep
<1>5. ASSUME NEW a \in Apis, ApiAudit(a) PROVE TypeOK'
  BY <1>5, LogType, LoggedTypes DEF ApiAudit, ApiStep
<1>6. ASSUME NEW a \in Apis, ApiError(a) PROVE TypeOK'
  BY <1>6, ThrowsType DEF ApiError
<1>7. ASSUME NEW w \in Workers, WorkerStart(w) PROVE TypeOK'
  BY <1>7 DEF WorkerStart, LoopStep
<1>8. ASSUME NEW w \in Workers, SelectStale(w) PROVE TypeOK'
  BY <1>8 DEF SelectStale, LoopStep
<1>9. ASSUME NEW w \in Workers, Reconcile(w) PROVE TypeOK'
  BY <1>9 DEF Reconcile, LoopStep, Reconciled, EventTypes, Terminal
<1>10. ASSUME NEW w \in Workers, StartupThrows(w) PROVE TypeOK'
  <2>1. pc' = [pc EXCEPT ![w] = "down"]
    BY <1>10 DEF StartupThrows, LoopStep
  <2> QED
    BY <1>10, <2>1, ThrowsType DEF StartupThrows
<1>11. ASSUME NEW w \in Workers, Claim(w) PROVE TypeOK'
  BY <1>11, LogType, LoggedTypes DEF Claim, LoopStep
<1>12. ASSUME NEW w \in Workers, Launch(w) PROVE TypeOK'
  <2>1. launches' \in [Runs -> Nat]
    BY <1>12 DEF Launch, LoopStep, JobsHeld
  <2>2. events' \in [Runs -> Seq(EventTypes)]
    BY <1>12, LogType, LoggedTypes DEF Launch
  <2>3. pc' \in [Workers -> {"down", "boot", "reconcile", "idle", "claimed", "exec"}]
    BY <1>12 DEF Launch, LoopStep
  <2>4. exit' \in [Runs -> {"none", "alive", "zero", "nonzero"}]
    BY <1>12 DEF Launch
  <2> QED
    BY <1>12, <2>1, <2>2, <2>3, <2>4 DEF Launch
<1>13. ASSUME NEW w \in Workers, SpawnError(w) PROVE TypeOK'
  BY <1>13, LogType, LoggedTypes DEF SpawnError, LoopStep, Throws, JobsHeld
<1>14. ASSUME NEW w \in Workers, ExecuteThrows(w) PROVE TypeOK'
  BY <1>14, LogType, LoggedTypes, ThrowsType DEF ExecuteThrows, LoopStep
<1>15. ASSUME NEW w \in Workers, Heartbeat(w) PROVE TypeOK'
  BY <1>15, BeatTypes DEF Heartbeat
<1>16. ASSUME NEW w \in Workers, NEW code \in {"zero", "nonzero"}, ChildClose(w, code) PROVE TypeOK'
  BY <1>16 DEF ChildClose, CloseVerdict
<1>17. ASSUME NEW w \in Workers, LateClose(w) PROVE TypeOK'
  BY <1>17 DEF LateClose
<1>18. ASSUME NEW w \in Workers, CompleteRead(w) PROVE TypeOK'
  BY <1>18 DEF CompleteRead, HandlerStep, AfterComplete
<1>19. ASSUME NEW w \in Workers, CompleteWrite(w) PROVE TypeOK'
  <2>1. status' \in [Runs -> {"none", "queued", "running"} \cup Terminal]
    BY <1>19 DEF CompleteWrite, Completed, FinalStatus, Terminal
  <2>2. beatAge' \in [Runs -> 0..(Timeout + 1)]
    BY <1>19, BeatTypes DEF CompleteWrite
  <2> QED
    BY <1>19, <2>1, <2>2 DEF CompleteWrite, HandlerStep
<1>20. ASSUME NEW w \in Workers, CompleteLog(w) PROVE TypeOK'
  BY <1>20, LogType, LoggedTypes DEF CompleteLog, HandlerStep, AfterComplete
<1>21. ASSUME NEW w \in Workers, NoteSpawnError(w) PROVE TypeOK'
  BY <1>21, LogType, LoggedTypes DEF NoteSpawnError, HandlerStep
<1>22. ASSUME NEW w \in Workers, HandlerThrows(w) PROVE TypeOK'
  BY <1>22 DEF HandlerThrows, Throws
<1>23. ASSUME NEW w \in Workers, Finalize(w) PROVE TypeOK'
  BY <1>23 DEF Finalize, Return, HandlerStep
<1>24. ASSUME NEW w \in Workers, FinalizeThrows(w) PROVE TypeOK'
  BY <1>24, LogType, LoggedTypes, ThrowsType DEF FinalizeThrows, Return, HandlerStep
<1>25. ASSUME NEW w \in Workers, Crash(w) PROVE TypeOK'
  BY <1>25 DEF Crash
<1>26. CASE Tick
  BY <1>26 DEF Tick
<1>27. CASE UNCHANGED vars
  BY <1>27 DEF vars
<1> QED
  BY <1>1, <1>2, <1>3, <1>4, <1>5, <1>6, <1>7, <1>8, <1>9, <1>10, <1>11, <1>12, <1>13, <1>14, <1>15, <1>16, <1>17, <1>18, <1>19, <1>20, <1>21, <1>22, <1>23, <1>24, <1>25, <1>26, <1>27 DEF Next, ApiNext, LoopNext, HandlerNext

(***************************************************************************)
(* Which actions touch what: the other actions leave it alone.             *)
(***************************************************************************)
LEMMA JobsStep ==
  ASSUME TypeOK, JobsHeld, ExitsKnown, [Next]_vars
  PROVE  JobsHeld'
<1> USE DEF JobsHeld
<1>1. ASSUME NEW a \in Apis, ApiNext(a) PROVE JobsHeld'
  BY <1>1 DEF ApiNext, ApiRequest, ApiInsert, ApiLogQueued, ApiSkeleton, ApiAudit,
              ApiError, loopVars
<1>2. ASSUME NEW w \in Workers, LoopNext(w) PROVE JobsHeld'
  <2>1. CASE Claim(w)
    BY <2>1 DEF Claim, LoopStep, TypeOK
  <2>2. CASE ExecuteThrows(w)
    BY <2>2 DEF ExecuteThrows, LoopStep, TypeOK
  <2>3. CASE Launch(w) \/ SpawnError(w)
    <3>1. /\ pc[w] = "claimed" /\ pc' = [pc EXCEPT ![w] = "exec"]
          /\ UNCHANGED job
      BY <2>3 DEF Launch, SpawnError, LoopStep
    <3> QED
      BY <3>1 DEF TypeOK
  <2>4. CASE WorkerStart(w) \/ SelectStale(w) \/ Reconcile(w) \/ StartupThrows(w)
    <3>1. PICK x \in {"boot", "idle", "reconcile", "down"} :
            pc' = [pc EXCEPT ![w] = x]
      BY <2>4 DEF WorkerStart, SelectStale, Reconcile, StartupThrows, LoopStep
    <3>2. pc[w] \notin {"claimed", "exec"} /\ UNCHANGED job
      BY <2>4 DEF WorkerStart, SelectStale, Reconcile, StartupThrows, LoopStep
    <3> QED
      BY <3>1, <3>2 DEF TypeOK
  <2>5. CASE Heartbeat(w)
    BY <2>5 DEF Heartbeat, loopVars
  <2> QED
    BY <1>2, <2>1, <2>2, <2>3, <2>4, <2>5 DEF LoopNext
<1>3. ASSUME NEW w \in Workers, HandlerNext(w) PROVE JobsHeld'
  <2>1. CASE Finalize(w) \/ FinalizeThrows(w)
    <3>1. Return(w)
      BY <2>1 DEF Finalize, FinalizeThrows
    <3>2. CASE settling[w] = job[w]
      <4>1. pc' = [pc EXCEPT ![w] = "idle"] /\ job' = [job EXCEPT ![w] = NoRun]
        BY <3>1, <3>2 DEF Return
      <4> QED
        BY <4>1, QueueAssumption DEF TypeOK
    <3>3. CASE settling[w] # job[w]
      BY <3>1, <3>3 DEF Return, TypeOK
    <3> QED
      BY <3>2, <3>3
  <2>2. CASE ~(Finalize(w) \/ FinalizeThrows(w))
    BY <1>3, <2>2 DEF HandlerNext, ChildClose, LateClose, CompleteRead, CompleteWrite,
                      CompleteLog, NoteSpawnError, HandlerThrows, loopVars
  <2> QED
    BY <2>1, <2>2
<1>4. ASSUME NEW w \in Workers, Crash(w) PROVE JobsHeld'
  BY <1>4 DEF Crash, TypeOK
<1>5. CASE Tick \/ UNCHANGED vars
  BY <1>5 DEF Tick, vars, loopVars
<1> QED
  BY <1>1, <1>2, <1>3, <1>4, <1>5 DEF Next

(* the workers only move a run's status on from queued and running *)
LEMMA WorkerStatus ==
  ASSUME TypeOK, NEW w \in Workers, LoopNext(w) \/ HandlerNext(w) \/ Crash(w),
         NEW r \in Runs, status'[r] # status[r]
  PROVE  \/ status[r] = "queued" /\ status'[r] = "running" /\ Claim(w)
         \/ status[r] = "running" /\ status'[r] \in Terminal
<1>1. CASE Claim(w)
  <2>1. PICK q \in Runs : status[q] = "queued" /\ status' = [status EXCEPT ![q] = "running"]
    BY <1>1 DEF Claim, OldestQueued
  <2>2. q = r
    BY <2>1 DEF TypeOK
  <2> QED
    BY <1>1, <2>1, <2>2 DEF TypeOK
<1>2. CASE Reconcile(w)
  BY <1>2 DEF Reconcile, Reconciled, Terminal, TypeOK
<1>3. CASE CompleteWrite(w)
  BY <1>3 DEF CompleteWrite, Completed, FinalStatus, Terminal, TypeOK
<1>4. CASE ~(Claim(w) \/ Reconcile(w) \/ CompleteWrite(w))
  <2>1. UNCHANGED status
    BY <1>4 DEF LoopNext, HandlerNext, Crash, WorkerStart, SelectStale, StartupThrows,
                Launch, SpawnError, ExecuteThrows, Heartbeat, ChildClose, LateClose,
                CompleteRead, CompleteLog, NoteSpawnError, HandlerThrows, Finalize,
                FinalizeThrows, Return, dbVars
  <2> QED
    BY <2>1
<1> QED
  BY <1>1, <1>2, <1>3, <1>4

(* and never touch what the API processes work on *)
LEMMA WorkerApi ==
  ASSUME NEW w \in Workers, LoopNext(w) \/ HandlerNext(w) \/ Crash(w)
  PROVE  UNCHANGED <<created, apc, req>>
  BY DEF LoopNext, HandlerNext, Crash, WorkerStart, SelectStale, Reconcile, StartupThrows,
         Claim, Launch, SpawnError, ExecuteThrows, Heartbeat, ChildClose, LateClose,
         CompleteRead, CompleteWrite, CompleteLog, NoteSpawnError, HandlerThrows, Finalize,
         FinalizeThrows, Return, dbVars, apiVars

(* no step gives a run a second creator, or a row before its creation *)
LEMMA RequestsStep ==
  ASSUME TypeOK, RequestsFresh, [Next]_vars
  PROVE  RequestsFresh'
<1> USE DEF RequestsFresh
<1>1. ASSUME NEW a \in Apis, ApiRequest(a) PROVE RequestsFresh'
  <2>1. PICK r \in Runs \ SeqRange(created) :
          /\ apc[a] = "idle" /\ apc' = [apc EXCEPT ![a] = "insert"]
          /\ req' = [req EXCEPT ![a] = r]
          /\ created' = Append(created, r)
          /\ UNCHANGED status
    BY <1>1 DEF ApiRequest, ApiStep
  <2>2. SeqRange(created') = SeqRange(created) \cup {r}
    BY <2>1, RangeAppend DEF TypeOK
  <2>3. \A b \in Apis : b # a => req'[b] = req[b] /\ apc'[b] = apc[b]
    BY <2>1 DEF TypeOK
  <2>4. req'[a] = r /\ apc'[a] = "insert" /\ status'[r] = "none"
    BY <2>1 DEF TypeOK
  <2>5. \A b \in Apis : req[b] # r
    BY <2>1
  <2> QED
    BY <2>1, <2>2, <2>3, <2>4, <2>5
<1>2. ASSUME NEW a \in Apis, ApiInsert(a) PROVE RequestsFresh'
  BY <1>2 DEF ApiInsert, ApiStep, TypeOK
<1>3. ASSUME NEW a \in Apis, ApiLogQueued(a) \/ ApiSkeleton(a) PROVE RequestsFresh'
  BY <1>3 DEF ApiLogQueued, ApiSkeleton, ApiStep, TypeOK
<1>4. ASSUME NEW a \in Apis, ApiAudit(a) \/ ApiError(a) PROVE RequestsFresh'
  <2>1. /\ apc' = [apc EXCEPT ![a] = "idle"]
        /\ req' = [req EXCEPT ![a] = NoRun]
        /\ UNCHANGED <<created, status>>
    BY <1>4 DEF ApiAudit, ApiError, ApiStep, dbVars
  <2>2. NoRun \notin SeqRange(created)
    BY DEF TypeOK, SeqRange
  <2> QED
    BY <2>1, <2>2 DEF TypeOK
<1>5. ASSUME NEW w \in Workers, LoopNext(w) \/ HandlerNext(w) \/ Crash(w)
      PROVE  RequestsFresh'
  <2>1. UNCHANGED <<created, apc, req>>
    BY <1>5, WorkerApi
  <2>2. \A r \in Runs : status[r] = "none" => status'[r] = "none"
    BY <1>5, WorkerStatus
  <2>3. SeqRange(created) \subseteq Runs
    BY DEF TypeOK, SeqRange
  <2> QED
    BY <2>1, <2>2, <2>3
<1>6. CASE Tick \/ UNCHANGED vars
  BY <1>6 DEF Tick, vars, apiVars, dbVars
<1> QED
  BY <1>1, <1>2, <1>3, <1>4, <1>5, <1>6 DEF Next, ApiNext

(* API steps and clock ticks leave the workers and the commands alone.     *)
LEMMA ApiWorkers ==
  ASSUME (\E a \in Apis : ApiNext(a)) \/ Tick \/ UNCHANGED vars
  PROVE  UNCHANGED <<loopVars, handlerVars, childVars>>
  BY DEF ApiNext, ApiRequest, ApiInsert, ApiLogQueued, ApiSkeleton, ApiAudit, ApiError,
         Tick, vars

(* An API step at most inserts a row that was not there.                   *)
LEMMA ApiStatus ==
  ASSUME TypeOK, RequestsFresh,
         (\E a \in Apis : ApiNext(a)) \/ Tick \/ UNCHANGED vars,
         NEW r \in Runs, status'[r] # status[r]
  PROVE  status[r] = "none" /\ status'[r] = "queued" /\ \E a \in Apis : ApiInsert(a)
<1>1. CASE \E a \in Apis : ApiInsert(a)
  <2>1. PICK a \in Apis : ApiInsert(a)
    BY <1>1
  <2>2. status' = [status EXCEPT ![req[a]] = "queued"] /\ status[req[a]] = "none"
    BY <2>1 DEF ApiInsert, ApiStep, RequestsFresh
  <2> QED
    BY <1>1, <2>2 DEF TypeOK
<1>2. CASE ~\E a \in Apis : ApiInsert(a)
  <2>1. UNCHANGED status
    BY <1>2 DEF ApiNext, ApiRequest, ApiLogQueued, ApiSkeleton, ApiAudit, ApiError,
                Tick, vars, dbVars
  <2> QED
    BY <2>1
<1> QED
  BY <1>1, <1>2

(* The two ways a claimed command is started. *)
LEMMA Launching ==
  ASSUME NEW w \in Workers, Launch(w) \/ SpawnError(w)
  PROVE  /\ pc[w] = "claimed" /\ hpc[w] = "none"
         /\ pc' = [pc EXCEPT ![w] = "exec"]
         /\ launches' = [launches EXCEPT ![job[w]] = @ + 1]
         /\ \E c \in {"alive", "nonzero"} : exit' = [exit EXCEPT ![job[w]] = c]
         /\ UNCHANGED <<job, status>>
  BY DEF Launch, SpawnError, LoopStep

(* The workers' remaining steps: a worker may let go of its run, and move  *)
(* its polling loop anywhere but into the two stages that hold a run.      *)
LEMMA LettingGo ==
  ASSUME NEW w \in Workers, LoopNext(w) \/ HandlerNext(w) \/ Crash(w),
         ~Claim(w), ~(Launch(w) \/ SpawnError(w))
  PROVE  /\ job' = job \/ job' = [job EXCEPT ![w] = NoRun]
         /\ pc' = pc \/ \E s \in {"down", "boot", "reconcile", "idle"} :
                          pc' = [pc EXCEPT ![w] = s]
         /\ UNCHANGED launches
<1>1. CASE Finalize(w) \/ FinalizeThrows(w)
  <2>1. Return(w)
    BY <1>1 DEF Finalize, FinalizeThrows
  <2> QED
    BY <2>1 DEF Return, childVars
<1>2. CASE ~(Finalize(w) \/ FinalizeThrows(w))
  BY <1>2 DEF LoopNext, HandlerNext, Crash, WorkerStart, SelectStale, Reconcile,
              StartupThrows, ExecuteThrows, Heartbeat, ChildClose, LateClose,
              CompleteRead, CompleteWrite, CompleteLog, NoteSpawnError, HandlerThrows,
              LoopStep, loopVars, childVars
<1> QED
  BY <1>1, <1>2

(* Apart from starting a command, only its 'close' changes what is known   *)
(* of it.                                                                  *)
LEMMA WorkerExit ==
  ASSUME NEW w \in Workers, LoopNext(w) \/ HandlerNext(w) \/ Crash(w),
         ~(Launch(w) \/ SpawnError(w)),
         ~\E code \in {"zero", "nonzero"} : ChildClose(w, code)
  PROVE  UNCHANGED exit
  BY DEF LoopNext, HandlerNext, Crash, WorkerStart, SelectStale, Reconcile,
         StartupThrows, Claim, ExecuteThrows, Heartbeat, LateClose,
         CompleteRead, CompleteWrite, CompleteLog, NoteSpawnError, HandlerThrows,
         Finalize, FinalizeThrows, Return, childVars

(* no step lets two workers hold a run, or launches one it has launched *)
LEMMA LaunchesStep ==
  ASSUME TypeOK, JobsHeld, RequestsFresh, LaunchesOwned, ExitsKnown, [Next]_vars
  PROVE  LaunchesOwned'
<1> USE DEF LaunchesOwned
<1>1. CASE (\E a \in Apis : ApiNext(a)) \/ Tick \/ UNCHANGED vars
  <2>1. UNCHANGED <<job, pc, launches, exit>>
    BY <1>1, ApiWorkers DEF loopVars, childVars
  <2>2. \A r \in Runs : status'[r] # status[r] => status[r] = "none"
    BY <1>1, ApiStatus
  <2> QED
    BY <2>1, <2>2
<1>2. ASSUME NEW w \in Workers, Claim(w) PROVE LaunchesOwned'
  <2>1. PICK r \in Runs :
          /\ status[r] = "queued" /\ status' = [status EXCEPT ![r] = "running"]
          /\ job' = [job EXCEPT ![w] = r] /\ pc' = [pc EXCEPT ![w] = "claimed"]
          /\ UNCHANGED <<launches, exit>>
    BY <1>2 DEF Claim, OldestQueued, LoopStep, childVars
  <2>2. \A v \in Workers : v # w => job'[v] = job[v] /\ pc'[v] = pc[v]
    BY <2>1 DEF TypeOK
  <2>3. job'[w] = r /\ launches'[r] = 0 /\ \A v \in Workers : job[v] # r
    BY <2>1 DEF TypeOK
  <2>4. \A q \in Runs : status'[q] \in {"none", "queued"} => q # r /\ status'[q] = status[q]
    BY <2>1 DEF TypeOK
  <2> QED
    BY <2>1, <2>2, <2>3, <2>4
<1>3. ASSUME NEW w \in Workers, Launch(w) \/ SpawnError(w) PROVE LaunchesOwned'
  <2>1. /\ pc[w] = "claimed" /\ pc' = [pc EXCEPT ![w] = "exec"]
        /\ launches' = [launches EXCEPT ![job[w]] = @ + 1]
        /\ UNCHANGED <<job, status>>
    BY <1>3, Launching
  <2>2. PICK c \in {"alive", "nonzero"} : exit' = [exit EXCEPT ![job[w]] = c]
    BY <1>3, Launching
  <2>3. job[w] \in Runs /\ status[job[w]] \notin {"none", "queued"}
    BY <2>1 DEF JobsHeld
  <2>4. \A q \in Runs : q # job[w] => launches'[q] = launches[q] /\ exit'[q] = exit[q]
    BY <2>1, <2>2 DEF TypeOK
  <2>5. launches'[job[w]] # 0 /\ exit'[job[w]] # "none"
    BY <2>1, <2>3, <2>2 DEF TypeOK
  <2>6. \A v \in Workers : pc'[v] = "claimed" =>
          v # w /\ pc[v] = "claimed" /\ job[v] \in Runs /\ job[v] # job[w]
    BY <2>1, <2>3 DEF TypeOK, JobsHeld
  <2> QED
    BY <2>1, <2>3, <2>4, <2>5, <2>6
<1>4. ASSUME NEW w \in Workers, LoopNext(w) \/ HandlerNext(w) \/ Crash(w),
             ~Claim(w), ~(Launch(w) \/ SpawnError(w))
      PROVE  LaunchesOwned'
  <2>1. UNCHANGED launches
    BY <1>4, LettingGo
  <2>2. \A v \in Workers : job'[v] = job[v] \/ job'[v] = NoRun
    <3>1. job' = job \/ job' = [job EXCEPT ![w] = NoRun]
      BY <1>4, LettingGo
    <3> QED
      BY <3>1 DEF TypeOK
  <2>3. \A v \in Workers : pc'[v] = "claimed" => pc[v] = "claimed"
    <3>1. pc' = pc \/ \E s \in {"down", "boot", "reconcile", "idle"} :
                        pc' = [pc EXCEPT ![w] = s]
      BY <1>4, LettingGo
    <3> QED
      BY <3>1 DEF TypeOK
  <2>4. \A v \in Workers : pc'[v] = "claimed" => job'[v] = job[v]
    <3>1. JobsHeld'
      BY <1>4, JobsStep DEF Next
    <3> QED
      BY <2>2, <3>1, QueueAssumption DEF JobsHeld
  <2>5. \A r \in Runs : status'[r] # status[r] => status'[r] \notin {"none", "queued"}
    BY <1>4, WorkerStatus DEF Terminal
  <2>6. \A r \in Runs : exit'[r] = "none" <=> exit[r] = "none"
    <3>1. CASE \E code \in {"zero", "nonzero"} : ChildClose(w, code)
      <4>1. PICK code \in {"zero", "nonzero"} :
              pc[w] = "exec" /\ hpc[w] = "none" /\ exit' = [exit EXCEPT ![job[w]] = code]
        BY <3>1 DEF ChildClose
      <4>2. exit[job[w]] = "alive"
        BY <4>1, QueueAssumption DEF ExitsKnown, JobsHeld
      <4> QED
        BY <4>1, <4>2 DEF TypeOK
    <3> QED
      BY <1>4, <3>1, WorkerExit
  <2> QED
    BY <2>1, <2>2, <2>3, <2>4, <2>5, <2>6, QueueAssumption
<1> QED
  BY <1>1, <1>2, <1>3, <1>4 DEF Next

(* What is known of a command is settled: only a command that was not yet  *)
(* started, or is alive, changes.                                          *)
LEMMA ExitChange ==
  ASSUME TypeOK, JobsHeld, LaunchesOwned, ExitsKnown, [Next]_vars,
         NEW r \in Runs, exit'[r] # exit[r]
  PROVE  exit[r] \in {"none", "alive"}
<1>1. CASE (\E a \in Apis : ApiNext(a)) \/ Tick \/ UNCHANGED vars
  BY <1>1, ApiWorkers DEF childVars
<1>2. ASSUME NEW w \in Workers, Launch(w) \/ SpawnError(w)
      PROVE  exit[r] \in {"none", "alive"}
  <2>1. PICK c \in {"alive", "nonzero"} :
          pc[w] = "claimed" /\ exit' = [exit EXCEPT ![job[w]] = c]
    BY <1>2, Launching
  <2>2. r = job[w] /\ launches[r] = 0
    BY <2>1 DEF TypeOK, LaunchesOwned
  <2> QED
    BY <2>2 DEF LaunchesOwned
<1>3. ASSUME NEW w \in Workers, NEW code \in {"zero", "nonzero"}, ChildClose(w, code)
      PROVE  exit[r] \in {"none", "alive"}
  <2>1. pc[w] = "exec" /\ hpc[w] = "none" /\ exit' = [exit EXCEPT ![job[w]] = code]
    BY <1>3 DEF ChildClose
  <2>2. r = job[w]
    BY <2>1 DEF TypeOK
  <2> QED
    BY <2>1, <2>2, QueueAssumption DEF ExitsKnown, JobsHeld
<1> QED
  BY <1>1, <1>2, <1>3, WorkerExit DEF Next

(* no step lets a callback record an exit its command did not have *)
LEMMA ExitsStep ==
  ASSUME TypeOK, JobsHeld, LaunchesOwned, ExitsKnown, [Next]_vars
  PROVE  ExitsKnown'
<1>0. \A r \in Runs : exit[r] \notin {"none", "alive"} => exit'[r] = exit[r]
  BY ExitChange
<1>1. CASE (\E a \in Apis : ApiNext(a)) \/ Tick \/ UNCHANGED vars
  BY <1>1, ApiWorkers DEF ExitsKnown, loopVars, handlerVars, childVars
<1>2. ASSUME NEW w \in Workers, Claim(w) PROVE ExitsKnown'
  <2>1. PICK r \in Runs :
          /\ job' = [job EXCEPT ![w] = r] /\ pc' = [pc EXCEPT ![w] = "claimed"]
          /\ UNCHANGED <<hpc, settling, verdict, late, exit>>
    BY <1>2 DEF Claim, LoopStep, handlerVars, childVars
  <2> QED
    BY <2>1 DEF ExitsKnown, TypeOK
<1>3. ASSUME NEW w \in Workers, Launch(w) \/ SpawnError(w) PROVE ExitsKnown'
  <2>1. /\ pc[w] = "claimed" /\ hpc[w] = "none"
        /\ pc' = [pc EXCEPT ![w] = "exec"]
        /\ UNCHANGED job
    BY <1>3, Launching
  <2>2. job[w] \in Runs /\ exit[job[w]] = "none" /\ settling[w] \notin Runs
    BY <2>1 DEF JobsHeld, LaunchesOwned, ExitsKnown
  <2>3. \A r \in Runs : r # job[w] => exit'[r] = exit[r]
    BY <1>3 DEF Launch, SpawnError, TypeOK
  <2>4. \A v \in Workers : v # w /\ pc'[v] = "exec" =>
          pc[v] = "exec" /\ job[v] \in Runs /\ job[v] # job[w]
    BY <2>1, <2>2, QueueAssumption DEF TypeOK, JobsHeld, LaunchesOwned
  <2>5. CASE Launch(w)
    <3>1. exit'[job[w]] = "alive" /\ UNCHANGED <<hpc, settling, verdict, late>>
      BY <2>2, <2>5 DEF Launch, handlerVars, TypeOK
    <3> QED
      BY <1>0, <2>1, <2>2, <2>3, <2>4, <3>1 DEF ExitsKnown, TypeOK
  <2>6. CASE SpawnError(w)
    <3>1. /\ exit'[job[w]] = "nonzero" /\ hpc'[w] = "read"
          /\ settling'[w] = job[w] /\ verdict'[w] = "spawn_error"
          /\ late'[w] = late[w] \cup {job[w]}
      BY <2>2, <2>6 DEF SpawnError, TypeOK
    <3>2. \A v \in Workers : v # w =>
            /\ hpc'[v] = hpc[v] /\ settling'[v] = settling[v]
            /\ verdict'[v] = verdict[v] /\ late'[v] = late[v]
      BY <2>6 DEF SpawnError, TypeOK
    <3>3. \A v \in Workers : settling'[v] \in Runs <=> hpc'[v] # "none"
      BY <2>2, <3>1, <3>2 DEF ExitsKnown
    <3>4. \A v \in Workers :
            pc'[v] = "exec" /\ settling'[v] # job'[v] => exit'[job'[v]] = "alive"
      BY <2>1, <2>3, <2>4, <3>1, <3>2 DEF ExitsKnown
    <3>5. \A v \in Workers : settling'[v] \in Runs =>
            exit'[settling'[v]] = IF verdict'[v] = "passed" THEN "zero" ELSE "nonzero"
      BY <1>0, <2>2, <3>1, <3>2 DEF ExitsKnown
    <3>6. \A v \in Workers : \A r \in late'[v] : exit'[r] = "nonzero"
      <4>1. \A v \in Workers : late[v] \subseteq Runs
        BY DEF TypeOK
      <4>2. \A v \in Workers : \A r \in late[v] : exit'[r] = "nonzero"
        BY <1>0, <4>1 DEF ExitsKnown
      <4> QED
        BY <3>1, <3>2, <4>2
    <3> QED
      BY <3>3, <3>4, <3>5, <3>6 DEF ExitsKnown
  <2> QED
    BY <1>3, <2>5, <2>6
<1>4. ASSUME NEW w \in Workers, NEW code \in {"zero", "nonzero"}, ChildClose(w, code)
      PROVE  ExitsKnown'
  <2>1. /\ pc[w] = "exec" /\ hpc[w] = "none" /\ exit' = [exit EXCEPT ![job[w]] = code]
        /\ hpc' = [hpc EXCEPT ![w] = "read"]
        /\ settling' = [settling EXCEPT ![w] = job[w]]
        /\ verdict' = [verdict EXCEPT ![w] = CloseVerdict(code)]
        /\ UNCHANGED <<pc, job, late>>
    BY <1>4 DEF ChildClose, loopVars
  <2>2. job[w] \in Runs /\ exit'[job[w]] = code
    BY <2>1 DEF JobsHeld, TypeOK
  <2>3. \A v \in Workers : v # w =>
          /\ hpc'[v] = hpc[v] /\ settling'[v] = settling[v] /\ verdict'[v] = verdict[v]
    BY <2>1 DEF TypeOK
  <2>4. \A v \in Workers : v # w /\ pc[v] = "exec" => exit'[job[v]] = exit[job[v]]
    BY <2>1, <2>2, QueueAssumption DEF TypeOK, JobsHeld, LaunchesOwned
  <2>5. hpc'[w] = "read" /\ settling'[w] = job[w] /\ verdict'[w] = CloseVerdict(code)
    BY <2>1 DEF TypeOK
  <2> QED
    BY <1>0, <2>1, <2>2, <2>3, <2>4, <2>5 DEF ExitsKnown, CloseVerdict, TypeOK
<1>5. ASSUME NEW w \in Workers, LateClose(w) PROVE ExitsKnown'
  <2>1. PICK r \in late[w] :
          /\ hpc[w] = "none" /\ hpc' = [hpc EXCEPT ![w] = "read"]
          /\ settling' = [settling EXCEPT ![w] = r]
          /\ verdict' = [verdict EXCEPT ![w] = "failed"]
          /\ late' = [late EXCEPT ![w] = @ \ {r}]
          /\ UNCHANGED <<pc, job, exit>>
    BY <1>5 DEF LateClose, loopVars, childVars
  <2>2. r \in Runs /\ exit[r] = "nonzero"
    BY <2>1 DEF TypeOK, ExitsKnown
  <2>3. pc[w] = "exec" => exit[job[w]] = "alive"
    BY <2>1, QueueAssumption DEF ExitsKnown, JobsHeld
  <2>4. \A v \in Workers : v # w =>
          /\ hpc'[v] = hpc[v] /\ settling'[v] = settling[v]
          /\ verdict'[v] = verdict[v] /\ late'[v] = late[v]
    BY <2>1 DEF TypeOK
  <2>5. hpc'[w] = "read" /\ settling'[w] = r /\ verdict'[w] = "failed" /\ late'[w] = late[w] \ {r}
    BY <2>1 DEF TypeOK
  <2> QED
    BY <2>1, <2>2, <2>3, <2>4, <2>5 DEF ExitsKnown, TypeOK
<1>6. ASSUME NEW w \in Workers,
             \/ CompleteRead(w) \/ CompleteWrite(w) \/ CompleteLog(w)
             \/ NoteSpawnError(w) \/ HandlerThrows(w)
      PROVE  ExitsKnown'
  <2>1. /\ UNCHANGED <<pc, job, settling, verdict, late, exit>>
        /\ hpc[w] # "none"
        /\ \E s \in {"write", "log", "note", "finalize"} : hpc' = [hpc EXCEPT ![w] = s]
    BY <1>6 DEF CompleteRead, CompleteWrite, CompleteLog, NoteSpawnError, HandlerThrows,
                HandlerStep, AfterComplete, loopVars, childVars
  <2> QED
    BY <2>1 DEF ExitsKnown, TypeOK
<1>7. ASSUME NEW w \in Workers, Finalize(w) \/ FinalizeThrows(w) PROVE ExitsKnown'
  <2>1. Return(w)
    BY <1>7 DEF Finalize, FinalizeThrows
  <2>2. /\ hpc[w] = "finalize" /\ hpc' = [hpc EXCEPT ![w] = "none"]
        /\ settling' = [settling EXCEPT ![w] = NoRun]
        /\ verdict' = [verdict EXCEPT ![w] = "none"]
        /\ UNCHANGED <<late, exit>>
    BY <2>1 DEF Return, HandlerStep, childVars
  <2>3. \A v \in Workers : v # w =>
          /\ hpc'[v] = hpc[v] /\ settling'[v] = settling[v] /\ verdict'[v] = verdict[v]
    BY <2>2 DEF TypeOK
  <2>4. hpc'[w] = "none" /\ settling'[w] = NoRun
    BY <2>2 DEF TypeOK
  <2>5. CASE settling[w] = job[w]
    <3>1. pc' = [pc EXCEPT ![w] = "idle"] /\ job' = [job EXCEPT ![w] = NoRun]
      BY <2>1, <2>5 DEF Return
    <3> QED
      BY <2>2, <2>3, <2>4, <3>1, QueueAssumption DEF ExitsKnown, TypeOK
  <2>6. CASE settling[w] # job[w]
    <3>1. UNCHANGED <<pc, job>>
      BY <2>1, <2>6 DEF Return
    <3> QED
      BY <2>2, <2>3, <2>4, <2>6, <3>1, QueueAssumption DEF ExitsKnown, TypeOK
  <2> QED
    BY <2>5, <2>6
<1>8. ASSUME NEW w \in Workers, Crash(w) PROVE ExitsKnown'
  BY <1>8, QueueAssumption DEF Crash, ExitsKnown, TypeOK, childVars
<1>9. ASSUME NEW w \in Workers,
             \/ WorkerStart(w) \/ SelectStale(w) \/ Reconcile(w) \/ StartupThrows(w)
             \/ ExecuteThrows(w)
      PROVE  ExitsKnown'
  <2>1. /\ UNCHANGED <<hpc, settling, verdict, late, exit>>
        /\ \E s \in {"down", "boot", "reconcile", "idle"} : pc' = [pc EXCEPT ![w] = s]
        /\ job' = job \/ job' = [job EXCEPT ![w] = NoRun]
    BY <1>9 DEF WorkerStart, SelectStale, Reconcile, StartupThrows, ExecuteThrows,
                LoopStep, handlerVars, childVars
  <2>2. \A v \in Workers : pc'[v] = "exec" => pc[v] = "exec" /\ job'[v] = job[v]
    BY <2>1 DEF TypeOK
  <2> QED
    BY <2>1, <2>2 DEF ExitsKnown
<1>10. ASSUME NEW w \in Workers, Heartbeat(w) PROVE ExitsKnown'
  BY <1>10 DEF Heartbeat, ExitsKnown, loopVars, handlerVars, childVars
<1> QED
  BY <1>1, <1>2, <1>3, <1>4, <1>5, <1>6, <1>7, <1>8, <1>9, <1>10
     DEF Next, LoopNext, HandlerNext

(* no step starts a command a second time *)
LEMMA OnceStep ==
  ASSUME TypeOK, JobsHeld, LaunchesOwned, AtMostOnceLaunch, [Next]_vars
  PROVE  AtMostOnceLaunch'
<1>1. CASE (\E a \in Apis : ApiNext(a)) \/ Tick \/ UNCHANGED vars
  BY <1>1, ApiWorkers DEF AtMostOnceLaunch, childVars
<1>2. ASSUME NEW w \in Workers, Launch(w) \/ SpawnError(w) PROVE AtMostOnceLaunch'
  <2>1. pc[w] = "claimed" /\ launches' = [launches EXCEPT ![job[w]] = @ + 1]
    BY <1>2, Launching
  <2>2. launches[job[w]] = 0
    BY <2>1 DEF LaunchesOwned
  <2> QED
    BY <2>1, <2>2 DEF AtMostOnceLaunch, TypeOK
<1>3. ASSUME NEW w \in Workers, LoopNext(w) \/ HandlerNext(w) \/ Crash(w),
             ~(Launch(w) \/ SpawnError(w))
      PROVE  UNCHANGED launches
  <2>1. CASE Claim(w)
    BY <2>1 DEF Claim, childVars
  <2> QED
    BY <1>3, <2>1, LettingGo
<1> QED
  BY <1>1, <1>2, <1>3 DEF Next, AtMostOnceLaunch

(***************************************************************************)
(* The event trail only grows, and where its entries come from.            *)
(***************************************************************************)
LEMMA LogRange ==
  ASSUME events \in [Runs -> Seq(EventTypes)], NEW q, NEW type \in EventTypes,
         Log(q, type), NEW r \in Runs
  PROVE  SeqRange(events'[r]) = IF r = q THEN SeqRange(events[r]) \cup {type}
                                         ELSE SeqRange(events[r])
<1>1. CASE r = q
  <2>1. events'[r] = Append(events[r], type) /\ events[r] \in Seq(EventTypes)
    BY <1>1 DEF Log
  <2> QED
    BY <1>1, <2>1, RangeAppend
<1>2. CASE r # q
  BY <1>2 DEF Log
<1> QED
  BY <1>1, <1>2

(* which verdict events a step of each process may add to a run *)
LEMMA EventSources ==
  ASSUME [Next]_vars
  PROVE  \/ UNCHANGED events
         \/ \E w \in Workers : Reconcile(w)
         \/ \E w \in Workers : CompleteLog(w)
         \/ \E q, type : Log(q, type)
                           /\ type \in EventTypes \ {"run.passed", "run.failed", "run.reconciled"}
<1> DEFINE Others ==
      \E q, type : Log(q, type)
                     /\ type \in EventTypes \ {"run.passed", "run.failed", "run.reconciled"}
<1>1. ASSUME NEW a \in Apis, ApiNext(a) PROVE UNCHANGED events \/ Others
  <2>1. CASE ApiLogQueued(a)
    BY <2>1 DEF ApiLogQueued, EventTypes
  <2>2. CASE ApiAudit(a)
    BY <2>2 DEF ApiAudit, EventTypes
  <2>3. CASE ~(ApiLogQueued(a) \/ ApiAudit(a))
    BY <1>1, <2>3 DEF ApiNext, ApiRequest, ApiInsert, ApiSkeleton, ApiError, dbVars
  <2> QED
    BY <2>1, <2>2, <2>3
<1>2. ASSUME NEW w \in Workers, LoopNext(w), ~Reconcile(w) PROVE UNCHANGED events \/ Others
  <2>1. CASE Claim(w)
    BY <2>1 DEF Claim, EventTypes
  <2>2. CASE Launch(w) \/ SpawnError(w)
    <3>1. Log(job[w], "run.exec")
      BY <2>2 DEF Launch, SpawnError
    <3> QED
      BY <3>1 DEF EventTypes
  <2>3. CASE ExecuteThrows(w)
    <3>1. UNCHANGED events \/ Log(job[w], "run.exec")
      BY <2>3 DEF ExecuteThrows
    <3> QED
      BY <3>1 DEF EventTypes
  <2>4. CASE ~(Claim(w) \/ Launch(w) \/ SpawnError(w) \/ ExecuteThrows(w))
    BY <1>2, <2>4 DEF LoopNext, WorkerStart, SelectStale, StartupThrows, Heartbeat, dbVars
  <2> QED
    BY <2>1, <2>2, <2>3, <2>4
<1>3. ASSUME NEW w \in Workers, HandlerNext(w), ~CompleteLog(w)
      PROVE  UNCHANGED events \/ Others
  <2>1. CASE NoteSpawnError(w)
    <3>1. Log(settling[w], "run.error")
      BY <2>1 DEF NoteSpawnError
    <3> QED
      BY <3>1 DEF EventTypes
  <2>2. CASE FinalizeThrows(w)
    <3>1. UNCHANGED events \/ Log(settling[w], "artifacts.finalize_failed")
      BY <2>2 DEF FinalizeThrows
    <3> QED
      BY <3>1 DEF EventTypes
  <2>3. CASE ~(NoteSpawnError(w) \/ FinalizeThrows(w))
    BY <1>3, <2>3 DEF HandlerNext, ChildClose, LateClose, CompleteRead, CompleteWrite,
                      HandlerThrows, Finalize, dbVars
  <2> QED
    BY <2>1, <2>2, <2>3
<1>4. ASSUME NEW w \in Workers, Crash(w) PROVE UNCHANGED events
  BY <1>4 DEF Crash, dbVars
<1>5. CASE Tick \/ UNCHANGED vars
  BY <1>5 DEF Tick, vars, dbVars
<1> QED
  BY <1>1, <1>2, <1>3, <1>4, <1>5 DEF Next

(* what the events of a run are after a reconciliation *)
LEMMA ReconcileRange ==
  ASSUME TypeOK, NEW w \in Workers, Reconcile(w), NEW r \in Runs
  PROVE  SeqRange(events'[r]) = IF r \in stale[w]
                                  THEN SeqRange(events[r]) \cup {"run.reconciled"}
                                  ELSE SeqRange(events[r])
<1>1. CASE r \in stale[w]
  <2>1. events'[r] = Append(events[r], "run.reconciled")
    BY <1>1 DEF Reconcile
  <2>2. events[r] \in Seq(EventTypes) /\ "run.reconciled" \in EventTypes
    BY DEF TypeOK, EventTypes
  <2> QED
    BY <1>1, <2>1, <2>2, RangeAppend
<1>2. CASE r \notin stale[w]
  BY <1>2 DEF Reconcile
<1> QED
  BY <1>1, <1>2

(* events are only ever appended: what was logged stays logged *)
LEMMA EventsGrow ==
  ASSUME TypeOK, [Next]_vars, NEW r \in Runs
  PROVE  SeqRange(events[r]) \subseteq SeqRange(events'[r])
<1>1. CASE \E w \in Workers : CompleteLog(w)
  <2>1. PICK w \in Workers : Log(settling[w], VerdictEvent(w)) /\ VerdictEvent(w) \in EventTypes
    BY <1>1, LoggedTypes DEF CompleteLog
  <2> QED
    BY <2>1, LogRange DEF TypeOK
<1>2. CASE \E q, type : Log(q, type) /\ type \in EventTypes
  <2>1. PICK q, type : Log(q, type) /\ type \in EventTypes
    BY <1>2
  <2> QED
    BY <2>1, LogRange DEF TypeOK
<1> QED
  BY <1>1, <1>2, EventSources, ReconcileRange

(* Only the callback that logs a verdict gives a run one.                  *)
LEMMA VerdictLogged ==
  ASSUME TypeOK, [Next]_vars, NEW r \in Runs, NEW t \in {"run.passed", "run.failed"},
         t \in SeqRange(events'[r]), t \notin SeqRange(events[r])
  PROVE  \E w \in Workers : CompleteLog(w) /\ settling[w] = r
<1>1. ASSUME NEW w \in Workers, CompleteLog(w) PROVE settling[w] = r
  <2>1. Log(settling[w], VerdictEvent(w)) /\ VerdictEvent(w) \in EventTypes
    BY <1>1, LoggedTypes DEF CompleteLog
  <2>2. SeqRange(events'[r]) = IF r = settling[w]
                                 THEN SeqRange(events[r]) \cup {VerdictEvent(w)}
                                 ELSE SeqRange(events[r])
    BY <2>1, LogRange DEF TypeOK
  <2> QED
    BY <2>2
<1>2. ASSUME NEW q, NEW type \in EventTypes \ {"run.passed", "run.failed"}, Log(q, type)
      PROVE  FALSE
  <2>1. SeqRange(events'[r]) = IF r = q THEN SeqRange(events[r]) \cup {type}
                                        ELSE SeqRange(events[r])
    BY <1>2, LogRange DEF TypeOK
  <2> QED
    BY <1>2, <2>1
<1>3. ASSUME NEW w \in Workers, Reconcile(w) PROVE FALSE
  <2>1. SeqRange(events'[r]) \subseteq SeqRange(events[r]) \cup {"run.reconciled"}
    BY <1>3, ReconcileRange
  <2> QED
    BY <2>1
<1>4. CASE UNCHANGED events
  BY <1>4
<1> QED
  BY <1>1, <1>2, <1>3, <1>4, EventSources

(* The same of the verdict of a run as a whole.                            *)
LEMMA VerdictSource ==
  ASSUME TypeOK, [Next]_vars, NEW r \in Runs, HasVerdict(r)', ~HasVerdict(r)
  PROVE  \E w \in Workers : CompleteLog(w) /\ settling[w] = r
<1>1. PICK t \in {"run.passed", "run.failed"} :
        t \in SeqRange(events'[r]) /\ t \notin SeqRange(events[r])
  BY DEF HasVerdict, Logged
<1> QED
  BY <1>1, VerdictLogged

(* A terminal row stays terminal.                                          *)
LEMMA TerminalKept ==
  ASSUME TypeOK, RequestsFresh, [Next]_vars, NEW r \in Runs, status[r] \in Terminal
  PROVE  status'[r] \in Terminal
<1>1. CASE (\E a \in Apis : ApiNext(a)) \/ Tick \/ UNCHANGED vars
  BY <1>1, ApiStatus DEF Terminal
<1>2. ASSUME NEW w \in Workers, LoopNext(w) \/ HandlerNext(w) \/ Crash(w)
      PROVE  status'[r] \in Terminal
  BY <1>2, WorkerStatus DEF Terminal
<1> QED
  BY <1>1, <1>2 DEF Next

(***************************************************************************)
(* The order of the events.                                                *)
(***************************************************************************)
(* an event that has its prior ones and is not repeated keeps the order *)
LEMMA AppendInOrder ==
  ASSUME NEW s \in Seq(EventTypes), NEW e \in EventTypes, InOrder(s),
         Prior(e) \subseteq SeqRange(s), e \in Once => e \notin SeqRange(s)
  PROVE  InOrder(Append(s, e))
<1> DEFINE t == Append(s, e)
<1>1. /\ DOMAIN t = 1..(Len(s) + 1) /\ DOMAIN s = 1..Len(s) /\ Len(s) \in Nat
      /\ \A i \in 1..Len(s) : t[i] = s[i]
      /\ t[Len(s) + 1] = e
  OBVIOUS
<1> HIDE DEF t
<1>2. ASSUME NEW j \in 1..Len(s) PROVE {t[i] : i \in 1..(j - 1)} = {s[i] : i \in 1..(j - 1)}
  <2>1. \A i \in 1..(j - 1) : t[i] = s[i]
    BY <1>1
  <2> QED
    BY <2>1
<1>3. {t[i] : i \in 1..(Len(s) + 1 - 1)} = SeqRange(s)
  BY <1>1 DEF SeqRange
<1>4. ASSUME NEW j \in DOMAIN t
      PROVE  LET earlier == {t[i] : i \in 1..(j - 1)} IN
             Prior(t[j]) \subseteq earlier /\ (t[j] \in Once => t[j] \notin earlier)
  <2>1. CASE j = Len(s) + 1
    BY <1>1, <1>3, <2>1
  <2>2. CASE j # Len(s) + 1
    <3>1. j \in 1..Len(s) /\ t[j] = s[j]
      BY <1>1, <2>2
    <3> QED
      BY <1>1, <1>2, <3>1 DEF InOrder
  <2> QED
    BY <2>1, <2>2
<1> QED
  BY <1>4 DEF InOrder, t

(* what an event rests on was logged before it *)
LEMMA PriorLogged ==
  ASSUME TypeOK, NEW r \in Runs, InOrder(events[r]), NEW e, Logged(r, e), NEW p \in Prior(e)
  PROVE  Logged(r, p)
<1>0. DOMAIN events[r] = 1..Len(events[r]) /\ Len(events[r]) \in Nat
  BY DEF TypeOK
<1>1. PICK j \in DOMAIN events[r] : events[r][j] = e
  BY DEF Logged, SeqRange
<1>2. PICK i \in 1..(j - 1) : events[r][i] = p
  BY <1>1 DEF InOrder
<1>3. i \in DOMAIN events[r]
  BY <1>0, <1>1
<1> QED
  BY <1>2, <1>3 DEF Logged, SeqRange

(* Who logs what, and about which run.                                     *)
Cause(r, e) ==
  \/ e = "run.queued" /\ \E a \in Apis : ApiLogQueued(a) /\ req[a] = r
  \/ e = "audit.trigger" /\ \E a \in Apis : ApiAudit(a) /\ req[a] = r
  \/ e = "run.started" /\ status[r] = "queued" /\ \E w \in Workers : Claim(w) /\ job'[w] = r
  \/ /\ e = "run.exec"
     /\ \E w \in Workers : (Launch(w) \/ SpawnError(w) \/ ExecuteThrows(w)) /\ job[w] = r
  \/ e = "run.reconciled" /\ \E w \in Workers : Reconcile(w) /\ r \in stale[w]
  \/ /\ e \in {"run.passed", "run.failed", "run.error", "artifacts.finalize_failed"}
     /\ \E w \in Workers : HandlerNext(w) /\ settling[w] = r

(* an event of a run is appended for one of these reasons *)
LEMMA Appended ==
  ASSUME TypeOK, [Next]_vars, NEW r \in Runs
  PROVE  \/ events'[r] = events[r]
         \/ \E e \in EventTypes : events'[r] = Append(events[r], e) /\ Cause(r, e)
<1> DEFINE Goal == \/ events'[r] = events[r]
                   \/ \E e \in EventTypes : events'[r] = Append(events[r], e) /\ Cause(r, e)
<1>0. ASSUME NEW q, NEW e \in EventTypes, Log(q, e), q = r => Cause(r, e)
      PROVE  Goal
  BY <1>0 DEF Log, TypeOK
<1> HIDE DEF Goal
<1>e. {"run.queued", "audit.trigger", "run.started", "run.exec", "run.passed", "run.failed",
       "run.error", "run.reconciled", "artifacts.finalize_failed"} \subseteq EventTypes
  BY DEF EventTypes
<1>1. ASSUME NEW a \in Apis, ApiNext(a) PROVE Goal
  <2>1. CASE ApiLogQueued(a)
    <3>1. Log(req[a], "run.queued")
      BY <2>1 DEF ApiLogQueued
    <3>2. req[a] = r => Cause(r, "run.queued")
      BY <2>1 DEF Cause
    <3> QED
      BY <1>0, <1>e, <3>1, <3>2
  <2>2. CASE ApiAudit(a)
    <3>1. Log(req[a], "audit.trigger")
      BY <2>2 DEF ApiAudit
    <3>2. req[a] = r => Cause(r, "audit.trigger")
      BY <2>2 DEF Cause
    <3> QED
      BY <1>0, <1>e, <3>1, <3>2
  <2>3. CASE ~(ApiLogQueued(a) \/ ApiAudit(a))
    BY <1>1, <2>3 DEF Goal, ApiNext, ApiRequest, ApiInsert, ApiSkeleton, ApiError, dbVars
  <2> QED
    BY <2>1, <2>2, <2>3
<1>2. ASSUME NEW w \in Workers, LoopNext(w) PROVE Goal
  <2>1. CASE Claim(w)
    <3>1. PICK q \in Runs : /\ status[q] = "queued" /\ Log(q, "run.started")
                            /\ job' = [job EXCEPT ![w] = q]
      BY <2>1 DEF Claim, OldestQueued
    <3>2. q = r => Cause(r, "run.started")
      BY <2>1, <3>1 DEF Cause, TypeOK
    <3> QED
      BY <1>0, <1>e, <3>1, <3>2
  <2>2. CASE Launch(w) \/ SpawnError(w) \/ ExecuteThrows(w)
    <3>1. UNCHANGED events \/ Log(job[w], "run.exec")
      BY <2>2 DEF Launch, SpawnError, ExecuteThrows
    <3>2. job[w] = r => Cause(r, "run.exec")
      BY <2>2 DEF Cause
    <3> QED
      BY <1>0, <1>e, <3>1, <3>2 DEF Goal
  <2>3. CASE Reconcile(w)
    <3>1. events'[r] = IF r \in stale[w] THEN Append(events[r], "run.reconciled") ELSE events[r]
      BY <2>3 DEF Reconcile
    <3>2. r \in stale[w] => Cause(r, "run.reconciled")
      BY <2>3 DEF Cause
    <3> QED
      BY <1>e, <3>1, <3>2 DEF Goal
  <2>4. CASE ~(Claim(w) \/ Launch(w) \/ SpawnError(w) \/ ExecuteThrows(w) \/ Reconcile(w))
    BY <1>2, <2>4 DEF Goal, LoopNext, WorkerStart, SelectStale, StartupThrows, Heartbeat, dbVars
  <2> QED
    BY <2>1, <2>2, <2>3, <2>4
<1>3. ASSUME NEW w \in Workers, HandlerNext(w) PROVE Goal
  <2>1. ASSUME NEW e \in {"run.passed", "run.failed", "run.error", "artifacts.finalize_failed"},
               Log(settling[w], e)
        PROVE  Goal
    <3>1. settling[w] = r => Cause(r, e)
      BY <1>3 DEF Cause
    <3> QED
      BY <1>0, <1>e, <2>1, <3>1
  <2>2. CASE CompleteLog(w)
    BY <2>1, <2>2 DEF CompleteLog, VerdictEvent
  <2>3. CASE NoteSpawnError(w)
    BY <2>1, <2>3 DEF NoteSpawnError
  <2>4. CASE FinalizeThrows(w)
    BY <2>1, <2>4 DEF FinalizeThrows, Goal
  <2>5. CASE ~(CompleteLog(w) \/ NoteSpawnError(w) \/ FinalizeThrows(w))
    BY <1>3, <2>5 DEF Goal, HandlerNext, ChildClose, LateClose, CompleteRead, CompleteWrite,
                      HandlerThrows, Finalize, dbVars
  <2> QED
    BY <2>2, <2>3, <2>4, <2>5
<1>4. ASSUME NEW w \in Workers, Crash(w) PROVE Goal
  BY <1>4 DEF Crash, dbVars, Goal
<1>5. CASE Tick \/ UNCHANGED vars
  BY <1>5 DEF Tick, vars, dbVars, Goal
<1> QED
  BY <1>1, <1>2, <1>3, <1>4, <1>5 DEF Next, Goal

(* a new event has been appended for its reason *)
LEMMA NewlyLogged ==
  ASSUME TypeOK, [Next]_vars, NEW r \in Runs, NEW e, Logged(r, e)', ~Logged(r, e)
  PROVE  Cause(r, e)
<1>1. events'[r] # events[r]
  BY DEF Logged
<1>2. PICK t \in EventTypes : events'[r] = Append(events[r], t) /\ Cause(r, t)
  BY <1>1, Appended
<1>3. SeqRange(events'[r]) = SeqRange(events[r]) \cup {t}
  BY <1>2, RangeAppend DEF TypeOK
<1> QED
  BY <1>2, <1>3 DEF Logged

(* what is logged about a run when the reason for the next event is given *)
LEMMA CausesInOrder ==
  ASSUME TypeOK, JobsHeld, RequestsFresh, LaunchesOwned, ExitsKnown, LogInOrder, LogAgrees,
         NEW r \in Runs, NEW e, Cause(r, e)
  PROVE  Prior(e) \subseteq SeqRange(events[r]) /\ (e \in Once => e \notin SeqRange(events[r]))
<1>1. \A t : t \in SeqRange(events[r]) <=> Logged(r, t)
  BY DEF Logged
<1>2. CASE e = "run.queued"
  BY <1>1, <1>2 DEF Cause, ApiLogQueued, ApiStep, LogAgrees, Prior
<1>3. CASE e = "audit.trigger"
  BY <1>1, <1>3 DEF Cause, ApiAudit, ApiStep, LogAgrees, Prior
<1>4. CASE e = "run.started"
  BY <1>1, <1>4 DEF Cause, LogAgrees, Prior
<1>5. CASE e = "run.exec"
  <2>1. PICK w \in Workers : pc[w] = "claimed" /\ job[w] = r
    BY <1>5 DEF Cause, Launch, SpawnError, ExecuteThrows, LoopStep
  <2>2. status[r] \notin {"none", "queued"} /\ ~Logged(r, "run.exec")
    BY <2>1 DEF LaunchesOwned, LogAgrees
  <2> QED
    BY <1>1, <1>5, <2>2 DEF LogAgrees, Prior
<1>6. CASE e = "run.reconciled"
  BY <1>1, <1>6 DEF Cause, LogAgrees, Prior, Once
<1>7. CASE e \in {"run.passed", "run.failed", "run.error", "artifacts.finalize_failed"}
  <2>1. PICK w \in Workers : settling[w] = r
    BY <1>7 DEF Cause
  <2>2. exit[r] # "none" /\ launches[r] # 0
    BY <2>1 DEF ExitsKnown, LaunchesOwned
  <2> QED
    BY <1>1, <1>7, <2>2 DEF LogAgrees, Prior, Once
<1> QED
  BY <1>2, <1>3, <1>4, <1>5, <1>6, <1>7 DEF Cause

(* every event finds its prior ones logged *)
LEMMA OrderedStep ==
  ASSUME TypeOK, JobsHeld, RequestsFresh, LaunchesOwned, ExitsKnown, LogInOrder, LogAgrees,
         [Next]_vars
  PROVE  LogInOrder'
<1>1. ASSUME NEW r \in Runs PROVE InOrder(events'[r])
  <2>1. InOrder(events[r]) /\ events[r] \in Seq(EventTypes)
    BY DEF LogInOrder, TypeOK
  <2>2. ASSUME NEW e \in EventTypes, events'[r] = Append(events[r], e), Cause(r, e)
        PROVE  InOrder(events'[r])
    BY <2>1, <2>2, CausesInOrder, AppendInOrder
  <2> QED
    BY <2>1, <2>2, Appended
<1> QED
  BY <1>1 DEF LogInOrder

(* a row that has left the queue does not come back *)
LEMMA ClaimedKept ==
  ASSUME TypeOK, RequestsFresh, [Next]_vars, NEW r \in Runs, status[r] \notin {"none", "queued"}
  PROVE  status'[r] \notin {"none", "queued"}
<1>1. CASE (\E a \in Apis : ApiNext(a)) \/ Tick \/ UNCHANGED vars
  BY <1>1, ApiStatus
<1>2. ASSUME NEW w \in Workers, LoopNext(w) \/ HandlerNext(w) \/ Crash(w)
      PROVE  status'[r] \notin {"none", "queued"}
  BY <1>2, WorkerStatus DEF Terminal
<1> QED
  BY <1>1, <1>2 DEF Next

(* a row leaves the queue with the run.started of its claim *)
LEMMA StartedStep ==
  ASSUME TypeOK, RequestsFresh, LogAgrees, [Next]_vars, NEW r \in Runs
  PROVE  Logged(r, "run.started")' <=> status'[r] \notin {"none", "queued"}
<1>0. Logged(r, "run.started") => Logged(r, "run.started")'
  BY EventsGrow DEF Logged
<1>1. ASSUME Logged(r, "run.started")' PROVE status'[r] \notin {"none", "queued"}
  <2>1. CASE Logged(r, "run.started")
    BY <2>1, ClaimedKept DEF LogAgrees
  <2>2. CASE ~Logged(r, "run.started")
    <3>1. Cause(r, "run.started")
      BY <1>1, <2>2, NewlyLogged
    <3>2. PICK w \in Workers : Claim(w) /\ job'[w] = r
      BY <3>1 DEF Cause
    <3>3. status'[r] = "running"
      BY <3>2 DEF Claim, TypeOK
    <3> QED
      BY <3>3
  <2> QED
    BY <2>1, <2>2
<1>2. ASSUME status'[r] \notin {"none", "queued"} PROVE Logged(r, "run.started")'
  <2>1. CASE status[r] \notin {"none", "queued"}
    BY <1>0, <2>1 DEF LogAgrees
  <2>2. CASE status[r] \in {"none", "queued"}
    <3>1. \E w \in Workers : LoopNext(w) \/ HandlerNext(w) \/ Crash(w)
      BY <1>2, <2>2, ApiStatus DEF Next
    <3>2. PICK w \in Workers : Claim(w)
      BY <1>2, <2>2, <3>1, WorkerStatus
    <3>3. PICK q \in Runs : status' = [status EXCEPT ![q] = "running"] /\ Log(q, "run.started")
      BY <3>2 DEF Claim
    <3>4. q = r
      BY <1>2, <2>2, <3>3 DEF TypeOK
    <3>5. Log(r, "run.started")
      BY <3>3, <3>4
    <3>6. SeqRange(events'[r]) = SeqRange(events[r]) \cup {"run.started"}
      BY <3>5, LogRange, LoggedTypes DEF TypeOK
    <3> QED
      BY <3>6 DEF Logged
  <2> QED
    BY <2>1, <2>2
<1> QED
  BY <1>1, <1>2

(* a run that was launched has its run.exec *)
LEMMA ExecStep ==
  ASSUME TypeOK, JobsHeld, LogAgrees, [Next]_vars, NEW r \in Runs, launches'[r] # 0
  PROVE  Logged(r, "run.exec")'
<1>0. Logged(r, "run.exec") => Logged(r, "run.exec")'
  BY EventsGrow DEF Logged
<1>1. CASE launches[r] # 0
  BY <1>0, <1>1 DEF LogAgrees
<1>2. CASE launches[r] = 0
  <2>1. PICK w \in Workers : LoopNext(w) \/ HandlerNext(w) \/ Crash(w)
    BY <1>2, ApiWorkers DEF Next, childVars
  <2>2. launches'[r] # launches[r]
    BY <1>2
  <2>3. CASE Launch(w) \/ SpawnError(w)
    <3>1. Log(job[w], "run.exec") /\ launches' = [launches EXCEPT ![job[w]] = @ + 1]
      BY <2>3 DEF Launch, SpawnError
    <3>2. job[w] = r
      BY <2>2, <3>1 DEF TypeOK
    <3>3. Log(r, "run.exec")
      BY <3>1, <3>2
    <3>4. SeqRange(events'[r]) = SeqRange(events[r]) \cup {"run.exec"}
      BY <3>3, LogRange, LoggedTypes DEF TypeOK
    <3> QED
      BY <3>4 DEF Logged
  <2>4. CASE ~(Launch(w) \/ SpawnError(w))
    <3>1. CASE Claim(w)
      BY <2>2, <3>1 DEF Claim, childVars
    <3>2. CASE ~Claim(w)
      BY <2>1, <2>2, <2>4, <3>2, LettingGo
    <3> QED
      BY <3>1, <3>2
  <2> QED
    BY <2>3, <2>4
<1> QED
  BY <1>1, <1>2

(* a worker is between claim and launch because it claims, or it was there *)
LEMMA ClaimedBefore ==
  ASSUME TypeOK, JobsHeld, ExitsKnown, [Next]_vars, NEW w \in Workers, pc'[w] = "claimed"
  PROVE  Claim(w) \/ (pc[w] = "claimed" /\ job'[w] = job[w])
<1>1. CASE (\E a \in Apis : ApiNext(a)) \/ Tick \/ UNCHANGED vars
  BY <1>1, ApiWorkers DEF loopVars
<1>2. ASSUME NEW v \in Workers, LoopNext(v) \/ HandlerNext(v) \/ Crash(v), ~Claim(v)
      PROVE  pc[w] = "claimed" /\ job'[w] = job[w]
  <2>1. CASE Launch(v) \/ SpawnError(v)
    BY <1>2, <2>1, Launching DEF TypeOK
  <2>2. CASE ~(Launch(v) \/ SpawnError(v))
    <3>1. /\ job' = job \/ job' = [job EXCEPT ![v] = NoRun]
          /\ pc' = pc \/ \E s \in {"down", "boot", "reconcile", "idle"} :
                           pc' = [pc EXCEPT ![v] = s]
      BY <1>2, <2>2, LettingGo
    <3>2. pc[w] = "claimed"
      BY <3>1 DEF TypeOK
    <3>3. job'[w] \in Runs
      BY JobsStep DEF JobsHeld
    <3> QED
      BY <3>1, <3>2, <3>3 DEF TypeOK
  <2> QED
    BY <2>1, <2>2
<1>3. ASSUME NEW v \in Workers, Claim(v), v # w
      PROVE  pc[w] = "claimed" /\ job'[w] = job[w]
  BY <1>3 DEF Claim, LoopStep, TypeOK
<1> QED
  BY <1>1, <1>2, <1>3 DEF Next

(* a worker that has claimed a run and not launched it finds no run.exec *)
LEMMA ClaimedStep ==
  ASSUME TypeOK, JobsHeld, LaunchesOwned, ExitsKnown, LogInOrder, LogAgrees, [Next]_vars,
         NEW w \in Workers, NEW r \in Runs, pc'[w] = "claimed", job'[w] = r,
         Logged(r, "run.exec")'
  PROVE  FALSE
<1>1. CASE pc[w] = "claimed" /\ job[w] = r
  <2>1. ~Logged(r, "run.exec")
    BY <1>1 DEF LogAgrees
  <2>2. PICK v \in Workers : (Launch(v) \/ SpawnError(v) \/ ExecuteThrows(v)) /\ job[v] = r
    BY <2>1, NewlyLogged DEF Cause
  <2>3. v = w
    BY <1>1, <2>2, QueueAssumption DEF LaunchesOwned
  <2> QED
    BY <2>2, <2>3 DEF Launch, SpawnError, ExecuteThrows, LoopStep, TypeOK
<1>2. CASE Claim(w)
  <2>1. status[r] = "queued"
    BY <1>2 DEF Claim, OldestQueued, TypeOK
  <2>2. ~Logged(r, "run.exec")
    <3>1. ~Logged(r, "run.started") /\ InOrder(events[r])
      BY <2>1 DEF LogAgrees, LogInOrder
    <3>2. "run.started" \in Prior("run.exec")
      BY DEF Prior
    <3> QED
      BY <3>1, <3>2, PriorLogged
  <2>3. PICK v \in Workers : job[v] = r
    BY <2>2, NewlyLogged DEF Cause
  <2> QED
    BY <2>1, <2>3 DEF LaunchesOwned
<1> QED
  BY <1>1, <1>2, ClaimedBefore

(* the runs a worker reconciles have been claimed *)
LEMMA StaleStep ==
  ASSUME TypeOK, RequestsFresh, LogAgrees, [Next]_vars,
         NEW w \in Workers, NEW r \in stale'[w]
  PROVE  status'[r] \notin {"none", "queued"}
<1>1. CASE \E v \in Workers : SelectStale(v)
  <2>1. PICK v \in Workers : /\ stale' = [stale EXCEPT ![v] = {q \in Runs : IsStale(q)}]
                             /\ UNCHANGED status
    BY <1>1 DEF SelectStale, dbVars
  <2> QED
    BY <2>1 DEF LogAgrees, IsStale, TypeOK
<1>2. CASE ~\E v \in Workers : SelectStale(v)
  <2>1. stale' = stale \/ \E v \in Workers : stale' = [stale EXCEPT ![v] = {}]
    <3>1. CASE (\E a \in Apis : ApiNext(a)) \/ Tick \/ UNCHANGED vars
      BY <3>1, ApiWorkers DEF loopVars
    <3>2. ASSUME NEW v \in Workers, LoopNext(v) \/ HandlerNext(v) \/ Crash(v)
          PROVE  stale' = stale \/ stale' = [stale EXCEPT ![v] = {}]
      BY <1>2, <3>2 DEF LoopNext, HandlerNext, Crash, WorkerStart, Reconcile, StartupThrows,
           Claim, Launch, SpawnError, ExecuteThrows, Heartbeat, ChildClose, LateClose,
           CompleteRead, CompleteWrite, CompleteLog, NoteSpawnError, HandlerThrows,
           Finalize, FinalizeThrows, Return, loopVars
    <3> QED
      BY <3>1, <3>2 DEF Next
  <2>2. r \in stale[w]
    BY <2>1 DEF TypeOK
  <2>3. r \in Runs /\ status[r] \notin {"none", "queued"}
    BY <2>2 DEF LogAgrees, TypeOK
  <2> QED
    BY <2>3, ClaimedKept
<1> QED
  BY <1>1, <1>2

(* how an API process gets to where it is *)
LEMMA ApiBefore ==
  ASSUME TypeOK, RequestsFresh, [Next]_vars, NEW a \in Apis, apc'[a] # "idle"
  PROVE  \/ ApiRequest(a) /\ apc'[a] = "insert"
         \/ ApiInsert(a) /\ apc'[a] = "log" /\ req'[a] = req[a]
         \/ ApiLogQueued(a) /\ apc'[a] = "skeleton" /\ req'[a] = req[a]
         \/ ApiSkeleton(a) /\ apc'[a] = "audit" /\ req'[a] = req[a]
         \/ apc'[a] = apc[a] /\ req'[a] = req[a]
<1>1. ASSUME NEW b \in Apis, ApiRequest(b), b # a
      PROVE  apc'[a] = apc[a] /\ req'[a] = req[a]
  BY <1>1 DEF ApiRequest, ApiStep, TypeOK
<1>2. ASSUME ApiRequest(a) PROVE apc'[a] = "insert"
  BY <1>2 DEF ApiRequest, ApiStep, TypeOK
<1>3. ASSUME NEW b \in Apis, ApiInsert(b) \/ ApiLogQueued(b) \/ ApiSkeleton(b)
      PROVE  /\ req'[a] = req[a]
             /\ b # a => apc'[a] = apc[a]
             /\ b = a => /\ ApiInsert(a) => apc'[a] = "log"
                         /\ ApiLogQueued(a) => apc'[a] = "skeleton"
                         /\ ApiSkeleton(a) => apc'[a] = "audit"
  BY <1>3 DEF ApiInsert, ApiLogQueued, ApiSkeleton, ApiStep, TypeOK
<1>4. ASSUME NEW b \in Apis, ApiAudit(b) \/ ApiError(b)
      PROVE  apc'[a] = apc[a] /\ req'[a] = req[a]
  BY <1>4 DEF ApiAudit, ApiError, ApiStep, TypeOK
<1>5. ASSUME NEW w \in Workers, LoopNext(w) \/ HandlerNext(w) \/ Crash(w)
      PROVE  apc'[a] = apc[a] /\ req'[a] = req[a]
  BY <1>5, WorkerApi
<1>6. CASE Tick \/ UNCHANGED vars
  BY <1>6 DEF Tick, vars, apiVars
<1> QED
  BY <1>1, <1>2, <1>3, <1>4, <1>5, <1>6 DEF Next, ApiNext

(* run.queued and the audit event are logged by the creator of the run *)
LEMMA CreatorStep ==
  ASSUME TypeOK, RequestsFresh, LogInOrder, LogAgrees, [Next]_vars
  PROVE  /\ \A r \in Runs : r \notin SeqRange(created') => ~Logged(r, "run.queued")'
         /\ \A a \in Apis, r \in Runs : req'[a] = r =>
              /\ apc'[a] \in {"insert", "log"} => ~Logged(r, "run.queued")'
              /\ apc'[a] \in {"skeleton", "audit"} =>
                   Logged(r, "run.queued")' /\ ~Logged(r, "audit.trigger")'
<1>0. \A r \in Runs : SeqRange(events[r]) \subseteq SeqRange(events'[r])
  BY EventsGrow
<1>1. ASSUME NEW r \in Runs, Logged(r, "run.queued")', ~Logged(r, "run.queued")
      PROVE  \E b \in Apis : ApiLogQueued(b) /\ req[b] = r
  BY <1>1, NewlyLogged DEF Cause
<1>2. ASSUME NEW r \in Runs, Logged(r, "audit.trigger")', ~Logged(r, "audit.trigger")
      PROVE  \E b \in Apis : ApiAudit(b) /\ req[b] = r
  BY <1>2, NewlyLogged DEF Cause
<1>3. SeqRange(created) \subseteq SeqRange(created') /\ SeqRange(created) \subseteq Runs
  <2>1. created' = created \/ \E r \in Runs : created' = Append(created, r)
    BY WorkerApi DEF Next, ApiNext, ApiRequest, ApiInsert, ApiLogQueued, ApiSkeleton,
                     ApiAudit, ApiError, Tick, vars, dbVars
  <2>2. created \in Seq(Runs)
    BY DEF TypeOK
  <2>3. ASSUME NEW r \in Runs, created' = Append(created, r)
        PROVE  SeqRange(created) \subseteq SeqRange(created')
    BY <2>2, <2>3, RangeAppend
  <2>4. SeqRange(created) \subseteq Runs
    BY <2>2 DEF SeqRange
  <2> QED
    BY <2>1, <2>3, <2>4
<1>4. ASSUME NEW r \in Runs, r \notin SeqRange(created'), Logged(r, "run.queued")' PROVE FALSE
  <2>1. ~Logged(r, "run.queued")
    BY <1>3, <1>4 DEF LogAgrees
  <2>2. PICK b \in Apis : ApiLogQueued(b) /\ req[b] = r
    BY <1>1, <1>4, <2>1
  <2>3. apc[b] # "idle"
    BY <2>2 DEF ApiLogQueued, ApiStep
  <2> QED
    BY <1>3, <1>4, <2>2, <2>3 DEF RequestsFresh
<1>5. ASSUME NEW a \in Apis, NEW r \in Runs, req'[a] = r
      PROVE  /\ apc'[a] \in {"insert", "log"} => ~Logged(r, "run.queued")'
             /\ apc'[a] \in {"skeleton", "audit"} =>
                  Logged(r, "run.queued")' /\ ~Logged(r, "audit.trigger")'
  <2>1. ASSUME apc'[a] \in {"insert", "log"}, Logged(r, "run.queued")' PROVE FALSE
    <3>1. CASE ApiRequest(a)
      <4>1. r \notin SeqRange(created) /\ UNCHANGED events
        BY <1>5, <3>1 DEF ApiRequest, TypeOK
      <4> QED
        BY <2>1, <4>1 DEF LogAgrees, Logged
    <3>2. CASE apc[a] \in {"insert", "log"} /\ req[a] = r
      <4>1. ~Logged(r, "run.queued")
        BY <3>2 DEF LogAgrees
      <4>2. PICK b \in Apis : ApiLogQueued(b) /\ req[b] = r
        BY <1>1, <2>1, <4>1
      <4>3. b = a
        BY <3>2, <4>2, QueueAssumption DEF RequestsFresh
      <4> QED
        BY <2>1, <4>2, <4>3 DEF ApiLogQueued, ApiStep, TypeOK
    <3>3. ApiInsert(a) => apc[a] = "insert"
      BY DEF ApiInsert, ApiStep
    <3> QED
      BY <1>5, <2>1, <3>1, <3>2, <3>3, ApiBefore
  <2>2. ASSUME apc'[a] \in {"skeleton", "audit"}
        PROVE  Logged(r, "run.queued")' /\ ~Logged(r, "audit.trigger")'
    <3>1. CASE ApiLogQueued(a) /\ req[a] = r
      <4>1. apc[a] = "log" /\ Log(r, "run.queued")
        BY <3>1 DEF ApiLogQueued, ApiStep
      <4>2. ~Logged(r, "run.queued")
        BY <3>1, <4>1 DEF LogAgrees
      <4>3. ~Logged(r, "audit.trigger")
        <5>1. "run.queued" \in Prior("audit.trigger") /\ InOrder(events[r])
          BY DEF Prior, LogInOrder
        <5> QED
          BY <4>2, <5>1, PriorLogged
      <4>4. SeqRange(events'[r]) = SeqRange(events[r]) \cup {"run.queued"}
        BY <4>1, LogRange, LoggedTypes DEF TypeOK
      <4> QED
        BY <4>3, <4>4 DEF Logged
    <3>2. CASE apc[a] \in {"skeleton", "audit"} /\ req[a] = r
      <4>1. Logged(r, "run.queued") /\ ~Logged(r, "audit.trigger")
        BY <3>2 DEF LogAgrees
      <4>2. Logged(r, "run.queued")'
        BY <1>0, <4>1 DEF Logged
      <4>3. ASSUME Logged(r, "audit.trigger")' PROVE FALSE
        <5>1. PICK b \in Apis : ApiAudit(b) /\ req[b] = r
          BY <1>2, <4>1, <4>3
        <5>2. b = a
          BY <3>2, <5>1, QueueAssumption DEF RequestsFresh
        <5> QED
          BY <2>2, <5>1, <5>2 DEF ApiAudit, ApiStep, TypeOK
      <4> QED
        BY <4>2, <4>3
    <3>3. ApiSkeleton(a) => apc[a] = "skeleton"
      BY DEF ApiSkeleton, ApiStep
    <3> QED
      BY <1>5, <2>2, <3>1, <3>2, <3>3, ApiBefore
  <2> QED
    BY <2>1, <2>2
<1> QED
  BY <1>4, <1>5

(* what is logged agrees with the rows, the workers and the requests *)
LEMMA AgreesStep ==
  ASSUME TypeOK, JobsHeld, RequestsFresh, LaunchesOwned, ExitsKnown, LogInOrder, LogAgrees,
         [Next]_vars
  PROVE  LogAgrees'
<1>1. \A w \in Workers : pc'[w] = "claimed" => job'[w] \in Runs
  BY JobsStep DEF JobsHeld
<1>2. \A a \in Apis : apc'[a] # "idle" => req'[a] \in Runs
  <2>1. RequestsFresh' /\ TypeOK'
    BY RequestsStep, TypeStep
  <2> QED
    BY <2>1 DEF RequestsFresh, TypeOK, SeqRange
<1> QED
  BY <1>1, <1>2, StartedStep, ExecStep, ClaimedStep, StaleStep, CreatorStep DEF LogAgrees, Logged

(* The runs a worker may still settle.                                     *)
Holds(w, r) == Owns(w, r) \/ r \in late[w]

(* No step gives a worker a run to settle, except the claim of a queued    *)
(* one.                                                                    *)
LEMMA HoldsChange ==
  ASSUME TypeOK, JobsHeld, [Next]_vars,
         NEW w \in Workers, NEW r \in Runs, Holds(w, r)', ~Holds(w, r)
  PROVE  Claim(w) /\ status[r] = "queued"
<1> USE DEF Holds, Owns, TypeOK
<1>1. CASE (\E a \in Apis : ApiNext(a)) \/ Tick \/ UNCHANGED vars
  BY <1>1, ApiWorkers DEF loopVars, handlerVars
<1>2. ASSUME NEW v \in Workers, Claim(v) PROVE v = w /\ status[r] = "queued"
  <2>1. PICK q \in Runs :
          status[q] = "queued" /\ job' = [job EXCEPT ![v] = q] /\ UNCHANGED handlerVars
    BY <1>2 DEF Claim, OldestQueued
  <2> QED
    BY <2>1 DEF handlerVars
<1>3. ASSUME NEW v \in Workers, SpawnError(v) PROVE FALSE
  <2>1. /\ UNCHANGED job
        /\ settling' = [settling EXCEPT ![v] = job[v]]
        /\ late' = [late EXCEPT ![v] = @ \cup {job[v]}]
    BY <1>3 DEF SpawnError
  <2> QED
    BY <2>1
<1>4. ASSUME NEW v \in Workers, NEW code \in {"zero", "nonzero"}, ChildClose(v, code)
      PROVE  FALSE
  <2>1. UNCHANGED <<job, late>> /\ settling' = [settling EXCEPT ![v] = job[v]]
    BY <1>4 DEF ChildClose, loopVars
  <2> QED
    BY <2>1
<1>5. ASSUME NEW v \in Workers, LateClose(v) PROVE FALSE
  <2>1. PICK q \in late[v] :
          /\ UNCHANGED job
          /\ settling' = [settling EXCEPT ![v] = q]
          /\ late' = [late EXCEPT ![v] = @ \ {q}]
    BY <1>5 DEF LateClose, loopVars
  <2> QED
    BY <2>1
<1>6. ASSUME NEW v \in Workers, LoopNext(v) \/ HandlerNext(v) \/ Crash(v),
             ~Claim(v), ~SpawnError(v), ~LateClose(v),
             ~\E code \in {"zero", "nonzero"} : ChildClose(v, code)
      PROVE  FALSE
  <2>1. job' = job \/ job' = [job EXCEPT ![v] = NoRun]
    BY <1>6, LettingGo DEF Launch
  <2>2. /\ settling' = settling \/ settling' = [settling EXCEPT ![v] = NoRun]
        /\ late' = late \/ late' = [late EXCEPT ![v] = {}]
    BY <1>6 DEF LoopNext, HandlerNext, Crash, WorkerStart, SelectStale, Reconcile,
                StartupThrows, Launch, ExecuteThrows, Heartbeat, CompleteRead,
                CompleteWrite, CompleteLog, NoteSpawnError, HandlerThrows, Finalize,
                FinalizeThrows, Return, handlerVars
  <2>3. job'[w] \in {job[w], NoRun} /\ settling'[w] \in {settling[w], NoRun}
    BY <2>1, <2>2
  <2>4. late'[w] \subseteq late[w]
    BY <2>2
  <2> QED
    BY <2>3, <2>4, QueueAssumption
<1> QED
  BY <1>1, <1>2, <1>3, <1>4, <1>5, <1>6 DEF Next

(* Nobody may settle a run that is still queued.                           *)
LEMMA QueuedUnheld ==
  ASSUME TypeOK, LaunchesOwned, ExitsKnown,
         NEW w \in Workers, NEW r \in Runs, Holds(w, r)
  PROVE  status[r] \in {"running"} \cup Terminal
<1>1. CASE job[w] = r
  BY <1>1 DEF LaunchesOwned, TypeOK, Terminal
<1>2. CASE settling[w] = r \/ r \in late[w]
  <2>1. exit[r] \in {"zero", "nonzero"}
    BY <1>2 DEF ExitsKnown
  <2>2. launches[r] # 0
    BY <2>1 DEF LaunchesOwned
  <2> QED
    BY <2>2 DEF LaunchesOwned, TypeOK, Terminal
<1> QED
  BY <1>1, <1>2 DEF Holds, Owns

(* Two workers do not claim in one step.                                   *)
LEMMA OneClaims ==
  ASSUME TypeOK, NEW v \in Workers, NEW w \in Workers, Claim(v), Claim(w)
  PROVE  v = w
<1>1. /\ pc[v] = "idle" /\ pc' = [pc EXCEPT ![v] = "claimed"]
      /\ pc[w] = "idle" /\ pc' = [pc EXCEPT ![w] = "claimed"]
  BY DEF Claim, LoopStep
<1> QED
  BY <1>1 DEF TypeOK

(* Only a worker's own steps move its callback, and only five of them move *)
(* it anywhere but to its first statement or its end.                      *)
LEMMA CallbackMoves ==
  ASSUME TypeOK, [Next]_vars, NEW w \in Workers
  PROVE  \/ hpc'[w] = hpc[w] /\ settling'[w] = settling[w]
         \/ hpc'[w] \in {"none", "read"}
         \/ CompleteRead(w) \/ CompleteWrite(w) \/ CompleteLog(w)
         \/ NoteSpawnError(w) \/ HandlerThrows(w)
<1> USE DEF TypeOK
<1>1. CASE (\E a \in Apis : ApiNext(a)) \/ Tick \/ UNCHANGED vars
  BY <1>1, ApiWorkers DEF handlerVars
<1>2. ASSUME NEW v \in Workers, LoopNext(v)
      PROVE  (hpc'[w] = hpc[w] /\ settling'[w] = settling[w]) \/ hpc'[w] = "read"
  <2>1. CASE SpawnError(v)
    BY <2>1 DEF SpawnError
  <2>2. CASE ~SpawnError(v)
    BY <1>2, <2>2 DEF LoopNext, WorkerStart, SelectStale, Reconcile, StartupThrows, Claim,
                      Launch, ExecuteThrows, Heartbeat, handlerVars
  <2> QED
    BY <2>1, <2>2
<1>3. ASSUME NEW v \in Workers, HandlerNext(v)
      PROVE  \/ hpc'[w] = hpc[w] /\ settling'[w] = settling[w]
             \/ hpc'[w] \in {"none", "read"}
             \/ /\ v = w
                /\ \/ CompleteRead(w) \/ CompleteWrite(w) \/ CompleteLog(w)
                   \/ NoteSpawnError(w) \/ HandlerThrows(w)
  <2>1. CASE \E code \in {"zero", "nonzero"} : ChildClose(v, code)
    BY <2>1 DEF ChildClose
  <2>2. CASE LateClose(v)
    BY <2>2 DEF LateClose
  <2>3. CASE Finalize(v) \/ FinalizeThrows(v)
    <3>1. hpc' = [hpc EXCEPT ![v] = "none"] /\ settling' = [settling EXCEPT ![v] = NoRun]
      BY <2>3 DEF Finalize, FinalizeThrows, Return, HandlerStep
    <3> QED
      BY <3>1
  <2>4. CASE \/ CompleteRead(v) \/ CompleteWrite(v) \/ CompleteLog(v)
             \/ NoteSpawnError(v) \/ HandlerThrows(v)
    <3>1. /\ UNCHANGED settling
          /\ \E s : hpc' = [hpc EXCEPT ![v] = s]
      BY <2>4 DEF CompleteRead, CompleteWrite, CompleteLog, NoteSpawnError, HandlerThrows,
                  HandlerStep
    <3> QED
      BY <2>4, <3>1
  <2> QED
    BY <1>3, <2>1, <2>2, <2>3, <2>4 DEF HandlerNext
<1>4. ASSUME NEW v \in Workers, Crash(v)
      PROVE  (hpc'[w] = hpc[w] /\ settling'[w] = settling[w]) \/ hpc'[w] = "none"
  BY <1>4 DEF Crash
<1> QED
  BY <1>1, <1>2, <1>3, <1>4 DEF Next

(* What has been thrown, and who has died, is never forgotten.             *)
LEMMA BudgetsSpent ==
  ASSUME TypeOK, [Next]_vars
  PROVE  (failures' = 0 => failures = 0) /\ (crashes' = 0 => crashes = 0)
<1> DEFINE Spent == failures' \in {failures, failures + 1} /\ crashes' \in {crashes, crashes + 1}
<1>1. Spent
  <2>1. ASSUME NEW a \in Apis, ApiNext(a) PROVE Spent
    BY <2>1 DEF ApiNext, ApiRequest, ApiInsert, ApiLogQueued, ApiSkeleton, ApiAudit,
                ApiError, Throws, faultVars
  <2>2. ASSUME NEW w \in Workers, LoopNext(w) PROVE Spent
    BY <2>2 DEF LoopNext, WorkerStart, SelectStale, Reconcile, StartupThrows, Claim, Launch,
                SpawnError, ExecuteThrows, Heartbeat, Throws, faultVars
  <2>3. ASSUME NEW w \in Workers, HandlerNext(w) PROVE Spent
    BY <2>3 DEF HandlerNext, ChildClose, LateClose, CompleteRead, CompleteWrite,
                CompleteLog, NoteSpawnError, HandlerThrows, Finalize, FinalizeThrows,
                Return, Throws, faultVars
  <2>4. ASSUME NEW w \in Workers, Crash(w) PROVE Spent
    BY <2>4 DEF Crash
  <2>5. CASE Tick \/ UNCHANGED vars
    BY <2>5 DEF Tick, vars, faultVars
  <2> QED
    BY <2>1, <2>2, <2>3, <2>4, <2>5 DEF Next
<1>2. failures \in Nat /\ crashes \in Nat
  BY DEF TypeOK
<1> QED
  BY <1>1, <1>2

(* No step makes a run two workers' to settle, or lets it get two verdicts *)
LEMMA SettledStep ==
  ASSUME TypeOK, JobsHeld, RequestsFresh, LaunchesOwned, ExitsKnown, SettledByOne,
         [Next]_vars
  PROVE  SettledByOne'
<1>1. ASSUME NEW v \in Workers, NEW w \in Workers, NEW r \in Runs,
             Holds(v, r)', Holds(w, r)'
      PROVE  v = w
  <2>1. CASE Holds(v, r) /\ Holds(w, r)
    BY <2>1 DEF SettledByOne, Holds
  <2>2. CASE ~Holds(v, r) \/ ~Holds(w, r)
    <3>1. status[r] = "queued"
      BY <1>1, <2>2, HoldsChange
    <3>2. ~Holds(v, r) /\ ~Holds(w, r)
      BY <3>1, QueuedUnheld DEF Terminal
    <3>3. Claim(v) /\ Claim(w)
      BY <1>1, <3>2, HoldsChange
    <3> QED
      BY <3>3, OneClaims
  <2> QED
    BY <2>1, <2>2
<1>2. ASSUME NEW r \in Runs, HasVerdict(r)' PROVE status'[r] \in Terminal
  <2>1. CASE HasVerdict(r)
    BY <2>1, TerminalKept DEF SettledByOne
  <2>2. CASE ~HasVerdict(r)
    <3>1. PICK w \in Workers : CompleteLog(w) /\ settling[w] = r
      BY <1>2, <2>2, VerdictSource
    <3>2. hpc[w] = "log"
      BY <3>1 DEF CompleteLog, HandlerStep
    <3> QED
      BY <3>1, <3>2, TerminalKept DEF SettledByOne
  <2> QED
    BY <2>1, <2>2
<1> DEFINE Stays(w) == hpc'[w] = hpc[w] /\ settling'[w] = settling[w]
<1>3. \A w \in Workers : hpc[w] # "none" => settling[w] \in Runs /\ Holds(w, settling[w])
  BY DEF ExitsKnown, Holds, Owns
<1>4. ASSUME NEW w \in Workers, NEW r \in Runs,
             hpc'[w] \in {"write", "log"}, settling'[w] = r
      PROVE  ~HasVerdict(r)'
  <2>1. \/ Stays(w)
        \/ (CompleteRead(w) \/ CompleteWrite(w)) /\ UNCHANGED <<settling, events>>
    <3>1. CASE CompleteLog(w) \/ NoteSpawnError(w) \/ HandlerThrows(w)
      <4>1. \E s \in {"note", "finalize"} : hpc' = [hpc EXCEPT ![w] = s]
        BY <3>1 DEF CompleteLog, NoteSpawnError, HandlerThrows, HandlerStep, AfterComplete
      <4> QED
        BY <1>4, <4>1 DEF TypeOK
    <3>2. CASE CompleteRead(w) \/ CompleteWrite(w)
      BY <3>2 DEF CompleteRead, CompleteWrite, dbVars
    <3> QED
      BY <1>4, <3>1, <3>2, CallbackMoves
  <2>2. hpc[w] # "none" /\ settling[w] = r /\ Holds(w, r)
    BY <1>3, <1>4, <2>1 DEF CompleteRead, CompleteWrite, HandlerStep
  <2>3. ~HasVerdict(r)
    <3>1. CASE CompleteRead(w)
      <4>1. hpc' = [hpc EXCEPT ![w] = IF status[r] = "running"
                                        THEN "write" ELSE AfterComplete(w)]
        BY <2>2, <3>1 DEF CompleteRead, HandlerStep
      <4>2. status[r] = "running"
        BY <1>4, <4>1 DEF AfterComplete, TypeOK
      <4> QED
        BY <4>2 DEF SettledByOne, Terminal
    <3>2. CASE ~CompleteRead(w)
      BY <1>4, <2>1, <2>2, <3>2 DEF CompleteWrite, HandlerStep, SettledByOne
    <3> QED
      BY <3>1, <3>2
  <2>4. ASSUME HasVerdict(r)' PROVE FALSE
    <3>1. PICK v \in Workers : CompleteLog(v) /\ settling[v] = r
      BY <2>3, <2>4, VerdictSource
    <3>2. v = w
      BY <2>2, <3>1 DEF SettledByOne, Holds, Owns
    <3>3. hpc' = [hpc EXCEPT ![w] = AfterComplete(w)]
      BY <3>1, <3>2 DEF CompleteLog, HandlerStep
    <3> QED
      BY <1>4, <3>3 DEF AfterComplete, TypeOK
  <2> QED
    BY <2>4
<1>5. ASSUME NEW w \in Workers,
             hpc'[w] = "log" \/ (failures' = 0 /\ hpc'[w] \in {"note", "finalize"})
      PROVE  settling'[w] \in Runs /\ status'[settling'[w]] \in Terminal
  <2>1. CASE Stays(w)
    <3>1. settling[w] \in Runs /\ status[settling[w]] \in Terminal
      BY <1>3, <1>5, <2>1, BudgetsSpent DEF SettledByOne
    <3> QED
      BY <2>1, <3>1, TerminalKept
  <2>2. CASE CompleteRead(w) \/ CompleteWrite(w)
    <3>1. /\ hpc[w] # "none" /\ settling' = settling
          /\ status' = IF CompleteRead(w) THEN status ELSE Completed(w)
          /\ CompleteRead(w) => hpc' = [hpc EXCEPT ![w] =
                 IF status[settling[w]] = "running" THEN "write" ELSE AfterComplete(w)]
      BY <2>2 DEF CompleteRead, CompleteWrite, HandlerStep, dbVars
    <3>2. settling[w] \in Runs /\ status[settling[w]] \in {"running"} \cup Terminal
      BY <1>3, <3>1, QueuedUnheld
    <3>3. CASE CompleteRead(w)
      BY <1>5, <3>1, <3>2, <3>3 DEF TypeOK
    <3>4. CASE ~CompleteRead(w)
      BY <3>1, <3>2, <3>4 DEF Completed, FinalStatus, Terminal, TypeOK
    <3> QED
      BY <3>3, <3>4
  <2>3. CASE CompleteLog(w) \/ NoteSpawnError(w)
    <3>1. /\ hpc[w] \in {"log", "note"} /\ UNCHANGED <<settling, status>>
          /\ hpc[w] = "note" => failures' = failures
          /\ hpc' = [hpc EXCEPT ![w] = IF hpc[w] = "log" THEN AfterComplete(w) ELSE "finalize"]
      BY <2>3 DEF CompleteLog, NoteSpawnError, HandlerStep, faultVars
    <3>2. hpc'[w] # "log"
      BY <3>1 DEF AfterComplete, TypeOK
    <3> QED
      BY <1>3, <1>5, <3>1, <3>2 DEF SettledByOne
  <2>4. CASE HandlerThrows(w)
    <3>1. failures' # 0 /\ hpc' = [hpc EXCEPT ![w] = "finalize"]
      BY <2>4 DEF HandlerThrows, Throws, TypeOK
    <3> QED
      BY <1>5, <3>1 DEF TypeOK
  <2> QED
    BY <1>5, <2>1, <2>2, <2>3, <2>4, CallbackMoves
<1>6. \A w \in Workers : hpc'[w] # "none" => settling'[w] \in Runs
  BY ExitsStep DEF ExitsKnown
<1>7. \A w \in Workers : hpc'[w] \in {"write", "log"} => ~HasVerdict(settling[w])'
  BY <1>4, <1>6 DEF HasVerdict, Logged
<1> QED
  BY <1>1, <1>2, <1>5, <1>7 DEF SettledByOne, Holds

(***************************************************************************)
(* Type correctness and the inductive invariant.                           *)
(***************************************************************************)
(* the inductive invariant holds of the empty database *)
LEMMA IndInit == Init => IndInv
<1> SUFFICES ASSUME Init PROVE IndInv
  OBVIOUS
<1>1. TypeOK
  BY DEF Init, TypeOK
<1>2. JobsHeld /\ LaunchesOwned /\ ExitsKnown /\ AtMostOnceLaunch
  BY QueueAssumption DEF Init, JobsHeld, LaunchesOwned, ExitsKnown, AtMostOnceLaunch
<1>3. RequestsFresh
  BY DEF Init, RequestsFresh
<1>4. SettledByOne
  BY QueueAssumption DEF Init, SettledByOne, Owns, HasVerdict, Logged, SeqRange
<1>5. LogInOrder /\ LogAgrees
  BY QueueAssumption DEF Init, LogInOrder, InOrder, LogAgrees, Logged, SeqRange
<1> QED
  BY <1>1, <1>2, <1>3, <1>4, <1>5 DEF IndInv

(* and every step preserves it *)
LEMMA IndStep == IndInv /\ [Next]_vars => IndInv'
  BY TypeStep, JobsStep, RequestsStep, LaunchesStep, ExitsStep, OnceStep, SettledStep,
     OrderedStep, AgreesStep
  DEF IndInv

(* The inductive invariant holds in every reachable state: who creates,    *)
(* holds, launches and settles a run, and what is known of its command.    *)
THEOREM Inductive == Spec => []IndInv
  BY IndInit, IndStep, PTL DEF Spec

(* Every variable keeps its type, whatever throws or dies.                 *)
THEOREM TypeCorrect == Spec => []TypeOK
<1>1. IndInv => TypeOK
  BY DEF IndInv
<1> QED
  BY <1>1, Inductive, PTL

(* No run's command is started twice: claims are exclusive and rows never  *)
(* return to the queue, whatever workers crash, stall or reconcile.        *)
THEOREM LaunchedAtMostOnce == Spec => []AtMostOnceLaunch
<1>1. IndInv => AtMostOnceLaunch
  BY DEF IndInv
<1> QED
  BY <1>1, Inductive, PTL

(* a new run.passed event is written by the callback that saw exit code 0 *)
LEMMA PassedLogged ==
  ASSUME TypeOK, ExitsKnown, [Next]_vars, NEW r \in Runs,
         "run.passed" \in SeqRange(events'[r]), "run.passed" \notin SeqRange(events[r])
  PROVE  exit[r] = "zero"
<1>1. ASSUME NEW w \in Workers, CompleteLog(w) PROVE exit[r] = "zero"
  <2>1. hpc[w] = "log" /\ Log(settling[w], VerdictEvent(w)) /\ VerdictEvent(w) \in EventTypes
    BY <1>1, LoggedTypes DEF CompleteLog, HandlerStep
  <2>2. r = settling[w] /\ VerdictEvent(w) = "run.passed"
    <3>1. SeqRange(events'[r]) = IF r = settling[w]
                                   THEN SeqRange(events[r]) \cup {VerdictEvent(w)}
                                   ELSE SeqRange(events[r])
      BY <2>1, LogRange DEF TypeOK
    <3> QED
      BY <3>1
  <2>3. verdict[w] = "passed"
    BY <2>2 DEF VerdictEvent, FinalStatus
  <2> QED
    BY <2>2, <2>3 DEF ExitsKnown
<1>2. ASSUME NEW q, NEW type \in EventTypes \ {"run.passed"}, Log(q, type) PROVE FALSE
  <2>1. SeqRange(events'[r]) = IF r = q THEN SeqRange(events[r]) \cup {type}
                                        ELSE SeqRange(events[r])
    BY <1>2, LogRange DEF TypeOK
  <2> QED
    BY <2>1
<1>3. ASSUME NEW w \in Workers, Reconcile(w) PROVE FALSE
  <2>1. SeqRange(events'[r]) \subseteq SeqRange(events[r]) \cup {"run.reconciled"}
    BY <1>3, ReconcileRange
  <2> QED
    BY <2>1
<1>4. CASE UNCHANGED events
  BY <1>4
<1> QED
  BY <1>1, <1>2, <1>3, <1>4, EventSources

(***************************************************************************)
(* How a status column comes to be terminal.                               *)
(***************************************************************************)
LEMMA Settling ==
  ASSUME TypeOK, RequestsFresh, ExitsKnown, [Next]_vars, NEW r \in Runs,
         status'[r] \in Terminal, status'[r] # status[r]
  PROVE  /\ status[r] = "running"
         /\ \/ status'[r] = "passed" /\ exit[r] = "zero"
            \/ status'[r] = "failed" /\ exit[r] = "nonzero"
            \/ status'[r] = "failed" /\ "run.reconciled" \in SeqRange(events'[r])
<1>1. CASE (\E a \in Apis : ApiNext(a)) \/ Tick \/ UNCHANGED vars
  BY <1>1, ApiStatus DEF Terminal
<1>2. ASSUME NEW w \in Workers, Reconcile(w)
      PROVE  status[r] = "running" /\ status'[r] = "failed" /\ r \in stale[w]
  BY <1>2 DEF Reconcile, Reconciled, TypeOK
<1>3. ASSUME NEW w \in Workers, CompleteWrite(w)
      PROVE  /\ status[r] = "running"
             /\ status'[r] = IF exit[r] = "zero" THEN "passed" ELSE "failed"
             /\ exit[r] \in {"zero", "nonzero"}
  <2>1. hpc[w] = "write" /\ status' = Completed(w)
    BY <1>3 DEF CompleteWrite, HandlerStep
  <2>2. r = settling[w] /\ status[r] = "running" /\ status'[r] = FinalStatus(w)
    BY <2>1 DEF Completed, TypeOK
  <2> QED
    BY <2>2 DEF ExitsKnown, FinalStatus
<1>4. ASSUME NEW w \in Workers, LoopNext(w) \/ HandlerNext(w) \/ Crash(w),
             ~Reconcile(w), ~CompleteWrite(w)
      PROVE  FALSE
  <2>1. CASE Claim(w)
    <3>1. PICK q \in Runs : status' = [status EXCEPT ![q] = "running"]
      BY <2>1 DEF Claim
    <3> QED
      BY <3>1 DEF TypeOK, Terminal
  <2>2. CASE ~Claim(w)
    <3>1. UNCHANGED status
      BY <1>4, <2>2 DEF LoopNext, HandlerNext, Crash, WorkerStart, SelectStale, StartupThrows,
                Launch, SpawnError, ExecuteThrows, Heartbeat, ChildClose, LateClose,
                CompleteRead, CompleteLog, NoteSpawnError, HandlerThrows, Finalize,
                FinalizeThrows, Return, dbVars
    <3> QED
      BY <3>1
  <2> QED
    BY <2>1, <2>2
<1> QED
  BY <1>1, <1>2, <1>3, <1>4, ReconcileRange DEF Next

(* A run recorded as passed, or with a run.passed event, exited with 0.    *)
THEOREM PassesAreEarned == Spec => []PassIsEarned
<1>1. Init => PassIsEarned
  BY DEF Init, PassIsEarned, Logged, SeqRange
<1>2. IndInv /\ PassIsEarned /\ [Next]_vars => PassIsEarned'
  <2> SUFFICES ASSUME IndInv, PassIsEarned, [Next]_vars, NEW r \in Runs,
                      status'[r] = "passed" \/ "run.passed" \in SeqRange(events'[r])
               PROVE  exit'[r] = "zero"
    BY DEF PassIsEarned, Logged
  <2>1. exit[r] = "zero"
    BY Settling, PassedLogged DEF PassIsEarned, Logged, Terminal, IndInv
  <2> QED
    BY <2>1, ExitChange DEF IndInv
<1> QED
  BY <1>1, <1>2, Inductive, PTL DEF Spec

(* A run recorded as failed did not succeed, or was written off by the     *)
(* reconciliation, with its event.                                         *)
THEOREM FailuresHaveCauses == Spec => []FailureHasCause
<1>1. Init => FailureHasCause
  BY DEF Init, FailureHasCause
<1>2. IndInv /\ FailureHasCause /\ [Next]_vars => FailureHasCause'
  <2> SUFFICES ASSUME IndInv, FailureHasCause, [Next]_vars, NEW r \in Runs,
                      status'[r] = "failed"
               PROVE  exit'[r] = "nonzero" \/ "run.reconciled" \in SeqRange(events'[r])
    BY DEF FailureHasCause, Logged
  <2>1. exit[r] = "nonzero" => exit'[r] = "nonzero"
    BY ExitChange DEF IndInv
  <2>2. CASE status[r] = "failed"
    BY <2>1, <2>2, EventsGrow DEF FailureHasCause, Logged, IndInv
  <2>3. CASE status[r] # "failed"
    BY <2>1, <2>3, Settling DEF Terminal, IndInv
  <2> QED
    BY <2>2, <2>3
<1> QED
  BY <1>1, <1>2, Inductive, PTL DEF Spec

(* No step changes the status of a terminal row.                           *)
THEOREM TerminalStays == Spec => TerminalIsFinal
<1>1. IndInv /\ [Next]_vars =>
        [\A r \in Runs : status[r] \in Terminal => status'[r] = status[r]]_vars
  <2> SUFFICES ASSUME IndInv, [Next]_vars, NEW r \in Runs,
                      status[r] \in Terminal, status'[r] # status[r]
               PROVE  FALSE
    OBVIOUS
  <2>1. CASE (\E a \in Apis : ApiNext(a)) \/ Tick \/ UNCHANGED vars
    BY <2>1, ApiStatus DEF IndInv, Terminal
  <2>2. ASSUME NEW w \in Workers, LoopNext(w) \/ HandlerNext(w) \/ Crash(w) PROVE FALSE
    BY <2>2, WorkerStatus DEF IndInv, Terminal
  <2> QED
    BY <2>1, <2>2 DEF Next
<1> QED
  BY <1>1, Inductive, PTL DEF Spec, TerminalIsFinal

(***************************************************************************)
(* A run has one verdict, an owner while it runs, and a settled row before *)
(* its result map.                                                         *)
(***************************************************************************)
VerdictTypes == {"run.passed", "run.failed"}

(* at most one element of a sequence is a verdict *)
OneVerdict(s) == \A i, j \in DOMAIN s : {s[i], s[j]} \subseteq VerdictTypes => i = j

(* appending keeps that, if there was no verdict or none is appended *)
LEMMA AppendVerdict ==
  ASSUME NEW s \in Seq(EventTypes), NEW e \in EventTypes, OneVerdict(s),
         e \in VerdictTypes => SeqRange(s) \cap VerdictTypes = {}
  PROVE  OneVerdict(Append(s, e))
<1>1. /\ DOMAIN Append(s, e) = 1..(Len(s) + 1) /\ DOMAIN s = 1..Len(s)
      /\ \A i \in 1..Len(s) : Append(s, e)[i] = s[i]
      /\ Append(s, e)[Len(s) + 1] = e
      /\ Len(s) \in Nat
  OBVIOUS
<1> SUFFICES ASSUME NEW i \in 1..(Len(s) + 1), NEW j \in 1..(Len(s) + 1),
                    Append(s, e)[i] \in VerdictTypes, Append(s, e)[j] \in VerdictTypes
             PROVE  i = j
  BY <1>1 DEF OneVerdict
<1>2. CASE i \in 1..Len(s) /\ j \in 1..Len(s)
  BY <1>1, <1>2 DEF OneVerdict
<1>3. ASSUME NEW k \in 1..Len(s), s[k] \in VerdictTypes, e \in VerdictTypes PROVE FALSE
  BY <1>1, <1>3 DEF SeqRange
<1>4. CASE i = Len(s) + 1 \/ j = Len(s) + 1
  BY <1>1, <1>3, <1>4
<1> QED
  BY <1>1, <1>2, <1>4

(* an appended event keeps every run's verdict single *)
LEMMA LogVerdict ==
  ASSUME TypeOK, NEW q, NEW type \in EventTypes, Log(q, type), NEW r \in Runs,
         OneVerdict(events[r]),
         type \in VerdictTypes /\ q = r => SeqRange(events[r]) \cap VerdictTypes = {}
  PROVE  OneVerdict(events'[r])
<1>1. events[r] \in Seq(EventTypes)
  BY DEF TypeOK
<1>2. CASE q = r
  <2>1. events'[r] = Append(events[r], type)
    BY <1>2 DEF Log, TypeOK
  <2> QED
    BY <1>1, <1>2, <2>1, AppendVerdict
<1>3. CASE q # r
  BY <1>3 DEF Log, TypeOK
<1> QED
  BY <1>2, <1>3

(* A run gets at most one run.passed or run.failed event, also after the   *)
(* two callbacks of a failed spawn, throws, crashes and reconciliations.   *)
THEOREM VerdictsAreSingle == Spec => []SingleVerdict
<1>1. SingleVerdict <=> \A r \in Runs : OneVerdict(events[r])
  BY DEF SingleVerdict, OneVerdict, VerdictTypes
<1>2. Init => SingleVerdict
  BY DEF Init, SingleVerdict
<1>3. IndInv /\ SingleVerdict /\ [Next]_vars => SingleVerdict'
  <2> SUFFICES ASSUME IndInv, [Next]_vars, NEW r \in Runs, OneVerdict(events[r])
               PROVE  OneVerdict(events'[r])
    BY <1>1 DEF SingleVerdict, OneVerdict, VerdictTypes
  <2>1. TypeOK
    BY DEF IndInv
  <2>2. ASSUME NEW w \in Workers, CompleteLog(w) PROVE OneVerdict(events'[r])
    <3>1. hpc[w] = "log" /\ Log(settling[w], VerdictEvent(w)) /\ VerdictEvent(w) \in EventTypes
      BY <2>2, LoggedTypes DEF CompleteLog, HandlerStep
    <3>2. ~HasVerdict(settling[w])
      BY <3>1 DEF IndInv, SettledByOne
    <3>3. settling[w] = r => SeqRange(events[r]) \cap VerdictTypes = {}
      BY <3>2 DEF HasVerdict, Logged, VerdictTypes
    <3> QED
      BY <2>1, <3>1, <3>3, LogVerdict
  <2>3. ASSUME NEW w \in Workers, Reconcile(w) PROVE OneVerdict(events'[r])
    <3>1. events'[r] = events[r] \/ events'[r] = Append(events[r], "run.reconciled")
      BY <2>3 DEF Reconcile
    <3>2. events[r] \in Seq(EventTypes) /\ "run.reconciled" \in EventTypes \ VerdictTypes
      BY <2>1 DEF TypeOK, EventTypes, VerdictTypes
    <3> QED
      BY <3>1, <3>2, AppendVerdict
  <2>4. ASSUME NEW q, NEW type \in EventTypes \ VerdictTypes, Log(q, type)
        PROVE  OneVerdict(events'[r])
    BY <2>1, <2>4, LogVerdict
  <2>5. CASE UNCHANGED events
    BY <2>5
  <2> QED
    BY <2>2, <2>3, <2>4, <2>5, EventSources DEF VerdictTypes
<1> QED
  BY <1>2, <1>3, Inductive, PTL DEF Spec

(* While nothing has thrown or died, a worker lets go of a run only in the *)
(* last step of the callback that settled it.                              *)
LEMMA OwnsKept ==
  ASSUME TypeOK, JobsHeld, ExitsKnown, [Next]_vars, failures' = 0, crashes' = 0,
         NEW w \in Workers, NEW r \in Runs, Owns(w, r), ~Owns(w, r)'
  PROVE  Finalize(w) /\ settling[w] = r
<1> USE DEF Owns, TypeOK
<1>0. failures = 0 /\ crashes = 0
  BY BudgetsSpent
<1>1. CASE (\E a \in Apis : ApiNext(a)) \/ Tick \/ UNCHANGED vars
  BY <1>1, ApiWorkers DEF loopVars, handlerVars
<1>2. ASSUME NEW v \in Workers, Claim(v) PROVE FALSE
  <2>1. PICK q \in Runs :
          /\ pc[v] = "idle" /\ job' = [job EXCEPT ![v] = q] /\ UNCHANGED settling
    BY <1>2 DEF Claim, LoopStep, handlerVars
  <2>2. job[v] = NoRun
    BY <2>1 DEF JobsHeld
  <2> QED
    BY <2>1, <2>2, QueueAssumption
<1>3. ASSUME NEW v \in Workers,
             LateClose(v) \/ \E code \in {"zero", "nonzero"} : ChildClose(v, code)
      PROVE  FALSE
  <2>1. /\ hpc[v] = "none" /\ UNCHANGED job
        /\ \E q : settling' = [settling EXCEPT ![v] = q]
    BY <1>3 DEF LateClose, ChildClose, loopVars
  <2>2. settling[v] = NoRun
    BY <2>1 DEF ExitsKnown
  <2> QED
    BY <2>1, <2>2, QueueAssumption
<1>4. ASSUME NEW v \in Workers, Finalize(v) PROVE v = w /\ settling[w] = r
  <2>1. /\ settling' = [settling EXCEPT ![v] = NoRun]
        /\ IF settling[v] = job[v] THEN job' = [job EXCEPT ![v] = NoRun] ELSE UNCHANGED job
    BY <1>4 DEF Finalize, Return
  <2> QED
    BY <2>1
<1>5. ASSUME NEW v \in Workers, LoopNext(v) \/ HandlerNext(v) \/ Crash(v),
             ~Claim(v), ~LateClose(v), ~Finalize(v),
             ~\E code \in {"zero", "nonzero"} : ChildClose(v, code)
      PROVE  UNCHANGED <<job, settling>>
  <2>1. ~Throws /\ ~Crash(v)
    BY <1>0 DEF Throws, Crash
  <2> QED
    BY <1>5, <2>1 DEF LoopNext, HandlerNext, WorkerStart, SelectStale, Reconcile,
          StartupThrows, Launch, SpawnError, ExecuteThrows, Heartbeat, CompleteRead,
          CompleteWrite, CompleteLog, NoteSpawnError, HandlerThrows, FinalizeThrows,
          loopVars, handlerVars
<1> QED
  BY <1>1, <1>2, <1>3, <1>4, <1>5 DEF Next

(* While nothing has thrown or died, a running row is in the hands of a    *)
(* worker.                                                                 *)
THEOREM RunningRunsAreOwned == Spec => []RunningHasOwner
<1>1. Init => RunningHasOwner
  BY DEF Init, RunningHasOwner
<1>2. IndInv /\ RunningHasOwner /\ [Next]_vars => RunningHasOwner'
  <2> SUFFICES ASSUME IndInv, RunningHasOwner, [Next]_vars, failures' = 0, crashes' = 0,
                      NEW r \in Runs, status'[r] = "running"
               PROVE  \E w \in Workers : Owns(w, r)'
    BY DEF RunningHasOwner
  <2>1. failures = 0 /\ crashes = 0
    BY BudgetsSpent DEF IndInv
  <2>2. CASE status[r] = "running"
    <3>1. PICK w \in Workers : Owns(w, r)
      BY <2>1, <2>2 DEF RunningHasOwner
    <3>2. ASSUME Finalize(w), settling[w] = r PROVE FALSE
      <4>1. hpc[w] = "finalize"
        BY <3>2 DEF Finalize, Return, HandlerStep
      <4> QED
        BY <2>1, <2>2, <3>2, <4>1 DEF IndInv, SettledByOne, Terminal
    <3> QED
      BY <3>1, <3>2, OwnsKept DEF IndInv
  <2>3. CASE status[r] # "running"
    <3>1. PICK w \in Workers : Claim(w)
      <4>1. CASE (\E a \in Apis : ApiNext(a)) \/ Tick \/ UNCHANGED vars
        BY <2>3, <4>1, ApiStatus DEF IndInv
      <4>2. ASSUME NEW w \in Workers, LoopNext(w) \/ HandlerNext(w) \/ Crash(w) PROVE Claim(w)
        BY <2>3, <4>2, WorkerStatus DEF IndInv, Terminal
      <4> QED
        BY <4>1, <4>2 DEF Next
    <3>2. PICK q \in Runs : /\ status' = [status EXCEPT ![q] = "running"]
                             /\ job' = [job EXCEPT ![w] = q]
      BY <3>1 DEF Claim
    <3>3. q = r /\ job'[w] = r
      BY <2>3, <3>2 DEF IndInv, TypeOK
    <3> QED
      BY <3>3 DEF Owns
  <2> QED
    BY <2>2, <2>3
<1> QED
  BY <1>1, <1>2, Inductive, PTL DEF Spec

(* While nothing has thrown, a result map is written for settled runs      *)
(* only.                                                                   *)
THEOREM FinalizedRunsAreSettled == Spec => []SettledBeforeFinalized
<1>1. Init => SettledBeforeFinalized
  BY DEF Init, SettledBeforeFinalized
<1>2. IndInv /\ SettledBeforeFinalized /\ [Next]_vars => SettledBeforeFinalized'
  <2> SUFFICES ASSUME IndInv, SettledBeforeFinalized, [Next]_vars, failures' = 0,
                      NEW r \in Runs, "result" \in files'[r]
               PROVE  status'[r] \in Terminal
    BY DEF SettledBeforeFinalized
  <2>1. failures = 0
    BY BudgetsSpent DEF IndInv
  <2>2. CASE "result" \in files[r]
    BY <2>1, <2>2, TerminalKept DEF SettledBeforeFinalized, IndInv
  <2>3. CASE "result" \notin files[r]
    <3>1. PICK w \in Workers : Finalize(w) /\ settling[w] = r
      <4>1. ASSUME NEW a \in Apis, ApiNext(a) PROVE "result" \notin files'[r]
        <5>1. CASE ApiSkeleton(a)
          BY <2>3, <5>1 DEF ApiSkeleton, IndInv, TypeOK
        <5>2. CASE ~ApiSkeleton(a)
          BY <2>3, <4>1, <5>2 DEF ApiNext, ApiRequest, ApiInsert, ApiLogQueued, ApiAudit,
                                  ApiError, dbVars
        <5> QED
          BY <5>1, <5>2
      <4>2. ASSUME NEW w \in Workers, Finalize(w) PROVE settling[w] = r
        BY <2>3, <4>2 DEF Finalize, IndInv, TypeOK
      <4>3. ASSUME NEW w \in Workers, LoopNext(w) \/ HandlerNext(w) \/ Crash(w), ~Finalize(w)
            PROVE  UNCHANGED files
        BY <4>3 DEF LoopNext, HandlerNext, Crash, WorkerStart, SelectStale, Reconcile,
              StartupThrows, Claim, Launch, SpawnError, ExecuteThrows, Heartbeat, ChildClose,
              LateClose, CompleteRead, CompleteWrite, CompleteLog, NoteSpawnError,
              HandlerThrows, FinalizeThrows, dbVars
      <4>4. ASSUME Tick \/ UNCHANGED vars PROVE UNCHANGED files
        BY <4>4 DEF Tick, vars, dbVars
      <4> QED
        BY <2>3, <4>1, <4>2, <4>3, <4>4 DEF Next
    <3>2. hpc[w] = "finalize"
      BY <3>1 DEF Finalize, Return, HandlerStep
    <3>3. status[r] \in Terminal
      BY <2>1, <3>1, <3>2 DEF IndInv, SettledByOne
    <3> QED
      BY <3>3, TerminalKept DEF IndInv
  <2> QED
    BY <2>2, <2>3
<1> QED
  BY <1>1, <1>2, Inductive, PTL DEF Spec

(***************************************************************************)
(* The queue implements the run life cycle.                                *)
(***************************************************************************)
LEMMA LifecycleStep ==
  ASSUME IndInv, [Next]_vars
  PROVE  [Lifecycle!Next]_Lifecycle!vars
<1> USE DEF IndInv
<1>1. CASE (\E a \in Apis : ApiNext(a)) \/ Tick \/ UNCHANGED vars
  <2>1. UNCHANGED <<launches, exit>>
    BY <1>1, ApiWorkers DEF childVars
  <2>2. CASE \E a \in Apis : ApiInsert(a)
    <3>1. PICK a \in Apis : ApiInsert(a)
      BY <2>2
    <3>2. /\ req[a] \in Runs /\ status[req[a]] = "none"
          /\ status' = [status EXCEPT ![req[a]] = "queued"]
      <4>1. /\ apc[a] = "insert" /\ status' = [status EXCEPT ![req[a]] = "queued"]
            /\ req[a] \in SeqRange(created) /\ status[req[a]] = "none"
        BY <3>1 DEF ApiInsert, ApiStep, RequestsFresh
      <4>2. SeqRange(created) \subseteq Runs
        BY DEF TypeOK, SeqRange
      <4> QED
        BY <4>1, <4>2
    <3>3. Lifecycle!Submit(req[a])
      BY <2>1, <3>2 DEF Lifecycle!Submit, Lifecycle!Move
    <3> QED
      BY <3>2, <3>3 DEF Lifecycle!Next
  <2>3. CASE ~\E a \in Apis : ApiInsert(a)
    <3>1. UNCHANGED status
      BY <1>1, <2>3 DEF ApiNext, ApiRequest, ApiLogQueued, ApiSkeleton, ApiAudit, ApiError,
                Tick, vars, dbVars
    <3> QED
      BY <2>1, <3>1 DEF Lifecycle!vars
  <2> QED
    BY <2>2, <2>3
<1>2. ASSUME NEW w \in Workers, Claim(w) PROVE Lifecycle!Next
  <2>1. PICK r \in Runs :
          /\ status[r] = "queued" /\ status' = [status EXCEPT ![r] = "running"]
          /\ UNCHANGED <<launches, exit>>
    BY <1>2 DEF Claim, OldestQueued, childVars
  <2> QED
    BY <2>1 DEF Lifecycle!Next, Lifecycle!Claim, Lifecycle!Move
<1>3. ASSUME NEW w \in Workers, Launch(w) \/ SpawnError(w) PROVE Lifecycle!Next
  <2>1. /\ pc[w] = "claimed"
        /\ launches' = [launches EXCEPT ![job[w]] = @ + 1]
        /\ \E c \in {"alive", "nonzero"} : exit' = [exit EXCEPT ![job[w]] = c]
        /\ UNCHANGED status
    BY <1>3, Launching
  <2>2. job[w] \in Runs /\ launches[job[w]] = 0 /\ status[job[w]] \notin {"none", "queued"}
    BY <2>1 DEF JobsHeld, LaunchesOwned
  <2>3. launches' = [launches EXCEPT ![job[w]] = 1]
    BY <2>1, <2>2
  <2> QED
    BY <2>1, <2>2, <2>3 DEF Lifecycle!Next, Lifecycle!Launch
<1>4. ASSUME NEW w \in Workers, NEW code \in {"zero", "nonzero"}, ChildClose(w, code)
      PROVE  Lifecycle!Next
  <2>1. /\ pc[w] = "exec" /\ hpc[w] = "none" /\ exit' = [exit EXCEPT ![job[w]] = code]
        /\ UNCHANGED <<status, launches>>
    BY <1>4 DEF ChildClose, dbVars
  <2>2. job[w] \in Runs /\ exit[job[w]] = "alive"
    BY <2>1, QueueAssumption DEF JobsHeld, ExitsKnown
  <2> QED
    BY <2>1, <2>2 DEF Lifecycle!Next, Lifecycle!Exit
<1>5. ASSUME NEW w \in Workers, CompleteWrite(w) PROVE [Lifecycle!Next]_Lifecycle!vars
  <2>1. /\ hpc[w] = "write" /\ status' = Completed(w) /\ UNCHANGED <<launches, exit>>
    BY <1>5 DEF CompleteWrite, HandlerStep, childVars
  <2>2. settling[w] \in Runs
    BY <2>1 DEF ExitsKnown
  <2>3. CASE status[settling[w]] # "running"
    BY <2>1, <2>3 DEF Completed, Lifecycle!vars
  <2>4. CASE status[settling[w]] = "running" /\ verdict[w] = "passed"
    <3>1. exit[settling[w]] = "zero" /\ status' = [status EXCEPT ![settling[w]] = "passed"]
      BY <2>1, <2>2, <2>4 DEF ExitsKnown, Completed, FinalStatus
    <3> QED
      BY <2>1, <2>2, <2>4, <3>1 DEF Lifecycle!Next, Lifecycle!Pass, Lifecycle!Move
  <2>5. CASE status[settling[w]] = "running" /\ verdict[w] # "passed"
    <3>1. status' = [status EXCEPT ![settling[w]] = "failed"]
      BY <2>1, <2>5 DEF Completed, FinalStatus
    <3>2. Lifecycle!Fail({settling[w]})
      BY <2>1, <2>2, <2>5, <3>1 DEF Lifecycle!Fail, TypeOK
    <3> QED
      BY <2>2, <3>2 DEF Lifecycle!Next
  <2> QED
    BY <2>3, <2>4, <2>5
<1>6. ASSUME NEW w \in Workers, Reconcile(w) PROVE [Lifecycle!Next]_Lifecycle!vars
  <2> DEFINE S == {r \in stale[w] : status[r] = "running"}
  <2>1. status' = Reconciled(stale[w]) /\ UNCHANGED <<launches, exit>>
    BY <1>6 DEF Reconcile, childVars
  <2>2. S \in SUBSET Runs
    BY DEF TypeOK
  <2>3. status' = [r \in Runs |-> IF r \in S THEN "failed" ELSE status[r]]
    BY <2>1 DEF Reconciled
  <2>4. CASE S = {}
    BY <2>1, <2>3, <2>4 DEF Lifecycle!vars, TypeOK
  <2>5. CASE S # {}
    <3>1. Lifecycle!Fail(S)
      BY <2>1, <2>3, <2>5 DEF Lifecycle!Fail
    <3> QED
      BY <2>2, <3>1 DEF Lifecycle!Next
  <2> QED
    BY <2>4, <2>5
<1>7. ASSUME NEW w \in Workers, LoopNext(w) \/ HandlerNext(w) \/ Crash(w),
             ~Claim(w), ~(Launch(w) \/ SpawnError(w)), ~CompleteWrite(w), ~Reconcile(w),
             ~\E code \in {"zero", "nonzero"} : ChildClose(w, code)
      PROVE  UNCHANGED Lifecycle!vars
  BY <1>7, LettingGo, WorkerExit, WorkerStatus
     DEF LoopNext, HandlerNext, Crash, WorkerStart, SelectStale, StartupThrows,
         ExecuteThrows, Heartbeat, LateClose, CompleteRead, CompleteLog, NoteSpawnError,
         HandlerThrows, Finalize, FinalizeThrows, Return, dbVars, Lifecycle!vars
<1> QED
  BY <1>1, <1>2, <1>3, <1>4, <1>5, <1>6, <1>7 DEF Next

(* The events of every run tell its life in the order it had, whatever     *)
(* processes interleave, throw, die or reconcile between the INSERTs.      *)
THEOREM EventsTellTheLife == Spec => []LogInOrder
<1>1. IndInv => LogInOrder
  BY DEF IndInv
<1> QED
  BY <1>1, Inductive, PTL

(* The run queue, with its processes, statements, faults and restarts,     *)
(* implements the life cycle the control plane promises for a run.         *)
THEOREM QueueImplementsLifecycle == Spec => ImplementsLifecycle
<1>1. Init => Lifecycle!Init
  BY DEF Init, Lifecycle!Init
<1> QED
  BY <1>1, LifecycleStep, Inductive, PTL DEF Spec, ImplementsLifecycle, Lifecycle!Spec
=============================================================================
