------------------------------ MODULE RunQueue ------------------------------
(***************************************************************************)
(* The run queue of the control plane: API processes that enqueue runs     *)
(* (api/server.mjs queueRun), worker processes that claim, execute and     *)
(* complete them (worker/worker.mjs), and the SQLite tables they share     *)
(* (lib/repository.mjs).  A step is one SQL statement, one transaction or  *)
(* one callback: what other processes can see between is in the model.     *)
(* An operator introduced as a "slip" is the definition after it with a    *)
(* mistake in it; the behaviours never use it.                             *)
(*                                                                         *)
(* A worker is single threaded.  pc is where its polling loop stands, hpc  *)
(* where the child-process callback it is in stands; no other callback of  *)
(* that worker runs until hpc is "none" again.                             *)
(***************************************************************************)
EXTENDS Naturals, Sequences

CONSTANTS
  Runs,          \* run identifiers; every POST /runs/... makes a fresh one
  Apis,          \* API server processes
  Workers,       \* worker processes
  NoRun,         \* "no run"
  Timeout,       \* staleRunTimeoutMs, in ticks
  MaxFailures,   \* bound: statements or file operations that throw
  MaxCrashes     \* bound: worker processes that die

ASSUME QueueAssumption ==
  /\ NoRun \notin Runs
  /\ Timeout \in Nat /\ MaxFailures \in Nat /\ MaxCrashes \in Nat

VARIABLES
  \* the database and the run directories
  status,    \* runs.status, "none" while the row does not exist
  created,   \* run ids in the order of their created_at
  beatAge,   \* now - runs.heartbeat_at of a running row, capped at Timeout + 1
  events,    \* run_events of each run, in insertion order
  files,     \* what the run directory holds: "skeleton", "result"
  \* the API processes
  apc,       \* where the handler of an API process stands
  req,       \* the run it is creating
  reply,     \* what the client of each run's request was told
  \* the worker processes
  pc, job,   \* polling loop, and the run whose executeRun it awaits
  stale,     \* the stale runs selected by the startup reconciliation
  hpc,       \* the callback in progress
  settling,  \* the run that callback completes
  verdict,   \* what the callback has to record
  late,      \* runs whose spawn failed and whose 'close' is still to come
  \* what happened to the commands, and the spent fault budget
  launches, exit, failures, crashes

dbVars     == <<status, created, beatAge, events, files>>
apiVars    == <<apc, req, reply>>
loopVars   == <<pc, job, stale>>
handlerVars == <<hpc, settling, verdict, late>>
childVars  == <<launches, exit>>
faultVars  == <<failures, crashes>>
vars == <<dbVars, apiVars, loopVars, handlerVars, childVars, faultVars>>

Terminal == {"passed", "failed"}
EventTypes ==
  {"run.queued", "audit.trigger", "run.started", "run.exec", "run.passed",
   "run.failed", "run.error", "run.reconciled", "artifacts.finalize_failed"}

TypeOK ==
  /\ status \in [Runs -> {"none", "queued", "running"} \cup Terminal]
  /\ created \in Seq(Runs)
  /\ beatAge \in [Runs -> 0..(Timeout + 1)]
  /\ events \in [Runs -> Seq(EventTypes)]
  /\ files \in [Runs -> SUBSET {"skeleton", "result"}]
  /\ apc \in [Apis -> {"idle", "insert", "log", "skeleton", "audit"}]
  /\ req \in [Apis -> Runs \cup {NoRun}]
  /\ reply \in [Runs -> {"none", "accepted", "error"}]
  /\ pc \in [Workers -> {"down", "boot", "reconcile", "idle", "claimed", "exec"}]
  /\ job \in [Workers -> Runs \cup {NoRun}]
  /\ stale \in [Workers -> SUBSET Runs]
  /\ hpc \in [Workers -> {"none", "read", "write", "log", "note", "finalize"}]
  /\ settling \in [Workers -> Runs \cup {NoRun}]
  /\ verdict \in [Workers -> {"none", "passed", "failed", "spawn_error"}]
  /\ late \in [Workers -> SUBSET Runs]
  /\ launches \in [Runs -> Nat]
  /\ exit \in [Runs -> {"none", "alive", "zero", "nonzero"}]
  /\ failures \in 0..MaxFailures
  /\ crashes \in 0..MaxCrashes

Init ==
  /\ status = [r \in Runs |-> "none"]
  /\ created = <<>>
  /\ beatAge = [r \in Runs |-> 0]
  /\ events = [r \in Runs |-> <<>>]
  /\ files = [r \in Runs |-> {}]
  /\ apc = [a \in Apis |-> "idle"]
  /\ req = [a \in Apis |-> NoRun]
  /\ reply = [r \in Runs |-> "none"]
  /\ pc = [w \in Workers |-> "down"]
  /\ job = [w \in Workers |-> NoRun]
  /\ stale = [w \in Workers |-> {}]
  /\ hpc = [w \in Workers |-> "none"]
  /\ settling = [w \in Workers |-> NoRun]
  /\ verdict = [w \in Workers |-> "none"]
  /\ late = [w \in Workers |-> {}]
  /\ launches = [r \in Runs |-> 0]
  /\ exit = [r \in Runs |-> "none"]
  /\ failures = 0
  /\ crashes = 0

-----------------------------------------------------------------------------
(* Helpers *)

SeqRange(s) == {s[i] : i \in DOMAIN s}

(* appendEvent: one INSERT into run_events *)
Log(r, type) == events' = [events EXCEPT ![r] = Append(@, type)]

(* A statement throws (SQLITE_BUSY: no busy timeout is set) or a file      *)
(* operation does.                                                         *)
Throws == failures < MaxFailures /\ failures' = failures + 1

(* slip: the oldest row, whatever its status *)
OldestOfAll(r) == created # <<>> /\ r = created[1] /\ status[r] # "none"

(* The row ORDER BY created_at ASC LIMIT 1 picks among the queued ones.    *)
OldestQueued(r) ==
  /\ status[r] = "queued"
  /\ \E i \in DOMAIN created :
       /\ created[i] = r
       /\ \A j \in DOMAIN created : status[created[j]] = "queued" => i <= j

-----------------------------------------------------------------------------
(* API process: queueRun, createQueuedRun *)

ApiStep(a, from, to) == apc[a] = from /\ apc' = [apc EXCEPT ![a] = to]

(* buildRunRequest makes a new id, createQueuedRun takes created_at = now  *)
ApiRequest(a) ==
  \E r \in Runs \ SeqRange(created) :
    /\ ApiStep(a, "idle", "insert")
    /\ req' = [req EXCEPT ![a] = r]
    /\ created' = Append(created, r)
    /\ UNCHANGED <<status, beatAge, events, files, reply>>
    /\ UNCHANGED <<loopVars, handlerVars, childVars, faultVars>>

(* INSERT INTO runs ... 'queued': from here on a worker may claim the run *)
ApiInsert(a) ==
  /\ ApiStep(a, "insert", "log")
  /\ status' = [status EXCEPT ![req[a]] = "queued"]
  /\ UNCHANGED <<created, beatAge, events, files, req, reply>>
  /\ UNCHANGED <<loopVars, handlerVars, childVars, faultVars>>

ApiLogQueued(a) ==
  /\ ApiStep(a, "log", "skeleton")
  /\ Log(req[a], "run.queued")
  /\ UNCHANGED <<status, created, beatAge, files, req, reply>>
  /\ UNCHANGED <<loopVars, handlerVars, childVars, faultVars>>

(* createRunArtifactSkeleton: metadata.json and pointers.json *)
ApiSkeleton(a) ==
  /\ ApiStep(a, "skeleton", "audit")
  /\ files' = [files EXCEPT ![req[a]] = @ \cup {"skeleton"}]
  /\ UNCHANGED <<status, created, beatAge, events, req, reply>>
  /\ UNCHANGED <<loopVars, handlerVars, childVars, faultVars>>

(* the audit event, then 202 with the run *)
ApiAudit(a) ==
  /\ ApiStep(a, "audit", "idle")
  /\ Log(req[a], "audit.trigger")
  /\ reply' = [reply EXCEPT ![req[a]] = "accepted"]
  /\ req' = [req EXCEPT ![a] = NoRun]
  /\ UNCHANGED <<status, created, beatAge, files>>
  /\ UNCHANGED <<loopVars, handlerVars, childVars, faultVars>>

(* any of these statements throws: 500, and nothing is taken back; or the  *)
(* process dies, which for the client is an error as well                  *)
ApiError(a) ==
  /\ apc[a] # "idle"
  /\ Throws
  /\ apc' = [apc EXCEPT ![a] = "idle"]
  /\ reply' = [reply EXCEPT ![req[a]] = "error"]
  /\ req' = [req EXCEPT ![a] = NoRun]
  /\ UNCHANGED <<dbVars, loopVars, handlerVars, childVars, crashes>>

-----------------------------------------------------------------------------
(* Worker startup: reconcileStaleRunningRuns, once, before the first poll *)

LoopStep(w, from, to) ==
  /\ pc[w] = from /\ hpc[w] = "none"
  /\ pc' = [pc EXCEPT ![w] = to]

WorkerStart(w) ==
  /\ LoopStep(w, "down", "boot")
  /\ UNCHANGED <<dbVars, apiVars, job, stale, handlerVars, childVars, faultVars>>

IsStale(r) == status[r] = "running" /\ beatAge[r] > Timeout

(* slip: a worker that has nothing to reconcile never starts to poll *)
SelectSomeStale(w) ==
  LET S == {r \in Runs : IsStale(r)} IN
  /\ S # {}
  /\ LoopStep(w, "boot", "reconcile")
  /\ stale' = [stale EXCEPT ![w] = S]
  /\ UNCHANGED <<dbVars, apiVars, job, handlerVars, childVars, faultVars>>

(* the SELECT, outside of the transaction that follows *)
SelectStale(w) ==
  LET S == {r \in Runs : IsStale(r)} IN
  /\ LoopStep(w, "boot", IF S = {} THEN "idle" ELSE "reconcile")
  /\ stale' = [stale EXCEPT ![w] = S]
  /\ UNCHANGED <<dbVars, apiVars, job, handlerVars, childVars, faultVars>>

(* slips: back to the queue, no status guard, the first row only *)
Requeued(S) ==
  [r \in Runs |-> IF r \in S /\ status[r] = "running" THEN "queued" ELSE status[r]]
AllReconciled(S) == [r \in Runs |-> IF r \in S THEN "failed" ELSE status[r]]
FirstReconciled(S) ==
  [status EXCEPT ![CHOOSE r \in S : TRUE] = IF @ = "running" THEN "failed" ELSE @]

(* what the reconciling UPDATE (WHERE id=? AND status='running') leaves *)
Reconciled(S) ==
  [r \in Runs |-> IF r \in S /\ status[r] = "running" THEN "failed" ELSE status[r]]

Reconcile(w) ==
  /\ LoopStep(w, "reconcile", "idle")
  /\ status' = Reconciled(stale[w])
  /\ beatAge' = [r \in Runs |-> IF status[r] # status'[r] THEN 0 ELSE beatAge[r]]
  /\ events' = [r \in Runs |-> IF r \in stale[w]
                                 THEN Append(events[r], "run.reconciled")
                                 ELSE events[r]]
  /\ stale' = [stale EXCEPT ![w] = {}]
  /\ UNCHANGED <<created, files, apiVars, job, handlerVars, childVars, faultVars>>

(* a throw at module level ends the process: openDb, the SELECT, or the    *)
(* transaction, which rolls back                                           *)
StartupThrows(w) ==
  /\ LoopStep(w, "boot", "down") \/ LoopStep(w, "reconcile", "down")
  /\ Throws
  /\ stale' = [stale EXCEPT ![w] = {}]
  /\ UNCHANGED <<dbVars, apiVars, job, handlerVars, childVars, crashes>>

-----------------------------------------------------------------------------
(* Worker loop: claimNextQueuedRun and executeRun up to its await *)

(* one IMMEDIATE transaction: SELECT, guarded UPDATE, run.started *)
Claim(w) ==
  \E r \in Runs :
    /\ OldestQueued(r)
    /\ LoopStep(w, "idle", "claimed")
    /\ job' = [job EXCEPT ![w] = r]
    /\ status' = [status EXCEPT ![r] = "running"]
    /\ beatAge' = [beatAge EXCEPT ![r] = 0]
    /\ Log(r, "run.started")
    /\ UNCHANGED <<created, files, apiVars, stale, handlerVars, childVars, faultVars>>

(* run.exec is logged and the command spawned; the heartbeat timer runs *)
Launch(w) ==
  /\ LoopStep(w, "claimed", "exec")
  /\ Log(job[w], "run.exec")
  /\ launches' = [launches EXCEPT ![job[w]] = @ + 1]
  /\ exit' = [exit EXCEPT ![job[w]] = "alive"]
  /\ UNCHANGED <<status, created, beatAge, files>>
  /\ UNCHANGED <<apiVars, job, stale, handlerVars, faultVars>>

(* the command cannot be started: 'error' now, 'close' in a later turn *)
SpawnError(w) ==
  /\ LoopStep(w, "claimed", "exec")
  /\ Throws
  /\ Log(job[w], "run.exec")
  /\ launches' = [launches EXCEPT ![job[w]] = @ + 1]
  /\ exit' = [exit EXCEPT ![job[w]] = "nonzero"]
  /\ hpc' = [hpc EXCEPT ![w] = "read"]
  /\ settling' = [settling EXCEPT ![w] = job[w]]
  /\ verdict' = [verdict EXCEPT ![w] = "spawn_error"]
  /\ late' = [late EXCEPT ![w] = @ \cup {job[w]}]
  /\ UNCHANGED <<status, created, beatAge, files, apiVars, job, stale, crashes>>

(* mkdir, the run.exec INSERT or spawn throws out of executeRun, or the    *)
(* getRun after COMMIT out of the claim: the loop only logs to the console *)
ExecuteThrows(w) ==
  /\ LoopStep(w, "claimed", "idle")
  /\ Throws
  /\ \/ UNCHANGED events
     \/ Log(job[w], "run.exec")
  /\ job' = [job EXCEPT ![w] = NoRun]
  /\ UNCHANGED <<status, created, beatAge, files>>
  /\ UNCHANGED <<apiVars, stale, handlerVars, childVars, crashes>>

(* the heartbeat timer; its UPDATE touches only a row still running *)
Heartbeat(w) ==
  /\ pc[w] = "exec" /\ hpc[w] = "none"
  /\ status[job[w]] = "running"
  /\ beatAge[job[w]] > 0
  /\ beatAge' = [beatAge EXCEPT ![job[w]] = 0]
  /\ UNCHANGED <<status, created, events, files>>
  /\ UNCHANGED <<apiVars, loopVars, handlerVars, childVars, faultVars>>

-----------------------------------------------------------------------------
(* Child-process callbacks: completeRun, then finalizeSafely, then done() *)

(* slip: const success = code !== 0 *)
NegatedVerdict(code) == IF code = "zero" THEN "failed" ELSE "passed"

(* const success = code === 0 *)
CloseVerdict(code) == IF code = "zero" THEN "passed" ELSE "failed"

ChildClose(w, code) ==
  /\ pc[w] = "exec" /\ hpc[w] = "none"
  /\ exit' = [exit EXCEPT ![job[w]] = code]
  /\ hpc' = [hpc EXCEPT ![w] = "read"]
  /\ settling' = [settling EXCEPT ![w] = job[w]]
  /\ verdict' = [verdict EXCEPT ![w] = CloseVerdict(code)]
  /\ UNCHANGED <<dbVars, apiVars, loopVars, late, launches, faultVars>>

(* the 'close' that follows a spawn 'error', possibly after the next claim *)
LateClose(w) ==
  \E r \in late[w] :
    /\ hpc[w] = "none"
    /\ hpc' = [hpc EXCEPT ![w] = "read"]
    /\ settling' = [settling EXCEPT ![w] = r]
    /\ verdict' = [verdict EXCEPT ![w] = "failed"]
    /\ late' = [late EXCEPT ![w] = @ \ {r}]
    /\ UNCHANGED <<dbVars, apiVars, loopVars, childVars, faultVars>>

HandlerStep(w, from, to) == hpc[w] = from /\ hpc' = [hpc EXCEPT ![w] = to]

(* where the callback goes when completeRun has returned *)
AfterComplete(w) == IF verdict[w] = "spawn_error" THEN "note" ELSE "finalize"

(* slips: no status check, a failure not recorded *)
CompleteUnread(w) ==
  /\ HandlerStep(w, "read", "write")
  /\ UNCHANGED <<dbVars, apiVars, loopVars, settling, verdict, late, childVars, faultVars>>
CompleteReadOfPass(w) ==
  /\ HandlerStep(w, "read", IF status[settling[w]] = "running" /\ verdict[w] = "passed"
                              THEN "write" ELSE AfterComplete(w))
  /\ UNCHANGED <<dbVars, apiVars, loopVars, settling, verdict, late, childVars, faultVars>>

(* if (!current || current.status !== 'running') return null *)
CompleteRead(w) ==
  /\ HandlerStep(w, "read", IF status[settling[w]] = "running"
                              THEN "write" ELSE AfterComplete(w))
  /\ UNCHANGED <<dbVars, apiVars, loopVars, settling, verdict, late, childVars, faultVars>>

(* slip: whatever is not a bad exit passes *)
PassedUnlessFailed(w) == IF verdict[w] = "failed" THEN "failed" ELSE "passed"

(* the status column a verdict becomes *)
FinalStatus(w) == IF verdict[w] = "passed" THEN "passed" ELSE "failed"

(* slip: UPDATE ... WHERE id=? *)
CompletedAnyway(w) == [status EXCEPT ![settling[w]] = FinalStatus(w)]

(* what the completing UPDATE (WHERE id=? AND status='running') leaves *)
Completed(w) ==
  IF status[settling[w]] = "running"
    THEN [status EXCEPT ![settling[w]] = FinalStatus(w)] ELSE status

CompleteWrite(w) ==
  /\ HandlerStep(w, "write", "log")
  /\ status' = Completed(w)
  /\ beatAge' = [r \in Runs |-> IF status[r] # status'[r] THEN 0 ELSE beatAge[r]]
  /\ UNCHANGED <<created, events, files, apiVars, loopVars>>
  /\ UNCHANGED <<settling, verdict, late, childVars, faultVars>>

VerdictEvent(w) == IF FinalStatus(w) = "passed" THEN "run.passed" ELSE "run.failed"

CompleteLog(w) ==
  /\ HandlerStep(w, "log", AfterComplete(w))
  /\ Log(settling[w], VerdictEvent(w))
  /\ UNCHANGED <<status, created, beatAge, files, apiVars, loopVars>>
  /\ UNCHANGED <<settling, verdict, late, childVars, faultVars>>

(* the 'error' callback's own run.error event *)
NoteSpawnError(w) ==
  /\ HandlerStep(w, "note", "finalize")
  /\ Log(settling[w], "run.error")
  /\ UNCHANGED <<status, created, beatAge, files, apiVars, loopVars>>
  /\ UNCHANGED <<settling, verdict, late, childVars, faultVars>>

(* a statement of the callback throws; the catch only logs to the console *)
HandlerThrows(w) ==
  /\ hpc[w] \in {"write", "log", "note"}
  /\ Throws
  /\ hpc' = [hpc EXCEPT ![w] = "finalize"]
  /\ UNCHANGED <<dbVars, apiVars, loopVars, settling, verdict, late, childVars, crashes>>

(* slip: active is never set back to null *)
ReturnBusy(w) ==
  /\ HandlerStep(w, "finalize", "none")
  /\ settling' = [settling EXCEPT ![w] = NoRun]
  /\ verdict' = [verdict EXCEPT ![w] = "none"]
  /\ UNCHANGED <<pc, job>>
  /\ UNCHANGED <<status, created, beatAge, apiVars, stale, late, childVars, crashes>>

(* done(): the first one resolves executeRun's promise for that run *)
Return(w) ==
  /\ HandlerStep(w, "finalize", "none")
  /\ settling' = [settling EXCEPT ![w] = NoRun]
  /\ verdict' = [verdict EXCEPT ![w] = "none"]
  /\ IF settling[w] = job[w]
       THEN /\ pc' = [pc EXCEPT ![w] = "idle"]
            /\ job' = [job EXCEPT ![w] = NoRun]
       ELSE UNCHANGED <<pc, job>>
  /\ UNCHANGED <<status, created, beatAge, apiVars, stale, late, childVars, crashes>>

(* finalizeRunArtifacts writes result-map.json *)
Finalize(w) ==
  /\ Return(w)
  /\ files' = [files EXCEPT ![settling[w]] = @ \cup {"result"}]
  /\ UNCHANGED <<events, failures>>

(* it throws: artifacts.finalize_failed is logged, if that does not throw *)
FinalizeThrows(w) ==
  /\ Return(w)
  /\ Throws
  /\ \/ Log(settling[w], "artifacts.finalize_failed")
     \/ UNCHANGED events
  /\ UNCHANGED files

-----------------------------------------------------------------------------
(* The environment *)

(* a worker process dies at any point and forgets all it knew; a command   *)
(* it had started is no longer observed by anybody                         *)
Crash(w) ==
  /\ pc[w] # "down"
  /\ crashes < MaxCrashes /\ crashes' = crashes + 1
  /\ pc' = [pc EXCEPT ![w] = "down"]
  /\ job' = [job EXCEPT ![w] = NoRun]
  /\ stale' = [stale EXCEPT ![w] = {}]
  /\ hpc' = [hpc EXCEPT ![w] = "none"]
  /\ settling' = [settling EXCEPT ![w] = NoRun]
  /\ verdict' = [verdict EXCEPT ![w] = "none"]
  /\ late' = [late EXCEPT ![w] = {}]
  /\ UNCHANGED <<dbVars, apiVars, childVars, failures>>

(* time passes: every running row's last heartbeat grows older *)
Tick ==
  /\ \E r \in Runs : status[r] = "running" /\ beatAge[r] <= Timeout
  /\ beatAge' = [r \in Runs |-> IF status[r] = "running" /\ beatAge[r] <= Timeout
                                  THEN beatAge[r] + 1 ELSE beatAge[r]]
  /\ UNCHANGED <<status, created, events, files>>
  /\ UNCHANGED <<apiVars, loopVars, handlerVars, childVars, faultVars>>

-----------------------------------------------------------------------------
ApiNext(a) ==
  \/ ApiRequest(a) \/ ApiInsert(a) \/ ApiLogQueued(a)
  \/ ApiSkeleton(a) \/ ApiAudit(a) \/ ApiError(a)

LoopNext(w) ==
  \/ WorkerStart(w) \/ SelectStale(w) \/ Reconcile(w) \/ StartupThrows(w)
  \/ Claim(w) \/ Launch(w) \/ SpawnError(w) \/ ExecuteThrows(w) \/ Heartbeat(w)

HandlerNext(w) ==
  \/ \E code \in {"zero", "nonzero"} : ChildClose(w, code)
  \/ LateClose(w) \/ CompleteRead(w) \/ CompleteWrite(w) \/ CompleteLog(w)
  \/ NoteSpawnError(w) \/ HandlerThrows(w) \/ Finalize(w) \/ FinalizeThrows(w)

Next ==
  \/ \E a \in Apis : ApiNext(a)
  \/ \E w \in Workers : LoopNext(w) \/ HandlerNext(w) \/ Crash(w)
  \/ Tick

Spec == Init /\ [][Next]_vars

(* What the scheduling of the code justifies: a handler that has begun runs *)
(* on, the polling timer keeps firing, and commands end.  Nothing in the    *)
(* code starts a worker that is down, so no fairness of WorkerStart.        *)
Fairness ==
  /\ \A a \in Apis :
       WF_vars(ApiInsert(a) \/ ApiLogQueued(a) \/ ApiSkeleton(a) \/ ApiAudit(a))
  /\ \A w \in Workers :
       /\ WF_vars(SelectStale(w) \/ Reconcile(w))
       /\ WF_vars(Claim(w))
       /\ WF_vars(Launch(w) \/ SpawnError(w))
       /\ WF_vars(\E code \in {"zero", "nonzero"} : ChildClose(w, code))
       /\ WF_vars(LateClose(w))
       /\ WF_vars(\/ CompleteRead(w) \/ CompleteWrite(w) \/ CompleteLog(w)
                  \/ NoteSpawnError(w) \/ Finalize(w))

FairSpec == Spec /\ Fairness

-----------------------------------------------------------------------------
(* Properties *)

Logged(r, type) == type \in SeqRange(events[r])

Owns(w, r) == job[w] = r \/ settling[w] = r

(* The command of a run is started at most once, whatever workers crash,   *)
(* restart, reconcile or see their statements fail: rows never return to   *)
(* 'queued' and no two workers get the same row (claimNextQueuedRun).      *)
AtMostOnceLaunch == \A r \in Runs : launches[r] <= 1

(* A run is recorded as passed, in its row or in its events, only if its   *)
(* own command exited with code 0 (the 'close' callback, completeRun).     *)
PassIsEarned ==
  \A r \in Runs : status[r] = "passed" \/ Logged(r, "run.passed") => exit[r] = "zero"

(* A failed row has a cause: its command did not succeed, or the startup   *)
(* reconciliation wrote the run off and said so in the events.             *)
FailureHasCause ==
  \A r \in Runs :
    status[r] = "failed" => exit[r] = "nonzero" \/ Logged(r, "run.reconciled")

(* A run gets at most one run.passed / run.failed event, although a failed *)
(* spawn calls completeRun twice ('error', then 'close').                  *)
SingleVerdict ==
  \A r \in Runs : \A i, j \in DOMAIN events[r] :
    {events[r][i], events[r][j]} \subseteq {"run.passed", "run.failed"} => i = j

(* The events of a run tell its life in the order it had: it is queued,    *)
(* claimed and executed at most once, its audit entry follows run.queued,  *)
(* nothing executes or reconciles it before run.started, nothing settles   *)
(* it before run.exec (run_events, in the order of their INSERTs).          *)
Once == {"run.queued", "audit.trigger", "run.started", "run.exec"}
Prior(type) ==
  IF type = "audit.trigger" THEN {"run.queued"}
  ELSE IF type \in {"run.exec", "run.reconciled"} THEN {"run.started"}
  ELSE IF type \in {"run.queued", "run.started"} THEN {} ELSE {"run.exec"}
InOrder(s) ==
  \A j \in DOMAIN s :
    LET earlier == {s[i] : i \in 1..(j - 1)} IN
    Prior(s[j]) \subseteq earlier /\ (s[j] \in Once => s[j] \notin earlier)
LogInOrder == \A r \in Runs : InOrder(events[r])

(* Unless something threw or a worker died, a running row is in the hands  *)
(* of a live worker: the claim, the await and the callbacks never drop it. *)
RunningHasOwner ==
  failures = 0 /\ crashes = 0 =>
    \A r \in Runs : status[r] = "running" => \E w \in Workers : Owns(w, r)

(* result-map.json is not written for a run still recorded as running,     *)
(* unless a statement of its completion threw.                             *)
SettledBeforeFinalized ==
  failures = 0 => \A r \in Runs : "result" \in files[r] => status[r] \in Terminal

(* A terminal row never changes its status again: the late completion of a *)
(* reconciled run and the late reconciliation of a completed one both lose *)
(* against WHERE status='running'.                                         *)
TerminalIsFinal ==
  [][\A r \in Runs : status[r] \in Terminal => status'[r] = status[r]]_vars

(* The queue implements the life cycle the control plane promises.         *)
Lifecycle == INSTANCE RunLifecycle WITH phase <- status
ImplementsLifecycle == Lifecycle!Spec

NoWorkerUp == \A w \in Workers : pc[w] = "down"

(* Every run a client was told is accepted reaches a terminal row and a    *)
(* result-map.json, unless something throws, or a worker dies or is not    *)
(* started.                                                                *)
AcceptedRunSettles ==
  \A r \in Runs : reply[r] = "accepted" ~>
    \/ status[r] \in Terminal /\ "result" \in files[r]
    \/ failures > 0 \/ crashes > 0 \/ NoWorkerUp

(* While a worker is up every queued run is claimed in the end, whatever   *)
(* died before and whatever the queue holds ahead of it.                   *)
QueueDrains ==
  \A r \in Runs : status[r] = "queued" ~> status[r] # "queued" \/ NoWorkerUp

(* A worker that starts while no other is up recovers every running row    *)
(* whose heartbeat has expired, unless it dies or its start-up throws.     *)
StaleOrphanRecovered ==
  \A r \in Runs, w \in Workers :
    IsStale(r) /\ pc[w] = "boot" /\ (\A v \in Workers \ {w} : pc[v] = "down")
      ~> status[r] \in Terminal \/ pc[w] = "down"

-----------------------------------------------------------------------------
(* The inductive strengthening RunQueueProofs rests on *)

(* A worker holds a run exactly between its claim and its done().          *)
JobsHeld == \A w \in Workers : job[w] \in Runs <=> pc[w] \in {"claimed", "exec"}

(* A run has one creator, which inserts its row when there is none.        *)
RequestsFresh ==
  /\ \A a \in Apis :
       /\ IF apc[a] = "idle" THEN req[a] = NoRun ELSE req[a] \in SeqRange(created)
       /\ apc[a] = "insert" => status[req[a]] = "none"
  /\ \A a, b \in Apis : a # b /\ req[a] = req[b] => req[a] = NoRun
  /\ \A r \in Runs : r \notin SeqRange(created) => status[r] = "none"

(* A run is held by one worker, and not before it left the queue; it is    *)
(* unlaunched until that worker launches it.                               *)
LaunchesOwned ==
  /\ \A v, w \in Workers : v # w /\ job[v] = job[w] => job[v] = NoRun
  /\ \A w \in Workers : pc[w] = "claimed" => launches[job[w]] = 0
  /\ \A r \in Runs : status[r] \in {"none", "queued"} =>
       launches[r] = 0 /\ \A w \in Workers : job[w] # r
  /\ \A r \in Runs : launches[r] = 0 <=> exit[r] = "none"

(* A callback knows how its command ended; before that it is alive.        *)
ExitsKnown ==
  /\ \A w \in Workers : settling[w] \in Runs <=> hpc[w] # "none"
  /\ \A w \in Workers : pc[w] = "exec" /\ settling[w] # job[w] => exit[job[w]] = "alive"
  /\ \A w \in Workers : settling[w] \in Runs =>
       exit[settling[w]] = IF verdict[w] = "passed" THEN "zero" ELSE "nonzero"
  /\ \A w \in Workers : \A r \in late[w] : exit[r] = "nonzero"

HasVerdict(r) == Logged(r, "run.passed") \/ Logged(r, "run.failed")

(* The worker that runs a command is the only one to settle its run, and   *)
(* its callback logs a verdict only while the run has none.  A callback    *)
(* that did not throw leaves the row terminal.                             *)
SettledByOne ==
  /\ \A v, w \in Workers, r \in Runs :
       (Owns(v, r) \/ r \in late[v]) /\ (Owns(w, r) \/ r \in late[w]) => v = w
  /\ \A r \in Runs : HasVerdict(r) => status[r] \in Terminal
  /\ \A w \in Workers :
       /\ hpc[w] \in {"write", "log"} => ~HasVerdict(settling[w])
       /\ hpc[w] = "log" \/ (failures = 0 /\ hpc[w] \in {"note", "finalize"})
            => status[settling[w]] \in Terminal

(* What is logged of a run agrees with how far it and its requests are.    *)
LogAgrees ==
  /\ \A r \in Runs :
       /\ Logged(r, "run.started") <=> status[r] \notin {"none", "queued"}
       /\ launches[r] # 0 => Logged(r, "run.exec")
       /\ r \notin SeqRange(created) => ~Logged(r, "run.queued")
  /\ \A w \in Workers :
       /\ pc[w] = "claimed" => ~Logged(job[w], "run.exec")
       /\ \A r \in stale[w] : status[r] \notin {"none", "queued"}
  /\ \A a \in Apis :
       /\ apc[a] \in {"insert", "log"} => ~Logged(req[a], "run.queued")
       /\ apc[a] \in {"skeleton", "audit"} =>
            Logged(req[a], "run.queued") /\ ~Logged(req[a], "audit.trigger")

(* Every step preserves this: who creates, holds, launches and settles a   *)
(* run, and what is then known of its command (server.mjs, worker.mjs).    *)
IndInv ==
  /\ TypeOK /\ JobsHeld /\ RequestsFresh /\ LaunchesOwned /\ ExitsKnown
  /\ AtMostOnceLaunch /\ SettledByOne /\ LogInOrder /\ LogAgrees

-----------------------------------------------------------------------------
(* Claims of the documentation that the code does not keep *)

(* README.md of the control plane, line 10: "atomic lifecycle transitions  *)
(* + event/audit writes".  A run with a run.passed event is passed.        *)
EventAgreesWithRow ==
  \A r \in Runs : Logged(r, "run.passed") => status[r] = "passed"

(* README.md of the control plane, line 22: orphaned running rows are      *)
(* marked failed "when heartbeat timeout is exceeded".  The row a          *)
(* reconciliation fails has an expired heartbeat when it is failed.        *)
ReconciledOnlyWhenExpired ==
  [][\A w \in Workers, r \in Runs :
       Reconcile(w) /\ status[r] = "running" /\ status'[r] = "failed"
         => beatAge[r] > Timeout]_vars
=============================================================================
