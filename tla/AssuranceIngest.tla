--------------------------- MODULE AssuranceIngest ---------------------------
(***************************************************************************)
(* The assurance API: executions, evidence and signals are ingested and    *)
(* policy decisions are taken and stored (api/server.mjs, the statements   *)
(* of lib/assurance-repository.mjs, the adapters and the policy engine).   *)
(* Requests run in one or several API processes on one SQLite file.  A     *)
(* step is one SQL statement or the code between two awaits; what a write  *)
(* transaction has done is seen by nobody else until it commits.           *)
(*                                                                         *)
(* An operator introduced as a "slip" is the definition after it with a    *)
(* mistake in it; the behaviours never use it.                             *)
(***************************************************************************)
EXTENDS Naturals, Sequences

CONSTANTS
  Reqs,          \* HTTP requests
  Execs,         \* execution ids
  Envs,          \* environments an execution can name
  Names,         \* evidence and signal ids chosen by clients
  None,          \* no row, no request
  RuleLists,     \* bound: the policy rules a client may send, as a set
  MaxBatch,      \* bound: items of a batch
  MaxFailures    \* bound: statements that throw, or processes that die

(* A rule: its mode and the environments of its scope, none meaning any.   *)
Rules == [mode : {"hard", "advisory"}, scope : SUBSET Envs]

VARIABLES
  executions,  \* assurance_executions: the environment of each, or None
  rows,        \* assurance_evidence and assurance_signals, as committed
  decisions,   \* assurance_decisions, by the request that took them
  writer,      \* the request whose BEGIN IMMEDIATE holds the write lock
  work,        \* the two tables as that transaction sees them
  phase,       \* where each request stands
  batch,       \* its items
  stored,      \* how many of them its transaction has executed
  seen,        \* the execution a policy evaluation has read
  reply,       \* what its client was told
  failures     \* the spent fault budget

tables == <<executions, rows, decisions>>
txn    == <<writer, work>>
vars   == <<tables, txn, phase, batch, stored, seen, reply, failures>>

(* Ids: a client's name in either table, or generated by the JUnit adapter *)
(* for the request at hand (ev-junit-<uuid>, sig-test-<uuid>).             *)
Tables == {"evidence", "signal"}
Ids    == Tables \X (Names \cup Reqs)

(* A row: its execution, whether its value or status meets the condition   *)
(* of the policy rules, and who wrote it.                                  *)
Values   == {"meets", "misses"}
Contents == [exec : Execs, value : Values]
Items    == [id : Ids, row : Contents]
Rows     == [row : Contents, by : Reqs]

Outcomes == {"allow", "advisory", "block"}
Decisions == [exec : Execs, rules : RuleLists, outcome : Outcomes]
Seen     == [exec : Execs, env : Envs]

ASSUME IngestAssumption ==
  /\ None \notin Reqs /\ None \notin Envs
  /\ None \notin Rows /\ None \notin Decisions /\ None \notin Seen
  /\ Names \cap Reqs = {}
  /\ RuleLists \subseteq SUBSET Rules
  /\ MaxBatch \in Nat /\ MaxFailures \in Nat

TypeOK ==
  /\ executions \in [Execs -> Envs \cup {None}]
  /\ rows \in [Ids -> Rows \cup {None}]
  /\ decisions \in [Reqs -> Decisions \cup {None}]
  /\ writer \in Reqs \cup {None}
  /\ work \in [Ids -> Rows \cup {None}]
  /\ phase \in [Reqs -> {"new", "rows", "reading", "done"}]
  /\ batch \in [Reqs -> Seq(Items)]
  /\ stored \in [Reqs -> Nat]
  /\ seen \in [Reqs -> Seen \cup {None}]
  /\ reply \in [Reqs ->
       {"none", "accepted", "decided", "unsaved", "rejected", "error", "lost"}]
  /\ failures \in 0..MaxFailures

(* executions may have been ingested before *)
Init ==
  /\ executions \in [Execs -> Envs \cup {None}]
  /\ rows = [i \in Ids |-> None]
  /\ decisions = [q \in Reqs |-> None]
  /\ writer = None
  /\ work = [i \in Ids |-> None]
  /\ phase = [q \in Reqs |-> "new"]
  /\ batch = [q \in Reqs |-> <<>>]
  /\ stored = [q \in Reqs |-> 0]
  /\ seen = [q \in Reqs |-> None]
  /\ reply = [q \in Reqs |-> "none"]
  /\ failures = 0

-----------------------------------------------------------------------------
(* Replies *)

Throws == failures < MaxFailures /\ failures' = failures + 1

Done(q, from, r) ==
  /\ phase[q] = from
  /\ phase' = [phase EXCEPT ![q] = "done"]
  /\ reply' = [reply EXCEPT ![q] = r]

(* the reply a handler sends; it is lost when the process dies before that *)
Answer(q, from, r) ==
  \/ Done(q, from, r) /\ UNCHANGED failures
  \/ Done(q, from, "lost") /\ Throws

(* 400, 404 or 413: body, validation, unknown execution, unsupported rule; *)
(* nothing has been written                                                *)
Reject(q) ==
  /\ \E from \in {"new", "reading"} : Done(q, from, "rejected")
  /\ UNCHANGED <<tables, txn, batch, stored, seen, failures>>

(* 500: the write lock is taken (no busy timeout), or a statement throws   *)
Fail(q) ==
  /\ \/ Done(q, "new", "error") /\ writer # None /\ UNCHANGED failures
     \/ (\E from \in {"new", "reading"} : Done(q, from, "error")) /\ Throws
  /\ UNCHANGED <<tables, txn, batch, stored, seen>>

-----------------------------------------------------------------------------
(* POST /ingest/execution and /ingest/adapter/github-actions *)

PutExecution(q) ==
  \E x \in Execs, v \in Envs :
    /\ Answer(q, "new", "accepted")
    /\ writer = None
    /\ executions' = [executions EXCEPT ![x] = v]
    /\ UNCHANGED <<rows, decisions, txn, batch, stored, seen>>

(* an adapter found no execution or no test case in its payload: 202 *)
NothingToIngest(q) ==
  /\ Answer(q, "new", "accepted")
  /\ UNCHANGED <<tables, txn, batch, stored, seen>>

-----------------------------------------------------------------------------
(* POST /ingest/evidence, /ingest/signals and /ingest/adapter/junit:       *)
(* insertEvidence, insertSignals, insertEvidenceAndSignals                 *)

(* the ids a client can name: its own, and those it has read in a reply *)
Nameable(table) ==
  {i \in Ids : i[1] = table /\ (i[2] \in Names \/ rows[i] # None)}

Item(i, x, v) == [id |-> i, row |-> [exec |-> x, value |-> v]]

EvidenceItems == {Item(i, x, "meets") : i \in Nameable("evidence"), x \in Execs}
SignalItems ==
  {Item(i, x, v) : i \in Nameable("signal"), x \in Execs, v \in Values}

SeqsUpTo(S, n) == UNION {[1..m -> S] : m \in 0..n}

(* slip: the evidence of a report is sent as a batch of its own *)
SplitReports(q) ==
  {<<Item(<<t, q>>, x, "meets")>> : t \in Tables, x \in Execs}

(* one evidence item and the signals of the test cases, which cite it, all *)
(* of one execution; one signal stands for them                            *)
JunitReports(q) ==
  {<<Item(<<"evidence", q>>, x, "meets"), Item(<<"signal", q>>, x, v)>> :
     x \in Execs, v \in Values}

Batches(q) ==
  SeqsUpTo(EvidenceItems, MaxBatch) \cup SeqsUpTo(SignalItems, MaxBatch) \cup JunitReports(q)

(* BEGIN IMMEDIATE *)
Begin(q) ==
  /\ phase[q] = "new" /\ writer = None
  /\ \E b \in Batches(q) : batch' = [batch EXCEPT ![q] = b]
  /\ phase' = [phase EXCEPT ![q] = "rows"]
  /\ writer' = q
  /\ work' = rows
  /\ UNCHANGED <<tables, stored, seen, reply, failures>>

(* slip: the upsert sets execution_id as well, and no WHERE asks whether   *)
(* the row is of that execution                                            *)
KnownExecution(it) == executions[it.row.exec] # None

(* the foreign key holds, and the upsert finds no row of another execution *)
Storable(it) ==
  /\ executions[it.row.exec] # None
  /\ work[it.id] # None => work[it.id].row.exec = it.row.exec

Pending(q) == writer = q /\ stored[q] < Len(batch[q])
NextItem(q) == batch[q][stored[q] + 1]

(* slip: ON CONFLICT DO NOTHING *)
StoreNewRow(q) ==
  LET i == NextItem(q).id IN
  /\ Pending(q) /\ Storable(NextItem(q))
  /\ work' = [work EXCEPT ![i] = IF @ = None THEN [row |-> NextItem(q).row, by |-> q] ELSE @]
  /\ stored' = [stored EXCEPT ![q] = @ + 1]
  /\ UNCHANGED <<tables, writer, phase, batch, seen, reply, failures>>

(* one statement of insertEvidenceRows or insertSignalRows *)
StoreRow(q) ==
  /\ Pending(q) /\ Storable(NextItem(q))
  /\ work' = [work EXCEPT ![NextItem(q).id] = [row |-> NextItem(q).row, by |-> q]]
  /\ stored' = [stored EXCEPT ![q] = @ + 1]
  /\ UNCHANGED <<tables, writer, phase, batch, seen, reply, failures>>

(* slip: what was stored before the conflict stays *)
KeepWork == rows' = work

(* ROLLBACK, or the end of the process: the committed tables stay *)
Rollback == UNCHANGED rows

(* the transaction of q ends, and q forgets the items it need not answer for *)
Release(q, items) ==
  /\ writer' = None
  /\ work' = [i \in Ids |-> None]
  /\ batch' = [batch EXCEPT ![q] = items]
  /\ stored' = [stored EXCEPT ![q] = 0]

(* a foreign key or an id of another execution: ROLLBACK and 400 *)
RefuseRow(q) ==
  /\ Pending(q) /\ ~Storable(NextItem(q))
  /\ Done(q, "rows", "rejected")
  /\ Rollback /\ Release(q, <<>>)
  /\ UNCHANGED <<executions, decisions, seen, failures>>

(* any other throw: ROLLBACK and 500; the process dies: no reply *)
Abort(q) ==
  /\ writer = q /\ Throws
  /\ \E r \in {"error", "lost"} : Done(q, "rows", r)
  /\ Rollback /\ Release(q, <<>>)
  /\ UNCHANGED <<executions, decisions, seen>>

Commit(q) ==
  /\ writer = q /\ stored[q] = Len(batch[q])
  /\ Answer(q, "rows", "accepted")
  /\ rows' = work
  /\ Release(q, batch[q])
  /\ UNCHANGED <<executions, decisions, seen>>

-----------------------------------------------------------------------------
(* POST /policy/evaluate *)

(* getAssuranceExecution, before the body is awaited *)
ReadExecution(q) ==
  /\ phase[q] = "new"
  /\ \E x \in Execs :
       /\ executions[x] # None
       /\ seen' = [seen EXCEPT ![q] = [exec |-> x, env |-> executions[x]]]
  /\ phase' = [phase EXCEPT ![q] = "reading"]
  /\ UNCHANGED <<tables, txn, batch, stored, reply, failures>>

(* listAssuranceSignals, WHERE execution_id = ? *)
Signals(x) == {i \in Ids : i[1] = "signal" /\ rows[i] # None /\ rows[i].row.exec = x}

(* slip: no target, nothing to complain about *)
PassesByDefault(x) == {TRUE} \cup {rows[i].row.value = "meets" : i \in Signals(x)}

(* The target of a rule is the newest signal of the name, metric and       *)
(* category it selects, by the created_at its client gave it: any of them, *)
(* or none, and without a target the rule fails.                           *)
Passes(x) == {FALSE} \cup {rows[i].row.value = "meets" : i \in Signals(x)}

InScope(rule, env) == rule.scope = {} \/ env \in rule.scope

(* evaluatePolicies: the modes of the rules that fail and are not skipped  *)
Outcome(rules, env, passed) ==
  LET failed == {r.mode : r \in {x \in rules : InScope(x, env) /\ ~passed[x]}} IN
  IF "hard" \in failed THEN "block"
  ELSE IF "advisory" \in failed THEN "advisory" ELSE "allow"

(* slip: the decision is answered before it is stored *)
SaveFirstReply(q, d) ==
  /\ Answer(q, "reading", "decided")
  /\ \/ decisions' = [decisions EXCEPT ![q] = d]
     \/ UNCHANGED decisions

(* insertAssuranceDecision: if it throws the reply carries a warning *)
SaveDecision(q, d) ==
  \/ /\ Answer(q, "reading", "decided")
     /\ writer = None
     /\ decisions' = [decisions EXCEPT ![q] = d]
  \/ /\ Done(q, "reading", "unsaved")
     /\ IF writer = None THEN Throws ELSE UNCHANGED failures
     /\ UNCHANGED decisions

Decision(q, rules, passed) ==
  [exec |-> seen[q].exec, rules |-> rules, outcome |-> Outcome(rules, seen[q].env, passed)]

Evaluate(q) ==
  /\ phase[q] = "reading"
  /\ \E rules \in RuleLists : \E passed \in [rules -> Passes(seen[q].exec)] :
       SaveDecision(q, Decision(q, rules, passed))
  /\ UNCHANGED <<executions, rows, txn, batch, stored, seen>>

-----------------------------------------------------------------------------
Next ==
  \E q \in Reqs :
    \/ Reject(q) \/ Fail(q) \/ PutExecution(q) \/ NothingToIngest(q)
    \/ Begin(q) \/ StoreRow(q) \/ RefuseRow(q) \/ Abort(q) \/ Commit(q)
    \/ ReadExecution(q) \/ Evaluate(q)

Spec == Init /\ [][Next]_vars

-----------------------------------------------------------------------------
(* Properties *)

(* An evidence or signal id never moves to another execution, however      *)
(* often it is ingested again (WHERE execution_id = excluded.execution_id).*)
OwnerIsForever ==
  [][\A i \in Ids : rows[i] # None =>
       rows'[i] # None /\ rows'[i].row.exec = rows[i].row.exec]_vars

(* Every stored row and decision belongs to an execution that exists.      *)
NoOrphans ==
  /\ \A i \in Ids : rows[i] # None => executions[rows[i].row.exec] # None
  /\ \A q \in Reqs : decisions[q] # None => executions[decisions[q].exec] # None

(* A batch is stored as a whole or not at all: after a 400 or 500 no row   *)
(* is of that request, after a 202 every item is there, under its own      *)
(* execution, until a later request overwrites it.                         *)
AllOrNothing ==
  \A q \in Reqs :
    /\ reply[q] \in {"none", "rejected", "error"} =>
         \A i \in Ids : rows[i] # None => rows[i].by # q
    /\ reply[q] = "accepted" =>
         \A k \in DOMAIN batch[q] :
           LET it == batch[q][k] IN rows[it.id] # None /\ rows[it.id].row.exec = it.row.exec

(* The evidence a signal of a JUnit report cites is stored, and under the  *)
(* same execution, as long as no client has rewritten the signal.          *)
ReportsAreBacked ==
  \A q \in Reqs :
    LET s == rows[<<"signal", q>>]
        e == rows[<<"evidence", q>>] IN
    s # None /\ s.by = q => e # None /\ e.row.exec = s.row.exec

(* A client that gets a decision without a warning can read it again, one  *)
(* that gets the warning or an error finds nothing (GET /decisions/<id>).  *)
DecisionsAsTold ==
  \A q \in Reqs :
    /\ reply[q] = "decided" => decisions[q] # None
    /\ reply[q] \in {"none", "accepted", "unsaved", "rejected", "error"} =>
         decisions[q] = None

(* The gate fails closed: a decision that allows an execution some rule is *)
(* about rests on a signal of that execution which is stored when the      *)
(* decision is, not on its absence or on somebody else's (target, passed). *)
AllowIsGrounded ==
  [][\A q \in Reqs :
       LET d == decisions'[q] IN
       decisions[q] = None /\ d # None /\ d.outcome = "allow"
         /\ (\E r \in d.rules : InScope(r, seen[q].env)) =>
           \E i \in Signals(d.exec) : rows[i].row.value = "meets"]_vars

(* What a client sees of the API is what an atomic store would show it: a  *)
(* batch is applied as a whole and in order in the step that answers it,   *)
(* and a decision is justified by what is stored when it is taken; the     *)
(* items of a request count once it is answered (AssuranceStore).          *)
Answered == [q \in Reqs |-> IF reply[q] = "none" THEN <<>> ELSE batch[q]]
Store ==
  INSTANCE AssuranceStore WITH batch <- Answered, SignalIds <- {i \in Ids : i[1] = "signal"}
ImplementsStore == Store!Spec

-----------------------------------------------------------------------------
(* The inductive strengthening IngestProofs rests on *)

(* The lock is held by the request that is executing its batch.            *)
LockHeld == \A q \in Reqs : phase[q] = "rows" <=> writer = q

(* What a transaction will commit keeps every committed row under its      *)
(* execution, and holds the items it has executed so far.                  *)
WorkExtends ==
  writer # None =>
    /\ \A i \in Ids : work[i] # None => executions[work[i].row.exec] # None
    /\ \A i \in Ids : rows[i] # None =>
         work[i] # None /\ work[i].row.exec = rows[i].row.exec
    /\ stored[writer] <= Len(batch[writer])
    /\ \A k \in 1..stored[writer] :
         LET it == batch[writer][k] IN
         work[it.id] # None /\ work[it.id].row.exec = it.row.exec

(* What a transaction will commit is what is committed with the items it   *)
(* has executed so far applied to it, in their order.                      *)
WorkIsBatch ==
  writer # None => Store!Written(rows, work, batch[writer], stored[writer], writer)

(* Rows are written by requests that committed them, and by the writer.    *)
AuthorsKnown ==
  \A i \in Ids :
    /\ rows[i] # None => reply[rows[i].by] \in {"accepted", "lost"}
    /\ writer # None /\ work[i] # None =>
         work[i].by = writer \/ reply[work[i].by] \in {"accepted", "lost"}

(* A request has its reply when it is done, and an evaluation under way    *)
(* has read an execution that exists and has decided nothing.              *)
RequestsInOrder ==
  \A q \in Reqs :
    /\ phase[q] = "done" <=> reply[q] # "none"
    /\ phase[q] # "rows" => stored[q] = 0
    /\ phase[q] \in {"new", "reading"} => batch[q] = <<>>
    /\ phase[q] # "done" => decisions[q] = None
    /\ phase[q] = "new" => seen[q] = None
    /\ phase[q] = "reading" => seen[q] # None /\ executions[seen[q].exec] # None

(* The ids made for a request are used by its own report until it has      *)
(* replied, and what a transaction will commit backs the signals, too.     *)
OwnIds ==
  /\ \A q \in Reqs, t \in Tables : rows[<<t, q>>] # None => reply[q] # "none"
  /\ writer # None =>
       /\ \/ batch[writer] \in JunitReports(writer)
          \/ \A k \in 1..Len(batch[writer]) :
               LET n == batch[writer][k].id[2] IN n \in Names \/ reply[n] # "none"
       /\ \A q \in Reqs, t \in Tables :
            work[<<t, q>>] # None => q = writer \/ reply[q] # "none"
       /\ \A q \in Reqs :
            LET s == work[<<"signal", q>>]
                e == work[<<"evidence", q>>] IN
            s # None /\ s.by = q => e # None /\ e.row.exec = s.row.exec

(* Every step preserves this: what a transaction may commit and what was   *)
(* told to whom (assurance-repository.mjs, server.mjs).                    *)
IndInv ==
  /\ TypeOK /\ LockHeld /\ WorkExtends /\ WorkIsBatch /\ AuthorsKnown /\ RequestsInOrder
  /\ NoOrphans /\ AllOrNothing /\ DecisionsAsTold /\ OwnIds /\ ReportsAreBacked
=============================================================================
