--------------------------- MODULE AssuranceStore ---------------------------
(***************************************************************************)
(* What the assurance API promises its clients, without processes,         *)
(* transactions or statements: a store in which every request takes effect *)
(* as a whole, in the step that also answers it, or not at all; only an    *)
(* evaluation needs two looks at the store, one at its execution and one   *)
(* at the signals.  AssuranceIngest implements this specification.         *)
(***************************************************************************)
EXTENDS Naturals, Sequences

CONSTANTS
  Reqs,        \* requests
  Execs,       \* execution ids
  Envs,        \* environments
  Ids,         \* evidence and signal ids
  SignalIds,   \* the signals among them
  Contents,    \* what a row says: exec, value
  Decisions,   \* what a policy evaluation may decide: exec, rules, outcome
  None         \* no row, no decision

VARIABLES
  executions,  \* the environment of each execution, or None
  rows,        \* evidence and signals: content and author, or None
  decisions,   \* the decision each request has stored, or None
  batch,       \* the items an answered request has brought
  seen,        \* the execution an evaluation has looked at
  reply        \* what the client was told

vars == <<executions, rows, decisions, batch, seen, reply>>

Items == [id : Ids, row : Contents]

Init ==
  /\ executions \in [Execs -> Envs \cup {None}]
  /\ rows = [i \in Ids |-> None]
  /\ decisions = [q \in Reqs |-> None]
  /\ batch = [q \in Reqs |-> <<>>]
  /\ seen = [q \in Reqs |-> None]
  /\ reply = [q \in Reqs |-> "none"]

Tell(q, r) ==
  /\ reply[q] = "none"
  /\ reply' = [reply EXCEPT ![q] = r]

Put(q, x, v) ==
  /\ executions' = [executions EXCEPT ![x] = v]
  /\ UNCHANGED <<rows, decisions, batch, seen>>

(* the table new is the table old after the first n items of b: the last   *)
(* item of an id is what its row says, the other rows are as they were     *)
Written(old, new, b, n, q) ==
  \A i \in Ids :
    LET hits == {k \in 1..n : b[k].id = i} IN
    IF hits = {} THEN new[i] = old[i]
    ELSE \E k \in hits : /\ \A j \in hits : j <= k
                         /\ new[i] = [row |-> b[k].row, by |-> q]

(* every item is of an execution that exists, and no item takes an id away *)
(* from the execution that has it, in the store or in the batch            *)
Storable(b) ==
  \A k \in 1..Len(b) :
    /\ executions[b[k].row.exec] # None
    /\ rows[b[k].id] # None => rows[b[k].id].row.exec = b[k].row.exec
    /\ \A j \in 1..Len(b) : b[j].id = b[k].id => b[j].row.exec = b[k].row.exec

Ingest(q) ==
  /\ \A p \in Reqs \ {q} : batch'[p] = batch[p]
  /\ batch'[q] \in Seq(Items)
  /\ Storable(batch'[q])
  /\ Written(rows, rows', batch'[q], Len(batch'[q]), q)
  /\ UNCHANGED <<executions, decisions, seen>>

Look(q, x) ==
  /\ reply[q] = "none" /\ seen[q] = None /\ executions[x] # None
  /\ seen' = [seen EXCEPT ![q] = [exec |-> x, env |-> executions[x]]]
  /\ UNCHANGED <<executions, rows, decisions, batch, reply>>

(* The rules about the environment env that are not among the failed ones  *)
(* rest on a stored signal; a hard one that failed blocks, any other asks  *)
(* for advice.                                                             *)
Justified(d, env) ==
  LET rules == {r \in d.rules : r.scope = {} \/ env \in r.scope} IN
  \E failed \in SUBSET rules :
    /\ rules # failed =>
         \E i \in SignalIds :
           rows[i] # None /\ rows[i].row.exec = d.exec /\ rows[i].row.value = "meets"
    /\ d.outcome = "block" <=> \E r \in failed : r.mode = "hard"
    /\ d.outcome = "allow" <=> failed = {}

Decide(q, d) ==
  /\ seen[q] # None /\ d.exec = seen[q].exec
  /\ Justified(d, seen[q].env)
  /\ decisions' = [decisions EXCEPT ![q] = d]
  /\ UNCHANGED <<executions, rows, batch, seen>>

Nothing == UNCHANGED <<executions, rows, decisions, batch, seen>>

(* A reply that reports an effect comes with that effect, one that reports *)
(* a failure with none; a lost reply leaves both possible.                 *)
Next ==
  \E q \in Reqs :
    \/ /\ \E r \in {"accepted", "lost"} : Tell(q, r)
       /\ Ingest(q) \/ \E x \in Execs, v \in Envs : Put(q, x, v)
    \/ /\ \E r \in {"decided", "lost"} : Tell(q, r)
       /\ \E d \in Decisions : Decide(q, d)
    \/ /\ \E r \in {"unsaved", "rejected", "error", "lost"} : Tell(q, r)
       /\ Nothing
    \/ \E x \in Execs : Look(q, x)

Spec == Init /\ [][Next]_vars
=============================================================================
