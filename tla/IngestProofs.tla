---------------------------- MODULE IngestProofs ----------------------------
(***************************************************************************)
(* Proofs about AssuranceIngest for every set of requests, executions,     *)
(* ids and policy rules, every batch length and every fault budget.        *)
(***************************************************************************)
EXTENDS AssuranceIngest, TLAPS

USE IngestAssumption

(* the ids the adapter makes for a report are row ids *)
LEMMA OwnIdsAreIds ==
  ASSUME NEW q \in Reqs
  PROVE  <<"evidence", q>> \in Ids /\ <<"signal", q>> \in Ids
  BY DEF Ids, Tables

(* a row is not None *)
LEMMA RowIsARow ==
  ASSUME NEW c \in Contents, NEW q \in Reqs
  PROVE  [row |-> c, by |-> q] \in Rows /\ [row |-> c, by |-> q] # None
  BY DEF Rows

(* whatever a request sends is a sequence of items *)
LEMMA BatchIsItems ==
  ASSUME NEW q \in Reqs, NEW b \in Batches(q)
  PROVE  b \in Seq(Items)
<1>1. EvidenceItems \subseteq Items /\ SignalItems \subseteq Items
  <2>1. ASSUME NEW i \in Ids, NEW x \in Execs, NEW v \in Values PROVE Item(i, x, v) \in Items
    BY DEF Item, Items, Contents, Values
  <2>2. \A t \in Tables : Nameable(t) \subseteq Ids
    BY DEF Nameable
  <2>3. ASSUME NEW e \in EvidenceItems PROVE e \in Items
    <3>1. PICK i \in Nameable("evidence"), x \in Execs : e = Item(i, x, "meets")
      BY DEF EvidenceItems
    <3> QED
      BY <2>1, <2>2, <3>1 DEF Tables, Values
  <2>4. ASSUME NEW e \in SignalItems PROVE e \in Items
    <3>1. PICK i \in Nameable("signal"), x \in Execs, v \in Values : e = Item(i, x, v)
      BY DEF SignalItems
    <3> QED
      BY <2>1, <2>2, <3>1 DEF Tables, Values
  <2> QED
    BY <2>3, <2>4
<1>2. ASSUME NEW S, S \subseteq Items, b \in SeqsUpTo(S, MaxBatch) PROVE b \in Seq(Items)
  BY <1>2 DEF SeqsUpTo
<1>3. ASSUME b \in JunitReports(q) PROVE b \in Seq(Items)
  <2>1. \A x \in Execs, v \in Values :
          Item(<<"evidence", q>>, x, v) \in Items /\ Item(<<"signal", q>>, x, v) \in Items
    BY OwnIdsAreIds DEF Item, Items, Contents, Values
  <2>2. \A i, j \in Items : <<i, j>> \in Seq(Items)
    OBVIOUS
  <2>3. PICK x \in Execs, v \in Values :
          b = <<Item(<<"evidence", q>>, x, "meets"), Item(<<"signal", q>>, x, v)>>
    BY <1>3 DEF JunitReports
  <2> QED
    BY <2>1, <2>2, <2>3 DEF Values
<1> QED
  BY <1>1, <1>2, <1>3 DEF Batches

(* the next statement of a transaction stores an item of its batch *)
LEMMA NextIsAnItem ==
  ASSUME TypeOK, NEW q \in Reqs, Pending(q)
  PROVE  /\ NextItem(q) \in Items /\ stored[q] + 1 \in 1..Len(batch[q])
         /\ NextItem(q).id \in Ids /\ NextItem(q).row \in Contents
         /\ NextItem(q).row.exec \in Execs
<1>1. batch[q] \in Seq(Items) /\ stored[q] \in Nat
  BY DEF TypeOK
<1>2. stored[q] + 1 \in 1..Len(batch[q])
  BY <1>1 DEF Pending
<1>3. NextItem(q) \in Items
  BY <1>1, <1>2 DEF NextItem
<1> QED
  BY <1>2, <1>3 DEF Items, Contents

(* a request that is answered keeps the types *)
LEMMA AnswerType ==
  ASSUME TypeOK, NEW q \in Reqs, NEW from,
         NEW r \in {"accepted", "decided", "unsaved", "rejected", "error", "lost"}
  PROVE  /\ Done(q, from, r) =>
              /\ phase' \in [Reqs -> {"new", "rows", "reading", "done"}]
              /\ reply' \in [Reqs ->
                   {"none", "accepted", "decided", "unsaved", "rejected", "error", "lost"}]
         /\ Throws => failures' \in 0..MaxFailures
<1>1. Done(q, from, r) =>
        phase' \in [Reqs -> {"new", "rows", "reading", "done"}]
  BY DEF TypeOK, Done
<1>2. Done(q, from, r) =>
        reply' \in [Reqs ->
          {"none", "accepted", "decided", "unsaved", "rejected", "error", "lost"}]
  BY DEF TypeOK, Done
<1>3. Throws => failures' \in 0..MaxFailures
  BY DEF TypeOK, Throws
<1> QED
  BY <1>1, <1>2, <1>3

(* what an evaluation decides is a decision, on the execution it has read *)
LEMMA MadeDecision ==
  ASSUME TypeOK, RequestsInOrder, NEW q \in Reqs, Evaluate(q)
  PROVE  \E rules \in RuleLists : \E passed \in [rules -> Passes(seen[q].exec)] :
           LET d == Decision(q, rules, passed) IN
           /\ d \in Decisions /\ d # None /\ executions[d.exec] # None
           /\ SaveDecision(q, d)
<1>1. PICK rules \in RuleLists :
        \E passed \in [rules -> Passes(seen[q].exec)] :
          SaveDecision(q, Decision(q, rules, passed))
  BY DEF Evaluate
<1>2. PICK passed \in [rules -> Passes(seen[q].exec)] :
        SaveDecision(q, Decision(q, rules, passed))
  BY <1>1
<1>3. seen[q] \in Seen /\ executions[seen[q].exec] # None
  BY DEF Evaluate, RequestsInOrder, TypeOK
<1>4. Outcome(rules, seen[q].env, passed) \in Outcomes
  BY DEF Outcome, Outcomes
<1>5. Decision(q, rules, passed) \in Decisions
  BY <1>3, <1>4 DEF Decision, Decisions, Seen
<1> QED
  BY <1>2, <1>3, <1>5 DEF Decision

(* every action keeps the types *)
LEMMA TypeStep ==
  ASSUME TypeOK, RequestsInOrder, [Next]_vars
  PROVE  TypeOK'
<1> USE DEF TypeOK, tables, txn
<1>1. ASSUME NEW q \in Reqs, Reject(q) PROVE TypeOK'
  BY <1>1, AnswerType DEF Reject
<1>2. ASSUME NEW q \in Reqs, Fail(q) PROVE TypeOK'
  BY <1>2, AnswerType DEF Fail
<1>3. ASSUME NEW q \in Reqs, PutExecution(q) PROVE TypeOK'
  BY <1>3, AnswerType DEF PutExecution, Answer
<1>4. ASSUME NEW q \in Reqs, NothingToIngest(q) PROVE TypeOK'
  BY <1>4, AnswerType DEF NothingToIngest, Answer
<1>5. ASSUME NEW q \in Reqs, Begin(q) PROVE TypeOK'
  BY <1>5, BatchIsItems DEF Begin
<1>6. ASSUME NEW q \in Reqs, StoreRow(q) PROVE TypeOK'
  <2>1. [row |-> NextItem(q).row, by |-> q] \in Rows
    BY <1>6, NextIsAnItem, RowIsARow DEF StoreRow
  <2> QED
    BY <1>6, <2>1, NextIsAnItem DEF StoreRow
<1>7. ASSUME NEW q \in Reqs, RefuseRow(q) PROVE TypeOK'
  <2>1. <<>> \in Seq(Items)
    OBVIOUS
  <2> QED
    BY <1>7, <2>1, AnswerType DEF RefuseRow, Rollback, Release
<1>8. ASSUME NEW q \in Reqs, Abort(q) PROVE TypeOK'
  <2>1. <<>> \in Seq(Items)
    OBVIOUS
  <2> QED
    BY <1>8, <2>1, AnswerType DEF Abort, Rollback, Release
<1>9. ASSUME NEW q \in Reqs, Commit(q) PROVE TypeOK'
  BY <1>9, AnswerType DEF Commit, Answer, Release
<1>10. ASSUME NEW q \in Reqs, ReadExecution(q) PROVE TypeOK'
  BY <1>10 DEF ReadExecution, Seen
<1>11. ASSUME NEW q \in Reqs, Evaluate(q) PROVE TypeOK'
  <2>1. PICK d : d \in Decisions /\ SaveDecision(q, d)
    BY <1>11, MadeDecision
  <2>5. decisions' \in [Reqs -> Decisions \cup {None}]
    BY <2>1 DEF SaveDecision
  <2>6. failures' \in 0..MaxFailures
    BY <2>1, AnswerType DEF SaveDecision, Answer
  <2>7. /\ phase' \in [Reqs -> {"new", "rows", "reading", "done"}]
        /\ reply' \in [Reqs ->
             {"none", "accepted", "decided", "unsaved", "rejected", "error", "lost"}]
    BY <2>1, AnswerType DEF SaveDecision, Answer
  <2> QED
    BY <1>11, <2>5, <2>6, <2>7 DEF Evaluate
<1>12. CASE UNCHANGED vars
  BY <1>12 DEF vars
<1> QED
  BY <1>1, <1>2, <1>3, <1>4, <1>5, <1>6, <1>7, <1>8, <1>9, <1>10, <1>11, <1>12 DEF Next

(* an execution is never removed, and a request that has its reply is done *)
LEMMA ExecutionsStay ==
  ASSUME TypeOK, [Next]_vars, NEW x \in Execs, executions[x] # None
  PROVE  executions'[x] # None
<1>1. ASSUME NEW q \in Reqs, PutExecution(q) PROVE executions'[x] # None
  BY <1>1 DEF PutExecution, TypeOK
<1>2. (\A q \in Reqs : ~PutExecution(q)) => executions' = executions
  BY DEF Next, vars, tables, Reject, Fail, NothingToIngest, Begin, StoreRow, RefuseRow,
         Abort, Commit, ReadExecution, Evaluate
<1> QED
  BY <1>1, <1>2

(* nothing that belongs to an answered request changes any more *)
LEMMA RepliesStay ==
  ASSUME TypeOK, LockHeld, RequestsInOrder, [Next]_vars, NEW p \in Reqs, reply[p] # "none"
  PROVE  /\ reply'[p] = reply[p] /\ batch'[p] = batch[p]
         /\ decisions'[p] = decisions[p]
<1> USE DEF TypeOK, tables, txn
<1>1. phase[p] = "done"
  BY DEF RequestsInOrder
<1>2. ASSUME NEW q \in Reqs, phase[q] # "done",
             \/ reply' = reply
             \/ \E r : reply' = [reply EXCEPT ![q] = r],
             \/ batch' = batch
             \/ \E b : batch' = [batch EXCEPT ![q] = b],
             \/ decisions' = decisions
             \/ \E d : decisions' = [decisions EXCEPT ![q] = d]
      PROVE  /\ reply'[p] = reply[p] /\ batch'[p] = batch[p]
             /\ decisions'[p] = decisions[p]
  BY <1>1, <1>2
<1>3. ASSUME NEW q \in Reqs,
             \/ Reject(q) \/ Fail(q) \/ PutExecution(q) \/ NothingToIngest(q)
             \/ Begin(q) \/ StoreRow(q) \/ ReadExecution(q)
      PROVE  /\ phase[q] # "done"
             /\ \/ reply' = reply
                \/ \E r : reply' = [reply EXCEPT ![q] = r]
             /\ \/ batch' = batch
                \/ \E b : batch' = [batch EXCEPT ![q] = b]
             /\ decisions' = decisions
  BY <1>3 DEF Reject, Fail, PutExecution, NothingToIngest, Begin, StoreRow, ReadExecution,
              Answer, Done, Pending, LockHeld
<1>4. ASSUME NEW q \in Reqs, RefuseRow(q) \/ Abort(q) \/ Commit(q)
      PROVE  /\ phase[q] # "done"
             /\ \E r : reply' = [reply EXCEPT ![q] = r]
             /\ \E b : batch' = [batch EXCEPT ![q] = b]
             /\ decisions' = decisions
  BY <1>4 DEF RefuseRow, Abort, Commit, Answer, Done, Release
<1>5. ASSUME NEW q \in Reqs, Evaluate(q)
      PROVE  /\ phase[q] # "done"
             /\ \E r : reply' = [reply EXCEPT ![q] = r]
             /\ batch' = batch
             /\ \/ decisions' = decisions
                \/ \E d : decisions' = [decisions EXCEPT ![q] = d]
  BY <1>5 DEF Evaluate, SaveDecision, Answer, Done
<1>6. CASE UNCHANGED vars
  BY <1>6 DEF vars
<1> QED
  BY <1>2, <1>3, <1>4, <1>5, <1>6 DEF Next

(* what the actions outside of the write transactions leave alone *)
LEMMA QuietStep ==
  ASSUME TypeOK, LockHeld, RequestsInOrder, [Next]_vars,
         \A q \in Reqs : ~Begin(q) /\ ~StoreRow(q) /\ ~RefuseRow(q) /\ ~Abort(q) /\ ~Commit(q)
  PROVE  /\ UNCHANGED <<rows, txn, batch, stored>>
         /\ \A p \in Reqs : phase[p] = "rows" <=> phase'[p] = "rows"
<1>1. UNCHANGED <<rows, txn, batch, stored>>
  BY DEF Next, vars, tables, Reject, Fail, PutExecution, NothingToIngest, ReadExecution,
         Evaluate
<1>2. ASSUME NEW q \in Reqs, NEW from \in {"new", "reading"}, NEW r, Done(q, from, r)
      PROVE  \A p \in Reqs : phase[p] = "rows" <=> phase'[p] = "rows"
  BY <1>2 DEF Done, TypeOK
<1>3. ASSUME NEW q \in Reqs, ReadExecution(q)
      PROVE  \A p \in Reqs : phase[p] = "rows" <=> phase'[p] = "rows"
  BY <1>3 DEF ReadExecution, TypeOK
<1>4. ASSUME NEW q \in Reqs, Reject(q) \/ Fail(q) \/ PutExecution(q) \/ NothingToIngest(q) \/ Evaluate(q)
      PROVE  \E from \in {"new", "reading"} : \E r : Done(q, from, r)
  BY <1>4 DEF Reject, Fail, PutExecution, NothingToIngest, Evaluate, SaveDecision, Answer
<1>5. CASE UNCHANGED vars
  BY <1>5 DEF vars, tables
<1> QED
  BY <1>1, <1>2, <1>3, <1>4, <1>5 DEF Next

(* one request holds the write lock at a time *)
LEMMA LockStep ==
  ASSUME TypeOK, LockHeld, RequestsInOrder, [Next]_vars
  PROVE  LockHeld'
<1> USE DEF TypeOK, LockHeld
<1>1. ASSUME NEW q \in Reqs, Begin(q) PROVE LockHeld'
  BY <1>1 DEF Begin
<1>2. ASSUME NEW q \in Reqs, StoreRow(q) PROVE LockHeld'
  BY <1>2 DEF StoreRow
<1>3. ASSUME NEW q \in Reqs, RefuseRow(q) \/ Abort(q) \/ Commit(q) PROVE LockHeld'
  <2>1. writer = q /\ writer' = None /\ phase' = [phase EXCEPT ![q] = "done"]
    BY <1>3 DEF RefuseRow, Abort, Commit, Pending, Answer, Done, Release
  <2> QED
    BY <2>1
<1>4. CASE \A q \in Reqs : ~Begin(q) /\ ~StoreRow(q) /\ ~RefuseRow(q) /\ ~Abort(q) /\ ~Commit(q)
  BY <1>4, QuietStep DEF txn
<1> QED
  BY <1>1, <1>2, <1>3, <1>4

(* a transaction keeps what is committed, and what it has executed *)
LEMMA WorkStep ==
  ASSUME TypeOK, LockHeld, WorkExtends, RequestsInOrder, NoOrphans, [Next]_vars
  PROVE  WorkExtends'
<1> USE DEF WorkExtends
<1>1. ASSUME NEW q \in Reqs, Begin(q) PROVE WorkExtends'
  <2>1. writer' = q /\ work' = rows /\ rows' = rows /\ executions' = executions
    BY <1>1 DEF Begin, tables
  <2>2. stored'[q] = 0
    BY <1>1 DEF Begin, RequestsInOrder
  <2>3. Len(batch'[q]) \in Nat
    BY <1>1, BatchIsItems DEF Begin, TypeOK
  <2> QED
    BY <2>1, <2>2, <2>3 DEF NoOrphans
<1>2. ASSUME NEW q \in Reqs, StoreRow(q) PROVE WorkExtends'
  <2> DEFINE it == NextItem(q)
             row == [row |-> it.row, by |-> q]
  <2>1. /\ writer = q /\ writer' = q /\ rows' = rows /\ executions' = executions
        /\ batch' = batch /\ Storable(it)
        /\ work' = [work EXCEPT ![it.id] = row]
        /\ stored' = [stored EXCEPT ![q] = @ + 1]
    BY <1>2 DEF StoreRow, Pending, tables
  <2>2. /\ it \in Items /\ it.id \in Ids /\ row # None
        /\ stored[q] + 1 \in 1..Len(batch[q])
    BY <1>2, NextIsAnItem, RowIsARow DEF StoreRow
  <2>3. \A i \in Ids : work'[i] = IF i = it.id THEN row ELSE work[i]
    BY <2>1, <2>2 DEF TypeOK
  <2>4. /\ stored'[q] = stored[q] + 1 /\ stored[q] \in Nat
        /\ it = batch[q][stored[q] + 1] /\ batch[q] \in Seq(Items)
    BY <2>1 DEF TypeOK, NextItem
  <2>5. \A i \in Ids : work'[i] # None => executions[work'[i].row.exec] # None
    BY <2>1, <2>3 DEF Storable
  <2>6. \A i \in Ids : rows[i] # None =>
          work'[i] # None /\ work'[i].row.exec = rows[i].row.exec
    BY <2>1, <2>2, <2>3 DEF Storable
  <2>7. ASSUME NEW k \in 1..stored'[q]
        PROVE  /\ work'[batch[q][k].id] # None
               /\ work'[batch[q][k].id].row.exec = batch[q][k].row.exec
    <3>1. k \in 1..stored[q] \/ k = stored[q] + 1
      BY <2>4
    <3>2. batch[q][k] \in Items /\ batch[q][k].id \in Ids
      <4>1. Len(batch[q]) \in Nat
        BY <2>4
      <4>2. k \in 1..Len(batch[q])
        BY <2>2, <2>4, <3>1, <4>1
      <4>3. batch[q][k] \in Items
        BY <2>4, <4>2
      <4> QED
        BY <4>3 DEF Items
    <3>3. CASE k = stored[q] + 1
      BY <2>2, <2>3, <2>4, <3>3
    <3>4. CASE k \in 1..stored[q]
      BY <2>1, <2>2, <2>3, <3>2, <3>4 DEF Storable
    <3> QED
      BY <3>1, <3>3, <3>4
  <2> QED
    BY <2>1, <2>2, <2>4, <2>5, <2>6, <2>7
<1>3. ASSUME NEW q \in Reqs, RefuseRow(q) \/ Abort(q) \/ Commit(q) PROVE WorkExtends'
  BY <1>3 DEF RefuseRow, Abort, Commit, Release
<1>4. CASE \A q \in Reqs : ~Begin(q) /\ ~StoreRow(q) /\ ~RefuseRow(q) /\ ~Abort(q) /\ ~Commit(q)
  <2>1. UNCHANGED <<rows, writer, work, batch, stored>>
    BY <1>4, QuietStep DEF txn
  <2>2. \A i \in Ids : work[i] # None => work[i].row.exec \in Execs
    BY DEF TypeOK, Rows, Contents
  <2> QED
    BY <2>1, <2>2, ExecutionsStay
<1> QED
  BY <1>1, <1>2, <1>3, <1>4

(* rows are written by requests that committed them, and by the writer *)
LEMMA AuthorStep ==
  ASSUME TypeOK, LockHeld, AuthorsKnown, RequestsInOrder, [Next]_vars
  PROVE  AuthorsKnown'
<1> USE DEF AuthorsKnown
<1>0. \A i \in Ids : /\ rows[i] # None => rows[i].by \in Reqs
                     /\ work[i] # None => work[i].by \in Reqs
  BY DEF TypeOK, Rows
<1>1. \A p \in Reqs : reply[p] \in {"accepted", "lost"} => reply'[p] \in {"accepted", "lost"}
  BY RepliesStay
<1>2. ASSUME NEW q \in Reqs, Begin(q) PROVE AuthorsKnown'
  BY <1>0, <1>1, <1>2 DEF Begin, tables
<1>3. ASSUME NEW q \in Reqs, StoreRow(q) PROVE AuthorsKnown'
  <2> DEFINE row == [row |-> NextItem(q).row, by |-> q]
  <2>1. /\ writer = q /\ writer' = q /\ rows' = rows /\ reply' = reply
        /\ work' = [work EXCEPT ![NextItem(q).id] = row]
    BY <1>3 DEF StoreRow, Pending, tables
  <2>2. NextItem(q).id \in Ids
    BY <1>3, NextIsAnItem DEF StoreRow
  <2>3. \A i \in Ids : work'[i] = IF i = NextItem(q).id THEN row ELSE work[i]
    BY <2>1, <2>2 DEF TypeOK
  <2> QED
    BY <2>1, <2>3
<1>4. ASSUME NEW q \in Reqs, RefuseRow(q) \/ Abort(q) PROVE AuthorsKnown'
  BY <1>0, <1>1, <1>4 DEF RefuseRow, Abort, Release, Rollback
<1>5. ASSUME NEW q \in Reqs, Commit(q) PROVE AuthorsKnown'
  <2>1. writer = q /\ writer' = None /\ rows' = work
    BY <1>5 DEF Commit, Release
  <2>2. reply'[q] \in {"accepted", "lost"}
    BY <1>5 DEF Commit, Answer, Done, TypeOK
  <2> QED
    BY <1>0, <1>1, <2>1, <2>2
<1>6. CASE \A q \in Reqs : ~Begin(q) /\ ~StoreRow(q) /\ ~RefuseRow(q) /\ ~Abort(q) /\ ~Commit(q)
  BY <1>0, <1>1, <1>6, QuietStep DEF txn
<1> QED
  BY <1>2, <1>3, <1>4, <1>5, <1>6

(* a request is answered when it is done and not before *)
LEMMA OrderStep ==
  ASSUME TypeOK, LockHeld, RequestsInOrder, [Next]_vars
  PROVE  RequestsInOrder'
<1> USE DEF TypeOK, RequestsInOrder, tables, txn
<1>1. ASSUME NEW q \in Reqs, Reject(q) \/ Fail(q) \/ PutExecution(q) \/ NothingToIngest(q)
      PROVE  RequestsInOrder'
  <2>1. PICK from \in {"new", "reading"}, r \in {"accepted", "rejected", "error", "lost"} :
          Done(q, from, r)
    BY <1>1 DEF Reject, Fail, PutExecution, NothingToIngest, Answer
  <2>2. UNCHANGED <<decisions, batch, stored, seen>>
    BY <1>1 DEF Reject, Fail, PutExecution, NothingToIngest
  <2> QED
    BY <2>1, <2>2, ExecutionsStay DEF Done, Seen
<1>2. ASSUME NEW q \in Reqs, Begin(q) PROVE RequestsInOrder'
  BY <1>2 DEF Begin
<1>3. ASSUME NEW q \in Reqs, StoreRow(q) PROVE RequestsInOrder'
  <2>1. phase[q] = "rows"
    BY <1>3 DEF StoreRow, Pending, LockHeld
  <2> QED
    BY <1>3, <2>1 DEF StoreRow
<1>4. ASSUME NEW q \in Reqs, RefuseRow(q) \/ Abort(q) \/ Commit(q)
      PROVE  RequestsInOrder'
  <2>1. PICK r \in {"accepted", "rejected", "error", "lost"} : Done(q, "rows", r)
    BY <1>4 DEF RefuseRow, Abort, Commit, Answer
  <2>2. /\ UNCHANGED <<executions, decisions, seen>>
        /\ stored' = [stored EXCEPT ![q] = 0]
        /\ \E b : batch' = [batch EXCEPT ![q] = b]
    BY <1>4 DEF RefuseRow, Abort, Commit, Release
  <2> QED
    BY <2>1, <2>2 DEF Done
<1>5. ASSUME NEW q \in Reqs, ReadExecution(q) PROVE RequestsInOrder'
  <2>1. PICK x \in Execs :
          /\ executions[x] # None
          /\ seen' = [seen EXCEPT ![q] = [exec |-> x, env |-> executions[x]]]
    BY <1>5 DEF ReadExecution
  <2>2. [exec |-> x, env |-> executions[x]] # None
    BY <2>1 DEF Seen
  <2> QED
    BY <1>5, <2>1, <2>2 DEF ReadExecution
<1>6. ASSUME NEW q \in Reqs, Evaluate(q) PROVE RequestsInOrder'
  <2>1. PICK r \in {"decided", "unsaved", "lost"} : Done(q, "reading", r)
    BY <1>6 DEF Evaluate, SaveDecision, Answer
  <2>2. /\ UNCHANGED <<executions, batch, stored, seen>>
        /\ \/ decisions' = decisions
           \/ \E d : decisions' = [decisions EXCEPT ![q] = d]
    BY <1>6 DEF Evaluate, SaveDecision
  <2> QED
    BY <2>1, <2>2 DEF Done
<1>7. CASE UNCHANGED vars
  BY <1>7 DEF vars
<1> QED
  BY <1>1, <1>2, <1>3, <1>4, <1>5, <1>6, <1>7 DEF Next

(* the only step that changes committed rows is the commit of the writer *)
LEMMA RowsChange ==
  ASSUME [Next]_vars
  PROVE  rows' = rows \/ \E q \in Reqs : Commit(q)
  BY DEF Next, vars, tables, Reject, Fail, PutExecution, NothingToIngest, Begin, StoreRow,
         RefuseRow, Abort, Rollback, ReadExecution, Evaluate

(* the only step that changes stored decisions is an evaluation *)
LEMMA DecisionsChange ==
  ASSUME [Next]_vars
  PROVE  decisions' = decisions \/ \E q \in Reqs : Evaluate(q)
  BY DEF Next, vars, tables, Reject, Fail, PutExecution, NothingToIngest, Begin, StoreRow,
         RefuseRow, Abort, Commit, ReadExecution

(* no row and no decision loses its execution *)
LEMMA OrphanStep ==
  ASSUME TypeOK, LockHeld, WorkExtends, RequestsInOrder, NoOrphans, [Next]_vars
  PROVE  NoOrphans'
<1>1. ASSUME NEW i \in Ids, rows'[i] # None PROVE executions'[rows'[i].row.exec] # None
  <2>1. rows'[i] \in Rows /\ rows'[i].row.exec \in Execs
    BY <1>1, TypeStep DEF TypeOK, Rows, Contents
  <2>2. CASE rows' = rows
    BY <1>1, <2>1, <2>2, ExecutionsStay DEF NoOrphans
  <2>3. CASE \E q \in Reqs : Commit(q)
    BY <1>1, <2>1, <2>3, ExecutionsStay DEF WorkExtends, Commit
  <2> QED
    BY <2>2, <2>3, RowsChange
<1>2. ASSUME NEW p \in Reqs, decisions'[p] # None PROVE executions'[decisions'[p].exec] # None
  <2>1. decisions'[p].exec \in Execs
    BY <1>2, TypeStep DEF TypeOK, Decisions
  <2>2. CASE decisions'[p] = decisions[p]
    BY <1>2, <2>1, <2>2, ExecutionsStay DEF NoOrphans
  <2>3. ASSUME NEW q \in Reqs, Evaluate(q), decisions'[p] # decisions[p]
        PROVE  executions'[decisions'[p].exec] # None
    <3>1. PICK rules \in RuleLists :
            \E passed \in [rules -> Passes(seen[q].exec)] :
              LET d == Decision(q, rules, passed) IN
              /\ d \in Decisions /\ d # None /\ executions[d.exec] # None
              /\ SaveDecision(q, d)
      BY <2>3, MadeDecision
    <3>2. PICK passed \in [rules -> Passes(seen[q].exec)] :
            LET d == Decision(q, rules, passed) IN
            /\ d \in Decisions /\ d # None /\ executions[d.exec] # None
            /\ SaveDecision(q, d)
      BY <3>1
    <3>3. decisions'[p] = Decision(q, rules, passed)
      BY <2>3, <3>2 DEF SaveDecision, TypeOK
    <3> QED
      BY <2>1, <3>2, <3>3, ExecutionsStay
  <2> QED
    BY <2>2, <2>3, DecisionsChange
<1> QED
  BY <1>1, <1>2 DEF NoOrphans

(* a batch is stored as a whole or not at all *)
LEMMA WholeStep ==
  ASSUME TypeOK, LockHeld, WorkExtends, AuthorsKnown, RequestsInOrder, AllOrNothing,
         [Next]_vars
  PROVE  AllOrNothing'
<1>1. ASSUME NEW p \in Reqs, reply'[p] \in {"none", "rejected", "error"},
             NEW i \in Ids, rows'[i] # None
      PROVE  rows'[i].by # p
  <2>1. reply[p] \in {"none", "rejected", "error"}
    BY <1>1, RepliesStay
  <2>2. CASE rows' = rows
    BY <1>1, <2>1, <2>2 DEF AllOrNothing
  <2>3. ASSUME NEW q \in Reqs, Commit(q) PROVE rows'[i].by # p
    <3>1. writer = q /\ rows' = work /\ phase[q] = "rows"
      BY <2>3 DEF Commit, Answer, Done
    <3>2. reply'[q] \in {"accepted", "lost"}
      BY <2>3 DEF Commit, Answer, Done, TypeOK
    <3> QED
      BY <1>1, <2>1, <3>1, <3>2 DEF AuthorsKnown
  <2> QED
    BY <2>2, <2>3, RowsChange
<1>2. ASSUME NEW p \in Reqs, reply'[p] = "accepted", NEW k \in DOMAIN batch'[p]
      PROVE  /\ rows'[batch'[p][k].id] # None
             /\ rows'[batch'[p][k].id].row.exec = batch'[p][k].row.exec
  <2>1. batch'[p] \in Seq(Items)
    BY TypeStep DEF TypeOK
  <2>2. k \in 1..Len(batch'[p]) /\ batch'[p][k] \in Items
    BY <1>2, <2>1
  <2>3. batch'[p][k].id \in Ids
    BY <2>2 DEF Items
  <2>4. CASE reply[p] = "accepted"
    <3>1. batch'[p] = batch[p]
      BY <2>4, RepliesStay
    <3>2. /\ rows[batch'[p][k].id] # None
          /\ rows[batch'[p][k].id].row.exec = batch'[p][k].row.exec
      BY <1>2, <2>4, <3>1 DEF AllOrNothing
    <3>3. ASSUME NEW q \in Reqs, Commit(q)
          PROVE  /\ rows'[batch'[p][k].id] # None
                 /\ rows'[batch'[p][k].id].row.exec = batch'[p][k].row.exec
      BY <2>3, <3>2, <3>3 DEF Commit, WorkExtends
    <3> QED
      BY <3>2, <3>3, RowsChange
  <2>5. CASE reply[p] # "accepted" /\ Commit(p)
    <3>1. /\ writer = p /\ rows' = work /\ stored[p] = Len(batch[p])
          /\ batch' = [batch EXCEPT ![p] = batch[p]]
      BY <2>5 DEF Commit, Release
    <3>2. batch'[p] = batch[p]
      BY <3>1 DEF TypeOK
    <3> QED
      BY <2>2, <3>1, <3>2 DEF WorkExtends
  <2>6. CASE reply[p] # "accepted" /\ ~Commit(p)
    <3>1. reply[p] = "none"
      BY <1>2, <2>6, RepliesStay
    <3>2. PutExecution(p) \/ NothingToIngest(p)
      <4>1. ASSUME NEW q \in Reqs, NEW r, NEW from, Done(q, from, r), r # "accepted"
            PROVE  FALSE
        BY <1>2, <2>6, <4>1 DEF Done, TypeOK
      <4>2. ASSUME NEW q \in Reqs, q # p, NEW r, NEW from, Done(q, from, r)
            PROVE  FALSE
        BY <1>2, <2>6, <4>2 DEF Done, TypeOK
      <4>3. ~(reply' = reply)
        BY <1>2, <2>6
      <4> QED
        BY <2>6, <4>1, <4>2, <4>3
        DEF Next, vars, Reject, Fail, PutExecution, NothingToIngest, Begin, StoreRow,
            RefuseRow, Abort, Commit, ReadExecution, Evaluate, SaveDecision, Answer
    <3>3. batch' = batch /\ phase[p] = "new"
      BY <3>2 DEF PutExecution, NothingToIngest, Answer, Done
    <3> QED
      BY <1>2, <3>3 DEF RequestsInOrder
  <2> QED
    BY <2>4, <2>5, <2>6
<1> QED
  BY <1>1, <1>2 DEF AllOrNothing

(* the reply says whether the decision is stored *)
LEMMA TellStep ==
  ASSUME TypeOK, LockHeld, RequestsInOrder, DecisionsAsTold, [Next]_vars
  PROVE  DecisionsAsTold'
<1>1. ASSUME NEW p \in Reqs
      PROVE  /\ reply'[p] = "decided" => decisions'[p] # None
             /\ reply'[p] \in {"none", "accepted", "unsaved", "rejected", "error"} =>
                  decisions'[p] = None
  <2>1. CASE reply[p] # "none"
    BY <2>1, RepliesStay DEF DecisionsAsTold
  <2>2. CASE reply[p] = "none" /\ Evaluate(p)
    <3>1. PICK rules \in RuleLists :
            \E passed \in [rules -> Passes(seen[p].exec)] :
              LET d == Decision(p, rules, passed) IN
              /\ d \in Decisions /\ d # None /\ executions[d.exec] # None
              /\ SaveDecision(p, d)
      BY <2>2, MadeDecision
    <3>2. PICK d \in Decisions : d # None /\ SaveDecision(p, d)
      BY <3>1
    <3>3. decisions[p] = None
      BY <2>2 DEF DecisionsAsTold
    <3> QED
      BY <3>2, <3>3 DEF SaveDecision, Answer, Done, TypeOK
  <2>3. CASE reply[p] = "none" /\ ~Evaluate(p)
    <3>1. decisions[p] = None
      BY <2>3 DEF DecisionsAsTold
    <3>2. decisions'[p] = decisions[p]
      <4>1. ASSUME NEW q \in Reqs, Evaluate(q), q # p PROVE decisions'[p] = decisions[p]
        BY <4>1 DEF Evaluate, SaveDecision, TypeOK
      <4> QED
        BY <2>3, <4>1, DecisionsChange
    <3>3. reply'[p] # "decided"
      <4>1. ASSUME NEW q \in Reqs, NEW r, NEW from, Done(q, from, r), r # "decided" \/ q # p
            PROVE  reply'[p] # "decided"
        BY <2>3, <4>1 DEF Done, TypeOK
      <4>2. CASE reply' = reply
        BY <2>3, <4>2
      <4> QED
        BY <2>3, <4>1, <4>2
        DEF Next, vars, Reject, Fail, PutExecution, NothingToIngest, Begin, StoreRow,
            RefuseRow, Abort, Commit, ReadExecution, Evaluate, SaveDecision, Answer
    <3> QED
      BY <3>1, <3>2, <3>3
  <2> QED
    BY <2>1, <2>2, <2>3
<1> QED
  BY <1>1 DEF DecisionsAsTold

(* a new batch is the report of its request, or names ids seen before *)
LEMMA BatchOwnsIds ==
  ASSUME TypeOK, RequestsInOrder, OwnIds, NEW q \in Reqs, phase[q] = "new",
         NEW b \in Batches(q)
  PROVE  \/ b \in JunitReports(q)
         \/ \A k \in 1..Len(b) : b[k].id[2] \in Names \/ reply[b[k].id[2]] # "none"
<1>1. ASSUME NEW t \in Tables, NEW i \in Nameable(t)
      PROVE  i[2] \in Names \/ reply[i[2]] # "none"
  <2>1. i \in Ids /\ (i[2] \in Names \/ rows[i] # None)
    BY <1>1 DEF Nameable
  <2>2. i = <<i[1], i[2]>> /\ i[1] \in Tables /\ i[2] \in Names \cup Reqs
    BY <2>1 DEF Ids
  <2> QED
    BY <2>1, <2>2 DEF OwnIds
<1>2. ASSUME NEW e \in EvidenceItems
      PROVE  e.id[2] \in Names \/ reply[e.id[2]] # "none"
  <2>1. PICK i \in Nameable("evidence"), x \in Execs : e = Item(i, x, "meets")
    BY DEF EvidenceItems
  <2> QED
    BY <1>1, <2>1 DEF Item, Tables
<1>3. ASSUME NEW e \in SignalItems
      PROVE  e.id[2] \in Names \/ reply[e.id[2]] # "none"
  <2>1. PICK i \in Nameable("signal"), x \in Execs, v \in Values : e = Item(i, x, v)
    BY DEF SignalItems
  <2> QED
    BY <1>1, <2>1 DEF Item, Tables
<1>4. ASSUME NEW S, b \in SeqsUpTo(S, MaxBatch), NEW k \in 1..Len(b) PROVE b[k] \in S
  BY <1>4 DEF SeqsUpTo
<1> QED
  BY <1>2, <1>3, <1>4 DEF Batches

(* the ids of a report are its own, and a transaction backs the signals *)
LEMMA OwnStep ==
  ASSUME TypeOK, LockHeld, WorkExtends, RequestsInOrder, OwnIds, ReportsAreBacked,
         [Next]_vars
  PROVE  OwnIds'
<1> USE DEF OwnIds
<1>0. \A p \in Reqs : reply[p] # "none" => reply'[p] # "none"
  BY RepliesStay
<1>1. ASSUME NEW q \in Reqs, Begin(q) PROVE OwnIds'
  <2>1. /\ phase[q] = "new" /\ writer' = q /\ work' = rows
        /\ UNCHANGED <<rows, reply>>
    BY <1>1 DEF Begin, tables
  <2>2. /\ batch'[q] \in Batches(q)
    BY <1>1 DEF Begin, TypeOK
  <2>3. \/ batch'[q] \in JunitReports(q)
        \/ \A k \in 1..Len(batch'[q]) :
             LET n == batch'[q][k].id[2] IN n \in Names \/ reply[n] # "none"
    BY <2>1, <2>2, BatchOwnsIds
  <2>4. batch'[q] \in JunitReports(q) => batch'[q] \in JunitReports(q)'
    BY DEF JunitReports
  <2>5. JunitReports(writer)' = JunitReports(q)
    BY <2>1 DEF JunitReports
  <2> QED
    BY <2>1, <2>3, <2>5 DEF ReportsAreBacked
<1>2. ASSUME NEW q \in Reqs, StoreRow(q) PROVE OwnIds'
  <2> DEFINE it == NextItem(q)
             row == [row |-> it.row, by |-> q]
  <2>1. /\ writer = q /\ writer' = q /\ Storable(it) /\ UNCHANGED <<rows, reply, batch>>
        /\ work' = [work EXCEPT ![it.id] = row]
    BY <1>2 DEF StoreRow, Pending, tables
  <2>2. /\ it.id \in Ids /\ row # None /\ stored[q] + 1 \in 1..Len(batch[q])
        /\ stored[q] \in Nat
    BY <1>2, NextIsAnItem, RowIsARow DEF StoreRow, TypeOK
  <2>3. \A i \in Ids : work'[i] = IF i = it.id THEN row ELSE work[i]
    BY <2>1, <2>2 DEF TypeOK
  <2>4. reply[q] = "none"
    BY <2>1 DEF LockHeld, RequestsInOrder
  <2>5. it.id = <<"evidence", q>> \/ it.id = <<"signal", q>>
          \/ it.id[2] \in Names \/ reply[it.id[2]] # "none"
    <3>1. CASE batch[q] \in JunitReports(q)
      <4>1. PICK x \in Execs, v \in Values :
              batch[q] = <<Item(<<"evidence", q>>, x, "meets"), Item(<<"signal", q>>, x, v)>>
        BY <3>1 DEF JunitReports
      <4>2. it = Item(<<"evidence", q>>, x, "meets") \/ it = Item(<<"signal", q>>, x, v)
        BY <2>2, <4>1 DEF NextItem
      <4> QED
        BY <4>2 DEF Item
    <3>2. CASE \A k \in 1..Len(batch[q]) :
                 LET n == batch[q][k].id[2] IN n \in Names \/ reply[n] # "none"
      BY <2>2, <3>2 DEF NextItem
    <3> QED
      BY <2>1, <3>1, <3>2
  <2>6. ASSUME NEW p \in Reqs, NEW t \in Tables, work'[<<t, p>>] # None
        PROVE  p = q \/ reply'[p] # "none"
    <3>1. <<t, p>> \in Ids
      BY DEF Ids
    <3>2. CASE <<t, p>> = it.id
      BY <2>1, <2>5, <3>2
    <3>3. CASE <<t, p>> # it.id
      BY <2>1, <2>3, <2>6, <3>1, <3>3
    <3> QED
      BY <3>2, <3>3
  <2>7. ASSUME NEW p \in Reqs,
               work'[<<"signal", p>>] # None, work'[<<"signal", p>>].by = p
        PROVE  /\ work'[<<"evidence", p>>] # None
               /\ work'[<<"evidence", p>>].row.exec = work'[<<"signal", p>>].row.exec
    <3>1. <<"evidence", p>> \in Ids /\ <<"signal", p>> \in Ids
      BY OwnIdsAreIds
    <3>2. CASE it.id = <<"signal", p>>
      <4>1. p = q
        BY <2>3, <2>7, <3>1, <3>2
      <4>2. batch[q] \in JunitReports(q)
        BY <2>1, <2>2, <2>4, <3>2, <4>1 DEF NextItem
      <4>3. PICK x \in Execs, v \in Values :
              batch[q] = <<Item(<<"evidence", q>>, x, "meets"), Item(<<"signal", q>>, x, v)>>
        BY <4>2 DEF JunitReports
      <4>4. /\ batch[q][1].id = <<"evidence", q>> /\ batch[q][1].row.exec = x
            /\ batch[q][2].row.exec = x /\ Len(batch[q]) = 2
        BY <4>3 DEF Item
      <4>5. stored[q] = 1
        BY <2>2, <3>2, <4>1, <4>4 DEF NextItem
      <4>6. /\ work[<<"evidence", q>>] # None
            /\ work[<<"evidence", q>>].row.exec = x
        BY <2>1, <4>4, <4>5 DEF WorkExtends
      <4> QED
        BY <2>3, <3>1, <3>2, <4>1, <4>4, <4>5, <4>6 DEF NextItem
    <3>3. CASE it.id # <<"signal", p>>
      <4>1. /\ work[<<"evidence", p>>] # None
            /\ work[<<"evidence", p>>].row.exec = work'[<<"signal", p>>].row.exec
        BY <2>1, <2>3, <2>7, <3>1, <3>3
      <4>2. it.id = <<"evidence", p>> =>
              it.row.exec = work[<<"evidence", p>>].row.exec
        BY <2>1, <4>1 DEF Storable
      <4>3. row.row.exec = it.row.exec
        OBVIOUS
      <4>4. /\ work'[<<"evidence", p>>] # None
            /\ work'[<<"evidence", p>>].row.exec = work[<<"evidence", p>>].row.exec
        BY <2>2, <2>3, <3>1, <4>1, <4>2, <4>3
      <4> QED
        BY <4>1, <4>4
    <3> QED
      BY <3>2, <3>3
  <2>8. JunitReports(writer)' = JunitReports(writer)
    BY <2>1 DEF JunitReports
  <2> QED
    BY <2>1, <2>6, <2>7, <2>8
<1>3. ASSUME NEW q \in Reqs, RefuseRow(q) \/ Abort(q) PROVE OwnIds'
  BY <1>0, <1>3 DEF RefuseRow, Abort, Release, Rollback
<1>4. ASSUME NEW q \in Reqs, Commit(q) PROVE OwnIds'
  <2>1. writer = q /\ writer' = None /\ rows' = work
    BY <1>4 DEF Commit, Release
  <2>2. reply'[q] # "none"
    BY <1>4 DEF Commit, Answer, Done, TypeOK
  <2> QED
    BY <1>0, <2>1, <2>2
<1>5. CASE \A q \in Reqs : ~Begin(q) /\ ~StoreRow(q) /\ ~RefuseRow(q) /\ ~Abort(q) /\ ~Commit(q)
  <2>1. UNCHANGED <<rows, writer, work, batch>>
    BY <1>5, QuietStep DEF txn
  <2>2. JunitReports(writer)' = JunitReports(writer)
    BY <2>1 DEF JunitReports
  <2>3. ASSUME writer # None,
               NEW k \in 1..Len(batch[writer]),
               LET n == batch[writer][k].id[2] IN n \in Names \/ reply[n] # "none"
        PROVE  LET n == batch[writer][k].id[2] IN n \in Names \/ reply'[n] # "none"
    <3>1. writer \in Reqs /\ batch[writer] \in Seq(Items)
      BY <2>3 DEF TypeOK
    <3>2. batch[writer][k] \in Items
      BY <2>3, <3>1
    <3>3. batch[writer][k].id[2] \in Names \cup Reqs
      BY <3>2 DEF Items, Ids
    <3> QED
      BY <1>0, <2>3, <3>3
  <2> QED
    BY <1>0, <2>1, <2>2, <2>3
<1> QED
  BY <1>1, <1>2, <1>3, <1>4, <1>5

(* the evidence of a report stays with its signals *)
LEMMA BackedStep ==
  ASSUME OwnIds, ReportsAreBacked, [Next]_vars, WorkExtends, LockHeld, TypeOK
  PROVE  ReportsAreBacked'
<1>1. ASSUME NEW q \in Reqs, Commit(q) PROVE ReportsAreBacked'
  BY <1>1 DEF Commit, OwnIds, ReportsAreBacked, TypeOK
<1>2. CASE rows' = rows
  BY <1>2 DEF ReportsAreBacked
<1> QED
  BY <1>1, <1>2, RowsChange

(* one more item of a batch is applied after those before it *)
LEMMA WrittenMore ==
  ASSUME NEW old, NEW new, NEW next, NEW b \in Seq(Items), NEW q \in Reqs,
         NEW n \in Nat, n + 1 \in 1..Len(b), Store!Written(old, new, b, n, q),
         \A i \in Ids : next[i] = IF i = b[n + 1].id THEN [row |-> b[n + 1].row, by |-> q]
                                  ELSE new[i]
  PROVE  Store!Written(old, next, b, n + 1, q)
<1> DEFINE hits(i, m) == {k \in 1..m : b[k].id = i}
           row(k) == [row |-> b[k].row, by |-> q]
<1>1. \A i \in Ids :
        IF hits(i, n) = {} THEN new[i] = old[i]
        ELSE \E k \in hits(i, n) : (\A j \in hits(i, n) : j <= k) /\ new[i] = row(k)
  BY DEF Store!Written
<1>2. ASSUME NEW i \in Ids
      PROVE  IF hits(i, n + 1) = {} THEN next[i] = old[i]
             ELSE \E k \in hits(i, n + 1) :
                    (\A j \in hits(i, n + 1) : j <= k) /\ next[i] = row(k)
  <2>1. CASE i = b[n + 1].id
    <3>1. n + 1 \in hits(i, n + 1) /\ next[i] = row(n + 1)
      BY <2>1
    <3>2. \A j \in hits(i, n + 1) : j <= n + 1
      OBVIOUS
    <3> QED
      BY <3>1, <3>2
  <2>2. CASE i # b[n + 1].id
    <3>1. hits(i, n + 1) = hits(i, n) /\ next[i] = new[i]
      BY <2>2
    <3> QED
      BY <1>1, <3>1
  <2> QED
    BY <2>1, <2>2
<1> QED
  BY <1>2 DEF Store!Written

(* what a transaction will commit is its batch, as far as it has come *)
LEMMA BatchStep ==
  ASSUME TypeOK, LockHeld, RequestsInOrder, WorkIsBatch, [Next]_vars
  PROVE  WorkIsBatch'
<1> USE DEF WorkIsBatch
<1>1. ASSUME NEW q \in Reqs, Begin(q) PROVE WorkIsBatch'
  <2>1. writer' = q /\ work' = rows /\ rows' = rows /\ stored'[q] = 0
    BY <1>1 DEF Begin, tables, RequestsInOrder
  <2>2. Store!Written(rows, rows, batch'[q], 0, q)
    BY DEF Store!Written
  <2> QED
    BY <2>1, <2>2
<1>2. ASSUME NEW q \in Reqs, StoreRow(q) PROVE WorkIsBatch'
  <2> DEFINE it == NextItem(q)
             n == stored[q]
  <2>1. /\ writer = q /\ writer' = q /\ rows' = rows /\ batch' = batch
        /\ work' = [work EXCEPT ![it.id] = [row |-> it.row, by |-> q]]
        /\ stored' = [stored EXCEPT ![q] = @ + 1]
    BY <1>2 DEF StoreRow, Pending, tables
  <2>2. /\ n \in Nat /\ stored'[q] = n + 1 /\ n + 1 \in 1..Len(batch[q])
        /\ batch[q] \in Seq(Items) /\ it = batch[q][n + 1]
    BY <1>2, <2>1, NextIsAnItem DEF StoreRow, TypeOK, NextItem
  <2>3. \A i \in Ids : work'[i] = IF i = it.id THEN [row |-> it.row, by |-> q] ELSE work[i]
    BY <1>2, <2>1, NextIsAnItem DEF StoreRow, TypeOK
  <2>4. Store!Written(rows, work, batch[q], n, q)
    BY <2>1, <1>2 DEF LockHeld
  <2>5. Store!Written(rows, work', batch[q], n + 1, q)
    BY <2>2, <2>3, <2>4, WrittenMore
  <2> QED
    BY <2>1, <2>2, <2>5
<1>3. ASSUME NEW q \in Reqs, RefuseRow(q) \/ Abort(q) \/ Commit(q) PROVE WorkIsBatch'
  BY <1>3 DEF RefuseRow, Abort, Commit, Release
<1>4. CASE \A q \in Reqs : ~Begin(q) /\ ~StoreRow(q) /\ ~RefuseRow(q) /\ ~Abort(q) /\ ~Commit(q)
  BY <1>4, QuietStep DEF txn
<1> QED
  BY <1>1, <1>2, <1>3, <1>4

(* IndInv holds of every behaviour *)
THEOREM IngestInductive == Spec => []IndInv
<1>1. Init => IndInv
  <2> SUFFICES ASSUME Init PROVE IndInv
    OBVIOUS
  <2> USE DEF Init
  <2>1. TypeOK
    <3>1. <<>> \in Seq(Items)
      OBVIOUS
    <3> QED
      BY <3>1 DEF TypeOK
  <2>2. LockHeld /\ WorkExtends /\ WorkIsBatch /\ RequestsInOrder
    BY DEF LockHeld, WorkExtends, WorkIsBatch, RequestsInOrder
  <2>3. AuthorsKnown /\ NoOrphans
    BY DEF AuthorsKnown, NoOrphans
  <2>4. AllOrNothing /\ DecisionsAsTold
    BY DEF AllOrNothing, DecisionsAsTold
  <2>5. \A q \in Reqs, t \in Tables : rows[<<t, q>>] = None
    BY DEF Ids
  <2>6. OwnIds /\ ReportsAreBacked
    BY <2>5 DEF OwnIds, ReportsAreBacked, Tables
  <2> QED
    BY <2>1, <2>2, <2>3, <2>4, <2>6 DEF IndInv
<1>2. IndInv /\ [Next]_vars => IndInv'
  BY TypeStep, LockStep, WorkStep, BatchStep, AuthorStep, OrderStep, OrphanStep, WholeStep, TellStep,
     OwnStep, BackedStep DEF IndInv
<1> QED
  BY <1>1, <1>2, PTL DEF Spec

(* Rows and decisions belong to executions that exist. *)
THEOREM RowsHaveExecutions == Spec => []NoOrphans
<1>1. IndInv => NoOrphans
  BY DEF IndInv
<1> QED
  BY <1>1, IngestInductive, PTL

(* A batch is stored as a whole or not at all. *)
THEOREM BatchesAreAtomic == Spec => []AllOrNothing
<1>1. IndInv => AllOrNothing
  BY DEF IndInv
<1> QED
  BY <1>1, IngestInductive, PTL

(* A stored decision can be read again exactly if the reply said so. *)
THEOREM RepliesAreTrue == Spec => []DecisionsAsTold
<1>1. IndInv => DecisionsAsTold
  BY DEF IndInv
<1> QED
  BY <1>1, IngestInductive, PTL

(* The signals of a JUnit report keep the evidence they cite. *)
THEOREM SignalsAreBacked == Spec => []ReportsAreBacked
<1>1. IndInv => ReportsAreBacked
  BY DEF IndInv
<1> QED
  BY <1>1, IngestInductive, PTL

(* No step moves a stored row to another execution, or removes it. *)
THEOREM RowsKeepExecution == Spec => OwnerIsForever
<1>1. IndInv /\ [Next]_vars =>
        [\A i \in Ids : rows[i] # None =>
           rows'[i] # None /\ rows'[i].row.exec = rows[i].row.exec]_vars
  <2> SUFFICES ASSUME IndInv, [Next]_vars
               PROVE  \A i \in Ids : rows[i] # None =>
                        rows'[i] # None /\ rows'[i].row.exec = rows[i].row.exec
    OBVIOUS
  <2>1. ASSUME NEW q \in Reqs, Commit(q)
        PROVE  \A i \in Ids : rows[i] # None =>
                 rows'[i] # None /\ rows'[i].row.exec = rows[i].row.exec
    BY <2>1 DEF IndInv, WorkExtends, Commit
  <2>2. CASE rows' = rows
    BY <2>2
  <2> QED
    BY <2>1, <2>2, RowsChange
<1> QED
  BY <1>1, IngestInductive, PTL DEF Spec, OwnerIsForever

(* a rule that is in scope and does not fail has a signal that meets it *)
LEMMA AllowNeedsSignal ==
  ASSUME NEW x \in Execs, NEW rules \in RuleLists, NEW env,
         NEW passed \in [rules -> Passes(x)], Outcome(rules, env, passed) = "allow",
         NEW rl \in rules, InScope(rl, env)
  PROVE  \E i \in Signals(x) : rows[i].row.value = "meets"
<1>1. rl.mode \in {"hard", "advisory"}
  BY DEF Rules
<1>2. passed[rl]
  <2> SUFFICES ASSUME ~passed[rl] PROVE FALSE
    OBVIOUS
  <2>1. rl.mode \in {r.mode : r \in {y \in rules : InScope(y, env) /\ ~passed[y]}}
    OBVIOUS
  <2> QED
    BY <1>1, <2>1 DEF Outcome
<1>3. passed[rl] \in Passes(x)
  OBVIOUS
<1> QED
  BY <1>2, <1>3, Zenon DEF Passes

(* An execution that a rule is about is allowed only on a stored signal. *)
THEOREM AllowsAreGrounded == Spec => AllowIsGrounded
<1>1. IndInv /\ [Next]_vars =>
        [\A q \in Reqs :
           LET d == decisions'[q] IN
           decisions[q] = None /\ d # None /\ d.outcome = "allow"
             /\ (\E r \in d.rules : InScope(r, seen[q].env)) =>
               \E i \in Signals(d.exec) : rows[i].row.value = "meets"]_vars
  <2> SUFFICES ASSUME IndInv, [Next]_vars, NEW p \in Reqs,
                      decisions[p] = None, decisions'[p] # None,
                      decisions'[p].outcome = "allow",
                      NEW rl \in decisions'[p].rules, InScope(rl, seen[p].env)
               PROVE  \E i \in Signals(decisions'[p].exec) : rows[i].row.value = "meets"
    OBVIOUS
  <2>1. PICK q \in Reqs : Evaluate(q)
    BY DecisionsChange
  <2>2. PICK rules \in RuleLists :
          \E passed \in [rules -> Passes(seen[q].exec)] :
            SaveDecision(q, Decision(q, rules, passed))
    BY <2>1 DEF Evaluate
  <2>3. PICK passed \in [rules -> Passes(seen[q].exec)] :
          SaveDecision(q, Decision(q, rules, passed))
    BY <2>2
  <2>4. p = q /\ decisions'[p] = Decision(q, rules, passed)
    BY <2>3 DEF SaveDecision, IndInv, TypeOK
  <2>5. /\ decisions'[p].exec = seen[q].exec /\ decisions'[p].rules = rules
        /\ Outcome(rules, seen[q].env, passed) = "allow"
    BY <2>4 DEF Decision
  <2>6. seen[q].exec \in Execs
    BY <2>1 DEF Evaluate, IndInv, RequestsInOrder, TypeOK, Seen
  <2> QED
    BY <2>4, <2>5, <2>6, AllowNeedsSignal
<1> QED
  BY <1>1, IngestInductive, PTL DEF Spec, AllowIsGrounded

(* a reply shows the items of its request, and no others are shown *)
LEMMA ToldStep ==
  ASSUME TypeOK, RequestsInOrder, NEW q \in Reqs, NEW from, NEW r, r # "none",
         phase[q] # "done", Done(q, from, r),
         \A p \in Reqs : p # q => batch'[p] = batch[p]
  PROVE  /\ Store!Tell(q, r)
         /\ Answered'[q] = batch'[q] /\ Answered[q] = <<>>
         /\ \A p \in Reqs \ {q} : Answered'[p] = Answered[p]
         /\ batch'[q] = <<>> => Answered' = Answered
<1>1. reply[q] = "none" /\ reply' = [reply EXCEPT ![q] = r]
  BY DEF RequestsInOrder, Done
<1>2. \A p \in Reqs : reply'[p] = IF p = q THEN r ELSE reply[p]
  BY <1>1 DEF TypeOK
<1>3. /\ Answered'[q] = batch'[q] /\ Answered[q] = <<>>
      /\ \A p \in Reqs \ {q} : Answered'[p] = Answered[p]
  BY <1>1, <1>2 DEF Answered
<1>4. batch'[q] = <<>> => Answered' = Answered
  <2> SUFFICES ASSUME batch'[q] = <<>> PROVE Answered' = Answered
    OBVIOUS
  <2>1. \A p \in Reqs : Answered'[p] = Answered[p]
    BY <1>3
  <2> QED
    BY <2>1 DEF Answered
<1> QED
  BY <1>1, <1>3, <1>4 DEF Store!Tell

(* nothing is shown while no reply is sent and answered requests are let be *)
LEMMA UntoldStep ==
  ASSUME TypeOK, LockHeld, RequestsInOrder, [Next]_vars, reply' = reply
  PROVE  Answered' = Answered
<1>1. \A p \in Reqs : reply[p] # "none" => batch'[p] = batch[p]
  BY RepliesStay
<1> QED
  BY <1>1 DEF Answered

(* a transaction commits its whole batch, each item under its execution *)
LEMMA CommitIngests ==
  ASSUME IndInv, NEW q \in Reqs, Commit(q)
  PROVE  /\ \E r \in {"accepted", "lost"} : Store!Tell(q, r)
         /\ Store!Ingest(q)
<1> USE DEF IndInv
<1> DEFINE b == batch[q]
<1>1. /\ writer = q /\ q # None /\ stored[q] = Len(b) /\ rows' = work
      /\ UNCHANGED <<executions, decisions, seen>>
      /\ phase[q] # "done"
  BY DEF Commit, Answer, Done
<1>2. batch' = batch
  BY DEF Commit, Release, TypeOK
<1>3. PICK r \in {"accepted", "lost"} : Done(q, "rows", r)
  BY DEF Commit, Answer
<1>4. Store!Tell(q, r) /\ Answered'[q] = b /\ \A p \in Reqs \ {q} : Answered'[p] = Answered[p]
  BY <1>1, <1>2, <1>3, ToldStep
<1>5. b \in Seq(Items) /\ b \in Seq(Store!Items)
  BY DEF TypeOK, Items, Store!Items
<1>6. Store!Written(rows, rows', b, Len(b), q)
  BY <1>1 DEF WorkIsBatch
<1>7. Store!Storable(b)
  <2>1. ASSUME NEW k \in 1..Len(b)
        PROVE  /\ b[k].id \in Ids /\ work[b[k].id] # None
               /\ work[b[k].id].row.exec = b[k].row.exec
    <3>1. b[k] \in Items
      BY <1>5
    <3>2. k \in 1..stored[writer] /\ batch[writer] = b
      BY <1>1
    <3> QED
      BY <1>1, <3>1, <3>2 DEF WorkExtends, Items
  <2>2. ASSUME NEW k \in 1..Len(b)
        PROVE  /\ executions[b[k].row.exec] # None
               /\ rows[b[k].id] # None => rows[b[k].id].row.exec = b[k].row.exec
    BY <1>1, <2>1 DEF WorkExtends
  <2>3. ASSUME NEW k \in 1..Len(b), NEW j \in 1..Len(b), b[j].id = b[k].id
        PROVE  b[j].row.exec = b[k].row.exec
    BY <2>1, <2>3
  <2> QED
    BY <2>2, <2>3 DEF Store!Storable
<1> QED
  BY <1>1, <1>4, <1>5, <1>6, <1>7 DEF Store!Ingest

(* what the rules yield is justified by the signals they have looked at *)
LEMMA OutcomeIsJustified ==
  ASSUME NEW x \in Execs, NEW rules \in RuleLists, NEW env,
         NEW passed \in [rules -> Passes(x)]
  PROVE  Store!Justified([exec |-> x, rules |-> rules, outcome |-> Outcome(rules, env, passed)], env)
<1> DEFINE d == [exec |-> x, rules |-> rules, outcome |-> Outcome(rules, env, passed)]
           scoped == {r \in rules : r.scope = {} \/ env \in r.scope}
           failed == {r \in scoped : ~passed[r]}
           modes == {r.mode : r \in {y \in rules : InScope(y, env) /\ ~passed[y]}}
<1>1. {y \in rules : InScope(y, env) /\ ~passed[y]} = failed
  BY DEF InScope
<1>2. \A r \in failed : r.mode \in {"hard", "advisory"}
  BY DEF Rules
<1>3. modes = {r.mode : r \in failed}
  BY <1>1
<1>4. /\ "hard" \in modes <=> \E r \in failed : r.mode = "hard"
      /\ "advisory" \in modes <=> \E r \in failed : r.mode = "advisory"
  BY <1>3
<1>5. Outcome(rules, env, passed) =
        IF "hard" \in modes THEN "block" ELSE IF "advisory" \in modes THEN "advisory" ELSE "allow"
  BY DEF Outcome
<1>6. /\ d.outcome = "block" <=> \E r \in failed : r.mode = "hard"
      /\ d.outcome = "allow" <=> failed = {}
  <2> HIDE DEF failed, modes
  <2> QED
    BY <1>2, <1>4, <1>5
<1>7. ASSUME scoped # failed
      PROVE  \E i \in Ids : /\ i[1] = "signal" /\ rows[i] # None
                            /\ rows[i].row.exec = x /\ rows[i].row.value = "meets"
  <2>1. PICK r \in rules : passed[r]
    BY <1>7
  <2>2. passed[r] \in Passes(x)
    OBVIOUS
  <2>3. \E i \in Signals(x) : rows[i].row.value = "meets"
    BY <2>1, <2>2, Zenon DEF Passes
  <2> QED
    BY <2>3 DEF Signals
<1>8. /\ failed \in SUBSET scoped
      /\ d.exec = x /\ d.rules = rules
  OBVIOUS
<1> HIDE DEF d, failed, modes
<1> QED
  BY <1>6, <1>7, <1>8 DEF Store!Justified, d

(* every step of the API is a step of the atomic store, or shows nothing *)
LEMMA StoreStep ==
  ASSUME IndInv, [Next]_vars
  PROVE  [Store!Next]_Store!vars
<1> USE DEF IndInv, tables, txn
<1>1. ASSUME NEW q \in Reqs, Reject(q) \/ Fail(q) PROVE Store!Next
  <2>1. PICK from \in {"new", "reading"}, r \in {"rejected", "error"} : Done(q, from, r)
    BY <1>1 DEF Reject, Fail
  <2>2. UNCHANGED <<executions, rows, decisions, batch, seen>>
    BY <1>1 DEF Reject, Fail
  <2>3. phase[q] \in {"new", "reading"} /\ batch'[q] = <<>>
    BY <2>1, <2>2 DEF Done, RequestsInOrder
  <2>4. Store!Tell(q, r) /\ Answered' = Answered
    BY <2>1, <2>2, <2>3, ToldStep
  <2> QED
    BY <2>2, <2>4 DEF Store!Next, Store!Nothing
<1>2. ASSUME NEW q \in Reqs, PutExecution(q) PROVE Store!Next
  <2>1. PICK x \in Execs, v \in Envs, r \in {"accepted", "lost"} :
          Done(q, "new", r) /\ executions' = [executions EXCEPT ![x] = v]
    BY <1>2 DEF PutExecution, Answer
  <2>2. UNCHANGED <<rows, decisions, batch, seen>>
    BY <1>2 DEF PutExecution
  <2>3. phase[q] = "new" /\ batch'[q] = <<>>
    BY <2>1, <2>2 DEF Done, RequestsInOrder
  <2>4. Store!Tell(q, r) /\ Answered' = Answered
    BY <2>1, <2>2, <2>3, ToldStep
  <2> QED
    BY <2>1, <2>2, <2>4 DEF Store!Next, Store!Put
<1>3. ASSUME NEW q \in Reqs, NothingToIngest(q) PROVE Store!Next
  <2>1. PICK r \in {"accepted", "lost"} : Done(q, "new", r)
    BY <1>3 DEF NothingToIngest, Answer
  <2>2. UNCHANGED <<executions, rows, decisions, batch, seen>>
    BY <1>3 DEF NothingToIngest
  <2>3. phase[q] = "new" /\ batch'[q] = <<>>
    BY <2>1, <2>2 DEF Done, RequestsInOrder
  <2>4. /\ Store!Tell(q, r) /\ Answered'[q] = <<>> /\ Answered' = Answered
    BY <2>1, <2>2, <2>3, ToldStep
  <2>5. /\ <<>> \in Seq(Store!Items) /\ Len(<<>>) = 0
        /\ Store!Storable(<<>>) /\ Store!Written(rows, rows, <<>>, 0, q)
    BY DEF Store!Storable, Store!Written
  <2>6. Store!Ingest(q)
    BY <2>2, <2>4, <2>5 DEF Store!Ingest
  <2> QED
    BY <2>4, <2>6 DEF Store!Next
<1>4. ASSUME NEW q \in Reqs, Begin(q) \/ StoreRow(q) PROVE UNCHANGED Store!vars
  <2>1. UNCHANGED <<executions, rows, decisions, seen, reply>>
    BY <1>4 DEF Begin, StoreRow
  <2> QED
    BY <2>1, UntoldStep DEF Store!vars
<1>5. ASSUME NEW q \in Reqs, RefuseRow(q) \/ Abort(q) PROVE Store!Next
  <2>1. PICK r \in {"rejected", "error", "lost"} : Done(q, "rows", r)
    BY <1>5 DEF RefuseRow, Abort
  <2>2. /\ UNCHANGED <<executions, rows, decisions, seen>>
        /\ batch' = [batch EXCEPT ![q] = <<>>]
    BY <1>5 DEF RefuseRow, Abort, Rollback, Release
  <2>3. phase[q] = "rows"
    BY <2>1 DEF Done
  <2>4. Store!Tell(q, r) /\ Answered' = Answered
    BY <2>1, <2>2, <2>3, ToldStep DEF TypeOK
  <2> QED
    BY <2>2, <2>4 DEF Store!Next, Store!Nothing
<1>6. ASSUME NEW q \in Reqs, Commit(q) PROVE Store!Next
  BY <1>6, CommitIngests DEF Store!Next
<1>7. ASSUME NEW q \in Reqs, ReadExecution(q) PROVE Store!Next
  <2>1. PICK x \in Execs :
          /\ executions[x] # None
          /\ seen' = [seen EXCEPT ![q] = [exec |-> x, env |-> executions[x]]]
    BY <1>7 DEF ReadExecution
  <2>2. /\ phase[q] = "new" /\ UNCHANGED <<executions, rows, decisions, reply>>
    BY <1>7 DEF ReadExecution
  <2>3. reply[q] = "none" /\ seen[q] = None
    BY <2>2 DEF RequestsInOrder
  <2>4. Answered' = Answered
    BY <2>2, UntoldStep
  <2> QED
    BY <2>1, <2>2, <2>3, <2>4 DEF Store!Next, Store!Look
<1>8. ASSUME NEW q \in Reqs, Evaluate(q) PROVE Store!Next
  <2>1. PICK rules \in RuleLists : \E passed \in [rules -> Passes(seen[q].exec)] :
          SaveDecision(q, Decision(q, rules, passed))
    BY <1>8 DEF Evaluate
  <2>2. PICK passed \in [rules -> Passes(seen[q].exec)] :
          SaveDecision(q, Decision(q, rules, passed))
    BY <2>1
  <2> DEFINE d == Decision(q, rules, passed)
  <2>3. /\ phase[q] = "reading" /\ UNCHANGED <<executions, rows, batch, seen>>
        /\ batch'[q] = <<>> /\ seen[q] \in Seen /\ seen[q] # None
    BY <1>8 DEF Evaluate, RequestsInOrder, TypeOK
  <2>4. PICK r \in {"decided", "unsaved", "lost"} : Done(q, "reading", r)
    BY <2>2 DEF SaveDecision, Answer
  <2>5. Store!Tell(q, r) /\ Answered' = Answered
    BY <2>3, <2>4, ToldStep
  <2>6. CASE UNCHANGED decisions /\ Done(q, "reading", "unsaved")
    <3>1. Store!Tell(q, "unsaved")
      BY <2>3, <2>6, ToldStep
    <3> QED
      BY <2>3, <2>5, <2>6, <3>1 DEF Store!Next, Store!Nothing
  <2>7. CASE decisions' = [decisions EXCEPT ![q] = d] /\ Answer(q, "reading", "decided")
    <3>1. PICK s \in {"decided", "lost"} : Done(q, "reading", s)
      BY <2>7 DEF Answer
    <3>2. Store!Tell(q, s)
      BY <2>3, <3>1, ToldStep
    <3>3. seen[q].exec \in Execs
      BY <2>3 DEF Seen
    <3>4. d = [exec |-> seen[q].exec, rules |-> rules,
               outcome |-> Outcome(rules, seen[q].env, passed)]
      BY DEF Decision
    <3>5. Store!Justified(d, seen[q].env) /\ d.exec = seen[q].exec
      BY <3>3, <3>4, OutcomeIsJustified
    <3>6. d \in Decisions
      BY <3>3, <3>4 DEF Decisions, Outcomes, Outcome
    <3> HIDE DEF d
    <3>7. Store!Decide(q, d)
      BY <2>3, <2>5, <2>7, <3>5 DEF Store!Decide
    <3> QED
      BY <3>2, <3>6, <3>7 DEF Store!Next
  <2> HIDE DEF d
  <2> QED
    BY <2>2, <2>6, <2>7 DEF SaveDecision, d
<1>9. CASE UNCHANGED vars
  BY <1>9 DEF vars, Store!vars, Answered
<1> QED
  BY <1>1, <1>2, <1>3, <1>4, <1>5, <1>6, <1>7, <1>8, <1>9 DEF Next

(* The API, with its transactions, concurrent requests, faults and lost    *)
(* replies, implements the store in which every request is one step.       *)
THEOREM IngestImplementsStore == Spec => ImplementsStore
<1>1. Init => Store!Init
  <2> SUFFICES ASSUME Init PROVE Store!Init
    OBVIOUS
  <2>1. Answered = [q \in Reqs |-> <<>>]
    BY DEF Init, Answered
  <2> QED
    BY <2>1 DEF Init, Store!Init
<1>2. IndInv /\ [Next]_vars => [Store!Next]_Store!vars
  BY StoreStep
<1> QED
  BY <1>1, <1>2, IngestInductive, PTL DEF Spec, ImplementsStore, Store!Spec
=============================================================================
