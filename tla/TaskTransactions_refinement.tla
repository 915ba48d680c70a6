-------------------- MODULE TaskTransactions_refinement --------------------
(***************************************************************************)
(* The transactions implement the atomic requests of TaskControl, for      *)
(* every workspace and however many of them are open at once.              *)
(*                                                                         *)
(* The steps before a commit change no table.  A commit is the atomic      *)
(* request because what its transaction checked is still true: either the  *)
(* rows it decided on are locked (Decided, Held), or any commit that       *)
(* could have changed them has also lengthened the audit chain, and then   *)
(* this transaction is not Current and its event is refused.               *)
(***************************************************************************)
EXTENDS TaskTransactions_proofs, TaskControl_proofs

(* The copy of the organization row is the row: no event since.            *)
Current(x) == x.seq = Len(audit)

----------------------------------------------------------------------------
(* Human transactions                                                      *)

(* What a human request carries.                                           *)
HumanTyped(x) ==
    /\ x.op \in {"connect", "revoke"} => x.arg.conn \in Connectors
    /\ x.op = "safety" => x.arg.level \in SafetyLevel
    /\ x.op = "decide" => /\ x.arg.task \in Tasks
                          /\ x.arg.by \in Approvers
                          /\ x.arg.decision \in {"approved", "rejected"}
    /\ x.op = "create" => /\ x.arg.task \in Tasks
                          /\ x.arg.by \in Creators
                          /\ x.arg.action \in Actions
                          /\ x.arg.dry \in BOOLEAN
                          /\ x.arg.conn \in Connectors
                          /\ x.arg.prior \in Tasks \cup {None}

(* How far each kind of request can have got.                              *)
HumanStage(x) ==
    /\ x.op \in {"none", "connect", "revoke", "create", "decide", "safety"}
    /\ x.op = "none" => x = NoTxn
    /\ x.op \in {"connect", "create"} =>
          x.pc \in {"loaded", "checked", "ready", "locked", "flushed"}
    /\ x.op \in {"revoke", "decide"} => x.pc \in {"loaded", "ready", "locked", "flushed"}
    /\ x.op = "safety" => x.pc \in {"loaded", "safety", "locked", "flushed"}

(* The task and its approval are as decide_task found them.                *)
Decided(x) ==
    /\ x.rows = {x.arg.task}
    /\ status[x.arg.task] = "awaiting_approval"
    /\ approval[x.arg.task].status = "pending"
    /\ ~(approval[x.arg.task].expires < x.clock)
    /\ MayDecide(x.arg.by, x.arg.task)

HumanFacts(x) ==
    /\ HumanTyped(x)
    /\ HumanStage(x)
    /\ x.op # "none" => x.clock \in HumanClock
    /\ x.op # "none" /\ Current(x) => x.level = safety
    /\ x.op = "connect" /\ x.pc # "loaded" /\ Current(x) => presence[x.arg.conn] = "absent"
    /\ x.op = "revoke" /\ x.pc # "loaded" => presence[x.arg.conn] # "absent"
    /\ x.op = "create" /\ x.pc # "loaded" /\ Current(x) => MayCreate(x)
    /\ x.op = "decide" /\ x.pc # "loaded" => Decided(x)
    /\ x.op = "safety" /\ x.pc \in {"locked", "flushed"} => x.rows = Stoppable(x.arg.level)

----------------------------------------------------------------------------
(* Connector transactions                                                  *)

ConnectorTyped(x) ==
    x.op \in {"renew", "complete"} =>
        /\ x.arg.task \in Tasks
        /\ x.arg.n \in 1 .. MaxLeases
        /\ x.op = "complete" => x.arg.outcome \in {"succeeded", "failed"}

ConnectorStage(x) ==
    /\ x.op \in {"none", "lease", "renew", "complete"}
    /\ x.op = "none" => x = NoTxn
    /\ x.op = "lease" =>
          x.pc \in {"begun", "loaded", "requeued", "ready", "locked", "flushed"}
    /\ x.op = "renew" => x.pc \in {"begun", "gate", "flushed"}
    /\ x.op = "complete" => x.pc \in {"begun", "ready", "locked", "flushed"}

(* The task lease_task took and those it requeues.                         *)
Taken(r, x) ==
    /\ x.arg.task \in Tasks
    /\ x.rows = x.arg.back \cup {x.arg.task}
    /\ Current(x) => /\ x.arg.back = Requeued(request[r].conn, x.clock)
                     /\ x.arg.task \in Leasable(request[r].conn, x.clock)
                     /\ lease[x.arg.task].issued < MaxLeases

(* The lease a renewal or a completion found in force.                     *)
Held(r, x) ==
    /\ x.rows = {x.arg.task}
    /\ HoldsLease(r, x.arg.task, x.arg.n)
    /\ x.op = "renew" => /\ lease[x.arg.task].until > x.clock
                         /\ lease[x.arg.task].until <= x.clock + LeaseTime
    /\ x.op = "complete" => /\ ReceiptMatches(x.arg.task, x.arg.n)
                            /\ ~(lease[x.arg.task].until < x.clock)

ConnectorFacts(r, x) ==
    /\ ConnectorTyped(x)
    /\ ConnectorStage(x)
    /\ request[r].at <= now
    /\ x.op # "none" => request[r] # Idle
    /\ x.op # "none" /\ x.pc # "begun" => x.clock \in ClockReadings(r)
    /\ x.op = "lease" /\ x.pc # "begun" => /\ x.level \notin Closed
                                           /\ Current(x) => x.level = safety
    /\ x.op = "lease" /\ x.pc = "requeued" /\ Current(x) =>
          x.rows = Requeued(request[r].conn, x.clock)
    /\ x.op = "lease" /\ x.pc \in {"ready", "locked", "flushed"} => Taken(r, x)
    /\ x.op \in {"renew", "complete"} /\ x.pc # "begun" => Held(r, x)

----------------------------------------------------------------------------
(* No task row is locked twice, and no lease outlives its time.            *)
RowsApart == \A i, j \in Slot : i # j => txn[i].rows \cap txn[j].rows = {}

LeaseBounded == \A t \in Tasks : lease[t].until <= now + LeaseTime

Facts ==
    /\ \A h \in Sessions : HumanFacts(txn[h])
    /\ \A r \in Requests : ConnectorFacts(r, txn[r])
    /\ RowsApart
    /\ LeaseBounded

TxnInv == TypeOK /\ AuditInv /\ Facts

----------------------------------------------------------------------------
(* The idle transaction satisfies everything.                              *)
LEMMA IdleHuman == HumanFacts(NoTxn)
  BY DEF HumanFacts, HumanTyped, HumanStage, NoTxn

LEMMA IdleConnector ==
    ASSUME NEW r \in Requests, request[r].at <= now
    PROVE  ConnectorFacts(r, NoTxn)
  BY DEF ConnectorFacts, ConnectorTyped, ConnectorStage, NoTxn

(* At first no transaction is open.                                        *)
LEMMA InitTxn == TInit => TxnInv
<1> SUFFICES ASSUME TInit PROVE TxnInv
  OBVIOUS
<1>1. Init /\ txn = [i \in Slot |-> NoTxn]
  BY DEF TInit
<1>2. TypeOK /\ AuditInv
  BY <1>1, InitTypeOK, InitAudit
<1>3. \A h \in Sessions : HumanFacts(txn[h])
  BY <1>1, IdleHuman DEF Slot
<1>4. \A r \in Requests : request[r].at <= now
  BY <1>1 DEF Init, Idle
<1>5. \A r \in Requests : ConnectorFacts(r, txn[r])
  BY <1>1, <1>4, IdleConnector DEF Slot
<1>6. RowsApart
  BY <1>1 DEF RowsApart, NoTxn
<1>7. LeaseBounded
  BY <1>1, ControlAssumption DEF LeaseBounded, Init, NoLease
<1> QED
  BY <1>2, <1>3, <1>5, <1>6, <1>7 DEF TxnInv, Facts

----------------------------------------------------------------------------
(* Every commit is one atomic request                                      *)

(* Who runs what, and that an event is numbered by a current copy.         *)
LEMMA Committing ==
    ASSUME TxnInv, NEW i \in Slot, Commit(i)
    PROVE  /\ txn[i].pc = "flushed" /\ txn[i].op # "none"
           /\ txn[i].op # "renew" => Current(txn[i])
           /\ \/ /\ i \in Sessions /\ HumanFacts(txn[i])
                 /\ txn[i].op \in {"connect", "revoke", "create", "decide", "safety"}
                 /\ request' = request
              \/ /\ i \in Requests /\ ConnectorFacts(i, txn[i])
                 /\ txn[i].op \in {"lease", "renew", "complete"}
                 /\ request[i] # Idle
                 /\ request' = [request EXCEPT ![i] = Idle]
<1>1. txn[i].pc = "flushed" /\ txn[i].op # "none"
  BY DEF Commit
<1>2. txn[i].op # "renew" => Current(txn[i])
  BY <1>1, AuditOf DEF TxnInv, Current
<1>3. request' = IF i \in Requests THEN [request EXCEPT ![i] = Idle] ELSE request
  BY DEF Commit
<1>4. CASE i \in Sessions
  <2>1. i \notin Requests /\ HumanFacts(txn[i])
    BY <1>4, TransactionAssumption DEF TxnInv, Facts
  <2> QED
    BY <1>1, <1>2, <1>3, <1>4, <2>1 DEF HumanFacts, HumanStage
<1>5. CASE i \in Requests
  <2>1. ConnectorFacts(i, txn[i])
    BY <1>5 DEF TxnInv, Facts, Facts
  <2> QED
    BY <1>1, <1>2, <1>3, <1>5, <2>1 DEF ConnectorFacts, ConnectorStage
<1> QED
  BY <1>4, <1>5 DEF Slot

(* create_connector                                                        *)
LEMMA ConnectRefines ==
    ASSUME TxnInv, NEW i \in Slot, Commit(i), txn[i].op = "connect"
    PROVE  Next
<1> DEFINE c == txn[i].arg.conn
<1>1. /\ c \in Connectors /\ presence[c] = "absent" /\ request' = request
  BY Committing DEF HumanFacts, HumanTyped
<1>2. CommitConnect(txn[i]) /\ now' = now
  BY DEF Commit
<1>3. CreateConnector(c, Actions)
  BY <1>1, <1>2 DEF CommitConnect, CreateConnector
<1> QED
  BY <1>1, <1>3 DEF Next, HumanRequest

(* revoke_connector                                                        *)
LEMMA RevokeRefines ==
    ASSUME TxnInv, NEW i \in Slot, Commit(i), txn[i].op = "revoke"
    PROVE  Next
<1> DEFINE c == txn[i].arg.conn
<1>1. /\ c \in Connectors /\ presence[c] # "absent" /\ request' = request
  BY Committing DEF HumanFacts, HumanTyped
<1>2. CommitRevoke(txn[i]) /\ now' = now
  BY DEF Commit
<1>3. RevokeConnector(c)
  BY <1>1, <1>2 DEF CommitRevoke, RevokeConnector
<1> QED
  BY <1>1, <1>3 DEF Next, HumanRequest

(* create_task                                                             *)
LEMMA CreateRefines ==
    ASSUME TxnInv, NEW i \in Slot, Commit(i), txn[i].op = "create"
    PROVE  Next
<1> DEFINE a == txn[i].arg
<1>1. /\ MayCreate(txn[i]) /\ txn[i].level = safety /\ txn[i].clock \in HumanClock
      /\ HumanTyped(txn[i]) /\ request' = request
  BY Committing DEF HumanFacts
<1>2. CommitCreate(txn[i]) /\ now' = now
  BY DEF Commit
<1>3. /\ a.task \in Tasks /\ a.by \in Creators /\ a.action \in Actions /\ a.dry \in BOOLEAN
      /\ a.conn \in Connectors /\ a.prior \in Tasks \cup {None}
  BY <1>1 DEF HumanTyped
<1>4. CreateTask(a.by, a.task, a.action, a.dry, a.conn, FALSE, a.prior)
  BY <1>1, <1>2, <1>3 DEF CommitCreate, CreateTask, MayCreate
<1>5. /\ a.by \in Users /\ a.conn \in Connectors \cup {None} /\ FALSE \in BOOLEAN
      /\ a.task \in Tasks /\ a.action \in Actions /\ a.dry \in BOOLEAN
      /\ a.prior \in Tasks \cup {None}
  BY <1>3, ControlAssumption
<1> HIDE DEF a
<1>6. HumanRequest
  BY <1>4, <1>5, Zenon DEF HumanRequest
<1> QED
  BY <1>6 DEF Next

(* decide_task                                                             *)
LEMMA DecideRefines ==
    ASSUME TxnInv, NEW i \in Slot, Commit(i), txn[i].op = "decide"
    PROVE  Next
<1> DEFINE a == txn[i].arg
<1>1. /\ Decided(txn[i]) /\ txn[i].clock \in HumanClock
      /\ HumanTyped(txn[i]) /\ request' = request
  BY Committing DEF HumanFacts
<1>2. CommitDecide(txn[i]) /\ now' = now
  BY DEF Commit
<1>3. a.task \in Tasks /\ a.by \in Approvers /\ a.decision \in {"approved", "rejected"}
  BY <1>1 DEF HumanTyped
<1>4. DecideTask(a.by, a.task, a.decision)
  BY <1>1, <1>2, <1>3 DEF CommitDecide, DecideTask, Decided
<1> HIDE DEF a
<1> QED
  BY <1>3, <1>4, ControlAssumption DEF Next, HumanRequest

(* update_safety                                                           *)
LEMMA SafetyRefines ==
    ASSUME TxnInv, NEW i \in Slot, Commit(i), txn[i].op = "safety"
    PROVE  Next
<1> DEFINE l == txn[i].arg.level
<1>1. /\ txn[i].rows = Stoppable(l) /\ l \in SafetyLevel /\ request' = request
  BY Committing DEF HumanFacts, HumanTyped
<1>2. CommitSafety(txn[i]) /\ now' = now
  BY DEF Commit
<1>3. UpdateSafety(l)
  BY <1>1, <1>2 DEF CommitSafety, UpdateSafety
<1> HIDE DEF l
<1> QED
  BY <1>1, <1>3 DEF Next, HumanRequest

(* lease_task                                                              *)
LEMMA LeaseRefines ==
    ASSUME TxnInv, NEW i \in Slot, Commit(i), txn[i].op = "lease"
    PROVE  Next
<1> DEFINE x == txn[i]
           t == x.arg.task
<1>1. /\ i \in Requests /\ request[i] # Idle /\ request' = [request EXCEPT ![i] = Idle]
      /\ x.pc = "flushed" /\ Current(x) /\ ConnectorFacts(i, x)
  BY Committing
<1>2. /\ x.level \notin Closed /\ x.level = safety /\ x.clock \in ClockReadings(i)
      /\ Taken(i, x)
  BY <1>1 DEF ConnectorFacts
<1>3. /\ t \in Tasks /\ x.arg.back = Requeued(request[i].conn, x.clock)
      /\ t \in Leasable(request[i].conn, x.clock) /\ lease[t].issued < MaxLeases
  BY <1>1, <1>2 DEF Taken
<1>4. CommitLease(i, x) /\ now' = now
  BY DEF Commit
<1>5. LeaseTask(i, t)
  BY <1>1, <1>2, <1>3, <1>4 DEF CommitLease, LeaseTask
<1> HIDE DEF x, t
<1> QED
  BY <1>1, <1>3, <1>5 DEF Next, ConnectorRequest

(* renew_task_lease                                                        *)
LEMMA RenewRefines ==
    ASSUME TxnInv, LeaseInv, NEW i \in Slot, Commit(i), txn[i].op = "renew"
    PROVE  Next
<1> DEFINE x == txn[i]
           t == x.arg.task
           n == x.arg.n
<1>1. /\ i \in Requests /\ request[i] # Idle /\ request' = [request EXCEPT ![i] = Idle]
      /\ x.pc = "flushed" /\ ConnectorFacts(i, x)
  BY Committing
<1>2. /\ x.clock \in ClockReadings(i) /\ Held(i, x) /\ t \in Tasks /\ n \in 1 .. MaxLeases
  BY <1>1 DEF ConnectorFacts, ConnectorTyped
<1>3. HoldsLease(i, t, n) /\ lease[t].until > x.clock
  BY <1>2 DEF Held
<1>4. safety \notin Closed
  BY <1>2, <1>3 DEF LeaseInv, SafetyStopsWork, HoldsLease
<1>5. CommitRenew(x) /\ now' = now
  BY DEF Commit
<1>6. RenewLease(i, t, n)
  BY <1>1, <1>2, <1>3, <1>4, <1>5 DEF CommitRenew, RenewLease
<1> HIDE DEF x, t, n
<1> QED
  BY <1>1, <1>2, <1>6 DEF Next, ConnectorRequest

(* complete_task                                                           *)
LEMMA CompleteRefines ==
    ASSUME TxnInv, NEW i \in Slot, Commit(i), txn[i].op = "complete"
    PROVE  Next
<1> DEFINE x == txn[i]
           t == x.arg.task
           n == x.arg.n
           o == x.arg.outcome
<1>1. /\ i \in Requests /\ request[i] # Idle /\ request' = [request EXCEPT ![i] = Idle]
      /\ x.pc = "flushed" /\ ConnectorFacts(i, x)
  BY Committing
<1>2. /\ x.clock \in ClockReadings(i) /\ Held(i, x) /\ t \in Tasks /\ n \in 1 .. MaxLeases
      /\ o \in {"succeeded", "failed"}
  BY <1>1 DEF ConnectorFacts, ConnectorTyped
<1>3. HoldsLease(i, t, n) /\ ReceiptMatches(t, n) /\ ~(lease[t].until < x.clock)
  BY <1>2 DEF Held
<1>4. CommitComplete(x) /\ now' = now
  BY DEF Commit
<1>5. CompleteTask(i, t, n, o)
  BY <1>1, <1>2, <1>3, <1>4 DEF CommitComplete, CompleteTask
<1> HIDE DEF x, t, n, o
<1> QED
  BY <1>1, <1>2, <1>5 DEF Next, ConnectorRequest

(* Every step is a step of TaskControl or changes none of its variables.   *)
LEMMA StepRefines == TxnInv /\ LeaseInv /\ [TNext]_allVars => [Next]_vars
<1> SUFFICES ASSUME TxnInv, LeaseInv, [TNext]_allVars PROVE [Next]_vars
  OBVIOUS
<1>1. ASSUME Uncommitted PROVE [Next]_vars
  BY <1>1 DEF Uncommitted, vars
<1>2. ASSUME NEW h \in Sessions,
             \/ \E in \in HumanInput : ResolveContext(h, in)
             \/ Check(h) \/ Insert(h) \/ LockDecision(h) \/ RefuseExpired(h)
             \/ LockSafety(h) \/ StopTasks(h)
      PROVE  [Next]_vars
  <2>1. Uncommitted
    BY <1>2 DEF ResolveContext, Check, Insert, LockDecision, RefuseExpired, LockSafety,
                StopTasks
  <2> QED
    BY <1>1, <2>1
<1>3. ASSUME NEW r \in Requests,
             \/ \E in \in ConnectorInput : BeginConnector(r, in)
             \/ LoadOrganization(r) \/ Requeue(r)
             \/ \E t \in Tasks : Pick(r, t)
             \/ LockLeased(r) \/ RenewGate(r)
      PROVE  [Next]_vars
  <2>1. Uncommitted
    BY <1>3 DEF BeginConnector, LoadOrganization, Requeue, Pick, LockLeased, RenewGate
  <2> QED
    BY <1>1, <2>1
<1>4. ASSUME NEW i \in Slot, LockOrganization(i) \/ Flush(i)
      PROVE  [Next]_vars
  <2>1. Uncommitted
    BY <1>4 DEF LockOrganization, Flush
  <2> QED
    BY <1>1, <2>1
<1>5. ASSUME NEW r \in Requests, NEW c \in Connectors, Admit(r, c)
      PROVE  [Next]_vars
  BY <1>5 DEF Admit, Next, ConnectorRequest
<1>6. CASE Pass
  BY <1>6 DEF Pass, Next
<1>7. ASSUME NEW i \in Slot, Rollback(i)
      PROVE  [Next]_vars
  <2>1. CASE i \in Requests
    <3>1. request[i] # Idle
      BY <1>7, <2>1 DEF Rollback, TxnInv, Facts, ConnectorFacts, ConnectorStage
    <3>2. EndRequest(i)
      BY <1>7, <2>1, <3>1 DEF Rollback, EndRequest
    <3> QED
      BY <2>1, <3>2 DEF Next, ConnectorRequest
  <2>2. CASE i \notin Requests
    BY <1>7, <2>2 DEF Rollback, vars
  <2> QED
    BY <2>1, <2>2
<1>8. ASSUME NEW i \in Slot, Commit(i)
      PROVE  [Next]_vars
  <2>1. txn[i].op \in {"connect", "revoke", "create", "decide", "safety", "lease", "renew",
                       "complete"}
    BY <1>8 DEF Commit
  <2> QED
    BY <1>8, <2>1, ConnectRefines, RevokeRefines, CreateRefines, DecideRefines,
       SafetyRefines, LeaseRefines, RenewRefines, CompleteRefines
<1>9. CASE UNCHANGED allVars
  BY <1>9 DEF allVars, vars
<1> QED
  BY <1>2, <1>3, <1>4, <1>5, <1>6, <1>7, <1>8, <1>9 DEF TNext

----------------------------------------------------------------------------
(* Steps before a commit keep what the transactions know                   *)

(* Whoever does not move still knows what it knew.                         *)
LEMMA HumanStays ==
    ASSUME Uncommitted, NEW j \in Slot, HumanFacts(txn[j]), txn'[j] = txn[j]
    PROVE  HumanFacts(txn[j])'
  BY DEF Uncommitted, orgVars, taskVars, connVars, HumanFacts, HumanTyped, HumanStage,
         Current, Decided, MayCreate, Validated, Allowlisted, MayDecide, Stoppable,
         HumanClock, NoTxn

LEMMA ConnectorStays ==
    ASSUME Uncommitted, NEW r \in Requests, ConnectorFacts(r, txn[r]), txn'[r] = txn[r]
    PROVE  ConnectorFacts(r, txn[r])'
  BY DEF Uncommitted, orgVars, taskVars, connVars, ConnectorFacts, ConnectorTyped,
         ConnectorStage, Current, Taken, Held, Requeued, Leasable, Expired, HoldsLease,
         ReceiptMatches, ClockReadings, NoTxn

(* So a step is judged by the transaction that takes it.                   *)
LEMMA FactsAdvance ==
    ASSUME TxnInv, Uncommitted, NEW i \in Slot,
           \A j \in Slot \ {i} : txn'[j] = txn[j],
           \A j \in Slot \ {i} : txn'[i].rows \cap txn[j].rows = {},
           i \in Sessions => HumanFacts(txn[i])',
           i \in Requests => ConnectorFacts(i, txn[i])'
    PROVE  Facts'
<1>1. /\ \A h \in Sessions : HumanFacts(txn[h])
      /\ \A r \in Requests : ConnectorFacts(r, txn[r])
      /\ RowsApart /\ LeaseBounded
  BY DEF TxnInv, Facts
<1>2. ASSUME NEW h \in Sessions PROVE HumanFacts(txn[h])'
  <2>1. CASE h = i
    BY <2>1
  <2>2. CASE h # i
    BY <1>1, <2>2, HumanStays DEF Slot
  <2> QED
    BY <2>1, <2>2
<1>3. ASSUME NEW r \in Requests PROVE ConnectorFacts(r, txn[r])'
  <2>1. CASE r = i
    BY <2>1
  <2>2. CASE r # i
    BY <1>1, <2>2, ConnectorStays DEF Slot
  <2> QED
    BY <2>1, <2>2
<1>4. RowsApart'
  BY <1>1 DEF RowsApart
<1>5. LeaseBounded'
  BY <1>1 DEF LeaseBounded, Uncommitted, taskVars
<1> QED
  BY <1>2, <1>3, <1>4, <1>5 DEF Facts

----------------------------------------------------------------------------
(* Human requests                                                          *)

(* What a human request may carry.                                         *)
LEMMA HumanInputTyped ==
    ASSUME NEW in \in HumanInput
    PROVE  /\ in.op \in {"connect", "revoke", "create", "decide", "safety"}
           /\ HumanTyped(in)
  BY TransactionAssumption DEF HumanInput, HumanTyped

(* A human transaction before and after it moves.                          *)
LEMMA HumanMoving ==
    ASSUME TxnInv, NEW h \in Sessions
    PROVE  /\ h \in Slot /\ h \notin Requests /\ Shape /\ HumanFacts(txn[h])
           /\ \A j \in Slot \ {h} : txn[h].rows \cap txn[j].rows = {}
  BY TransactionAssumption DEF TxnInv, AuditInv, Facts, RowsApart, Slot

(* resolve_context                                                         *)
LEMMA ResolveFacts ==
    ASSUME TxnInv, NEW h \in Sessions, NEW in \in HumanInput, ResolveContext(h, in)
    PROVE  Facts'
<1>1. Moves(h, in.op, in.arg, "loaded", safety, auditSeq, auditHead, now, {}, "none")
  BY HumanMoving, ResolveMoves
<1>2. /\ Uncommitted
      /\ \A j \in Slot \ {h} : txn'[j] = txn[j]
      /\ txn'[h].op = in.op /\ txn'[h].arg = in.arg /\ txn'[h].pc = "loaded"
      /\ txn'[h].level = safety /\ txn'[h].clock = now /\ txn'[h].rows = {}
  BY <1>1, HumanMoving, MovesFields DEF Moves
<1>3. /\ in.op \in {"connect", "revoke", "create", "decide", "safety"}
      /\ HumanTyped(in)
  BY HumanInputTyped
<1>4. now \in Nat
  BY DEF TxnInv, TypeOK
<1>5. HumanFacts(txn[h])'
  BY <1>2, <1>3, <1>4
     DEF Uncommitted, HumanFacts, HumanTyped, HumanStage, HumanClock
<1> QED
  BY <1>2, <1>5, HumanMoving, FactsAdvance

(* The checks of create_task and its kin.                                  *)
LEMMA CheckFacts ==
    ASSUME TxnInv, NEW h \in Sessions, Check(h)
    PROVE  Facts'
<1> DEFINE x == txn[h]
<1>1. Moves(h, x.op, x.arg, IF x.op = "revoke" THEN "ready" ELSE "checked",
            x.level, x.seq, x.head, x.clock, x.rows, x.org)
  BY HumanMoving, CheckMoves, Zenon
<1>2. /\ Uncommitted
      /\ \A j \in Slot \ {h} : txn'[j] = txn[j]
      /\ txn'[h].op = x.op /\ txn'[h].arg = x.arg /\ txn'[h].level = x.level
      /\ txn'[h].pc = (IF x.op = "revoke" THEN "ready" ELSE "checked")
      /\ txn'[h].seq = x.seq /\ txn'[h].clock = x.clock /\ txn'[h].rows = x.rows
  BY <1>1, HumanMoving, MovesFields DEF Moves
<1>3. /\ x.pc = "loaded" /\ x.op \in {"create", "connect", "revoke"}
      /\ x.op = "create" => MayCreate(x)
      /\ x.op = "connect" => presence[x.arg.conn] = "absent"
      /\ x.op = "revoke" => presence[x.arg.conn] # "absent"
  BY DEF Check
<1>4. HumanFacts(x)
  BY HumanMoving
<1> HIDE DEF x
<1>5. HumanFacts(txn[h])'
  BY <1>2, <1>3, <1>4
     DEF Uncommitted, orgVars, taskVars, connVars, HumanFacts, HumanTyped, HumanStage,
         Current, MayCreate, Validated, Allowlisted, HumanClock
<1>6. \A j \in Slot \ {h} : txn'[h].rows \cap txn[j].rows = {}
  BY <1>2, HumanMoving DEF x
<1> QED
  BY <1>2, <1>5, <1>6, HumanMoving, FactsAdvance

(* The flush of a new row.                                                 *)
LEMMA InsertFacts ==
    ASSUME TxnInv, NEW h \in Sessions, Insert(h)
    PROVE  Facts'
<1> DEFINE x == txn[h]
<1>1. Moves(h, x.op, x.arg, "ready", x.level, x.seq, x.head, x.clock, x.rows, "share")
  BY HumanMoving, InsertMoves, Zenon
<1>2. /\ Uncommitted
      /\ \A j \in Slot \ {h} : txn'[j] = txn[j]
      /\ txn'[h].op = x.op /\ txn'[h].arg = x.arg /\ txn'[h].level = x.level
      /\ txn'[h].pc = "ready" /\ txn'[h].seq = x.seq /\ txn'[h].clock = x.clock
      /\ txn'[h].rows = x.rows
  BY <1>1, HumanMoving, MovesFields DEF Moves
<1>3. x.pc = "checked"
  BY DEF Insert
<1>4. HumanFacts(x) /\ x.op \in {"create", "connect"}
  BY <1>3, HumanMoving DEF HumanFacts, HumanStage, NoTxn
<1> HIDE DEF x
<1>5. HumanFacts(txn[h])'
  BY <1>2, <1>3, <1>4
     DEF Uncommitted, orgVars, taskVars, connVars, HumanFacts, HumanTyped, HumanStage,
         Current, MayCreate, Validated, Allowlisted, HumanClock
<1>6. \A j \in Slot \ {h} : txn'[h].rows \cap txn[j].rows = {}
  BY <1>2, HumanMoving DEF x
<1> QED
  BY <1>2, <1>5, <1>6, HumanMoving, FactsAdvance

(* decide_task locks the task it decides on.                               *)
LEMMA DecisionFacts ==
    ASSUME TxnInv, NEW h \in Sessions, LockDecision(h)
    PROVE  Facts'
<1> DEFINE x == txn[h]
           t == x.arg.task
           rows == {t}
<1>1. Moves(h, x.op, x.arg, "ready", x.level, x.seq, x.head, now, rows, x.org)
  BY HumanMoving, DecisionMoves, Zenon
<1>2. \A j \in Slot \ {h} : t \notin txn[j].rows
  BY DEF LockDecision, RowFree
<1>3. /\ x.op = "decide" /\ x.pc = "loaded"
      /\ status[t] = "awaiting_approval" /\ approval[t].status = "pending"
      /\ ~(approval[t].expires < now) /\ MayDecide(x.arg.by, t)
  BY DEF LockDecision
<1>4. HumanFacts(x) /\ now \in Nat
  BY HumanMoving DEF TxnInv, TypeOK
<1> HIDE DEF x, rows
<1>5. /\ Uncommitted
      /\ \A j \in Slot \ {h} : txn'[j] = txn[j]
      /\ txn'[h].op = x.op /\ txn'[h].arg = x.arg /\ txn'[h].level = x.level
      /\ txn'[h].pc = "ready" /\ txn'[h].seq = x.seq /\ txn'[h].clock = now
      /\ txn'[h].rows = rows
  BY <1>1, HumanMoving, MovesFields DEF Moves
<1>6. HumanFacts(txn[h])'
  BY <1>3, <1>4, <1>5
     DEF rows, Uncommitted, orgVars, taskVars, HumanFacts, HumanTyped, HumanStage,
         Current, Decided, MayDecide, HumanClock
<1>7. \A j \in Slot \ {h} : txn'[h].rows \cap txn[j].rows = {}
  BY <1>2, <1>5 DEF rows
<1> QED
  BY <1>5, <1>6, <1>7, HumanMoving, FactsAdvance

(* update_safety locks the organization,                                   *)
LEMMA SafetyFacts ==
    ASSUME TxnInv, NEW h \in Sessions, LockSafety(h)
    PROVE  Facts'
<1> DEFINE x == txn[h]
<1>1. Moves(h, x.op, x.arg, "safety", x.level, x.seq, x.head, x.clock, x.rows, "update")
  BY HumanMoving, SafetyMoves, Zenon
<1>2. /\ Uncommitted
      /\ \A j \in Slot \ {h} : txn'[j] = txn[j]
      /\ txn'[h].op = x.op /\ txn'[h].arg = x.arg /\ txn'[h].level = x.level
      /\ txn'[h].pc = "safety" /\ txn'[h].seq = x.seq /\ txn'[h].clock = x.clock
      /\ txn'[h].rows = x.rows
  BY <1>1, HumanMoving, MovesFields DEF Moves
<1>3. x.op = "safety" /\ x.pc = "loaded"
  BY DEF LockSafety
<1>4. HumanFacts(x)
  BY HumanMoving
<1> HIDE DEF x
<1>5. HumanFacts(txn[h])'
  BY <1>2, <1>3, <1>4
     DEF Uncommitted, orgVars, HumanFacts, HumanTyped, HumanStage, Current, HumanClock
<1>6. \A j \in Slot \ {h} : txn'[h].rows \cap txn[j].rows = {}
  BY <1>2, HumanMoving DEF x
<1> QED
  BY <1>2, <1>5, <1>6, HumanMoving, FactsAdvance

(* and then every task it stops.                                           *)
LEMMA StopFacts ==
    ASSUME TxnInv, NEW h \in Sessions, StopTasks(h)
    PROVE  Facts'
<1> DEFINE x == txn[h]
           rows == Stoppable(x.arg.level)
<1>1. Moves(h, x.op, x.arg, "locked", x.level, x.seq, x.head, x.clock, rows, x.org)
  BY HumanMoving, StopMoves, Zenon
<1>2. \A j \in Slot \ {h} : \A t \in rows : t \notin txn[j].rows
  BY DEF StopTasks, RowFree
<1>3. x.pc = "safety"
  BY DEF StopTasks
<1>4. HumanFacts(x) /\ x.op = "safety"
  BY <1>3, HumanMoving DEF HumanFacts, HumanStage, NoTxn
<1> HIDE DEF x, rows
<1>5. /\ Uncommitted
      /\ \A j \in Slot \ {h} : txn'[j] = txn[j]
      /\ txn'[h].op = x.op /\ txn'[h].arg = x.arg /\ txn'[h].level = x.level
      /\ txn'[h].pc = "locked" /\ txn'[h].seq = x.seq /\ txn'[h].clock = x.clock
      /\ txn'[h].rows = rows
  BY <1>1, HumanMoving, MovesFields DEF Moves
<1>6. HumanFacts(txn[h])'
  BY <1>3, <1>4, <1>5
     DEF rows, Uncommitted, orgVars, taskVars, HumanFacts, HumanTyped, HumanStage,
         Current, HumanClock, Stoppable
<1>7. \A j \in Slot \ {h} : txn'[h].rows \cap txn[j].rows = {}
  BY <1>2, <1>5
<1> QED
  BY <1>5, <1>6, <1>7, HumanMoving, FactsAdvance

----------------------------------------------------------------------------
(* Connector requests                                                      *)

(* What a connector request may carry.                                     *)
LEMMA ConnectorInputTyped ==
    ASSUME NEW in \in ConnectorInput
    PROVE  /\ in.op \in {"lease", "renew", "complete"}
           /\ ConnectorTyped(in)
  BY DEF ConnectorInput, ConnectorTyped

(* A connector transaction before and after it moves.                      *)
LEMMA ConnectorMoving ==
    ASSUME TxnInv, NEW r \in Requests
    PROVE  /\ r \in Slot /\ r \notin Sessions /\ Shape /\ ConnectorFacts(r, txn[r])
           /\ \A j \in Slot \ {r} : txn[r].rows \cap txn[j].rows = {}
           /\ request[r].at \in Nat /\ now \in Nat /\ request[r].at <= now
           /\ \A t \in Tasks : lease[t].until \in Nat
  BY TransactionAssumption
     DEF TxnInv, AuditInv, Facts, RowsApart, Slot, TypeOK, Inflight, Lease, ConnectorFacts

(* A connector request begins once its credential was checked.             *)
LEMMA BeginFacts ==
    ASSUME TxnInv, NEW r \in Requests, NEW in \in ConnectorInput, BeginConnector(r, in)
    PROVE  Facts'
<1>1. Moves(r, in.op, in.arg, "begun", "normal", 0, 0, 0, {}, "none")
  BY ConnectorMoving, BeginMoves
<1>2. /\ Uncommitted
      /\ \A j \in Slot \ {r} : txn'[j] = txn[j]
      /\ txn'[r].op = in.op /\ txn'[r].arg = in.arg /\ txn'[r].pc = "begun"
      /\ txn'[r].rows = {}
  BY <1>1, ConnectorMoving, MovesFields DEF Moves
<1>3. in.op \in {"lease", "renew", "complete"} /\ ConnectorTyped(in)
  BY ConnectorInputTyped
<1>4. request[r] # Idle
  BY DEF BeginConnector
<1>5. ConnectorFacts(r, txn[r])'
  BY <1>2, <1>3, <1>4, ConnectorMoving
     DEF Uncommitted, ConnectorFacts, ConnectorTyped, ConnectorStage
<1> QED
  BY <1>2, <1>5, ConnectorMoving, FactsAdvance

(* lease_task loads the organization row,                                  *)
LEMMA LoadFacts ==
    ASSUME TxnInv, NEW r \in Requests, LoadOrganization(r)
    PROVE  Facts'
<1> DEFINE x == txn[r]
<1>1. Moves(r, x.op, x.arg, "loaded", safety, auditSeq, auditHead, now, x.rows, x.org)
  BY ConnectorMoving, LoadMoves, Zenon
<1>2. /\ Uncommitted
      /\ \A j \in Slot \ {r} : txn'[j] = txn[j]
      /\ txn'[r].op = x.op /\ txn'[r].arg = x.arg /\ txn'[r].level = safety
      /\ txn'[r].pc = "loaded" /\ txn'[r].clock = now /\ txn'[r].rows = x.rows
  BY <1>1, ConnectorMoving, MovesFields DEF Moves
<1>3. x.op = "lease" /\ x.pc = "begun" /\ safety \notin Closed
  BY DEF LoadOrganization
<1>4. ConnectorFacts(r, x)
  BY ConnectorMoving
<1> HIDE DEF x
<1>5. ConnectorFacts(r, txn[r])'
  BY <1>2, <1>3, <1>4, ConnectorMoving
     DEF Uncommitted, ConnectorFacts, ConnectorTyped, ConnectorStage, ClockReadings, Closed
<1>6. \A j \in Slot \ {r} : txn'[r].rows \cap txn[j].rows = {}
  BY <1>2, ConnectorMoving DEF x
<1> QED
  BY <1>2, <1>5, <1>6, ConnectorMoving, FactsAdvance

(* locks the expired tasks it requeues,                                    *)
LEMMA RequeueFacts ==
    ASSUME TxnInv, NEW r \in Requests, Requeue(r)
    PROVE  Facts'
<1> DEFINE x == txn[r]
           rows == Requeued(request[r].conn, x.clock)
<1>1. Moves(r, x.op, x.arg, "requeued", x.level, x.seq, x.head, x.clock, rows, x.org)
  BY ConnectorMoving, RequeueMoves, Zenon
<1>2. \A j \in Slot \ {r} : \A t \in rows : t \notin txn[j].rows
  BY DEF Requeue, RowFree
<1>3. x.op = "lease" /\ x.pc = "loaded"
  BY DEF Requeue
<1>4. ConnectorFacts(r, x)
  BY ConnectorMoving
<1> HIDE DEF x, rows
<1>5. /\ Uncommitted
      /\ \A j \in Slot \ {r} : txn'[j] = txn[j]
      /\ txn'[r].op = x.op /\ txn'[r].arg = x.arg /\ txn'[r].level = x.level
      /\ txn'[r].pc = "requeued" /\ txn'[r].seq = x.seq /\ txn'[r].clock = x.clock
      /\ txn'[r].rows = rows
  BY <1>1, ConnectorMoving, MovesFields DEF Moves
<1>6. ConnectorFacts(r, txn[r])'
  BY <1>3, <1>4, <1>5
     DEF rows, Uncommitted, orgVars, taskVars, ConnectorFacts, ConnectorTyped,
         ConnectorStage, ClockReadings, Current, Requeued, Expired
<1>7. \A j \in Slot \ {r} : txn'[r].rows \cap txn[j].rows = {}
  BY <1>2, <1>5
<1> QED
  BY <1>5, <1>6, <1>7, ConnectorMoving, FactsAdvance

(* and takes one task.                                                     *)
LEMMA PickFacts ==
    ASSUME TxnInv, NEW r \in Requests, NEW t \in Tasks, Pick(r, t)
    PROVE  Facts'
<1> DEFINE x == txn[r]
           rows == x.rows \cup {t}
           arg == [task |-> t, back |-> x.rows]
<1>1. Moves(r, x.op, arg, "ready", x.level, x.seq, x.head, x.clock, rows, x.org)
  BY ConnectorMoving, PickMoves, Zenon
<1>2. /\ x.pc = "requeued" /\ lease[t].issued < MaxLeases
      /\ \/ t \in x.rows
         \/ /\ work[t].conn = request[r].conn /\ status[t] = "queued"
            /\ \A j \in Slot \ {r} : t \notin txn[j].rows
  BY DEF Pick, RowFree
<1>3. ConnectorFacts(r, x) /\ x.op = "lease"
  BY <1>2, ConnectorMoving DEF ConnectorFacts, ConnectorStage, NoTxn
<1>4. Current(x) => /\ x.rows = Requeued(request[r].conn, x.clock)
                    /\ t \in Leasable(request[r].conn, x.clock)
  BY <1>2, <1>3 DEF ConnectorFacts, Leasable
<1>5. arg.task = t /\ arg.back = x.rows
  OBVIOUS
<1>6. \A j \in Slot \ {r} : x.rows \cap txn[j].rows = {}
  BY ConnectorMoving
<1> HIDE DEF x, rows, arg
<1>7. /\ Uncommitted
      /\ \A j \in Slot \ {r} : txn'[j] = txn[j]
      /\ txn'[r].op = x.op /\ txn'[r].arg = arg /\ txn'[r].level = x.level
      /\ txn'[r].pc = "ready" /\ txn'[r].seq = x.seq /\ txn'[r].clock = x.clock
      /\ txn'[r].rows = rows
  BY <1>1, ConnectorMoving, MovesFields DEF Moves
<1>8. Taken(r, txn[r])'
  BY <1>2, <1>4, <1>5, <1>7
     DEF rows, Uncommitted, orgVars, taskVars, Taken, Current, Requeued, Leasable, Expired
<1>9. ConnectorFacts(r, txn[r])'
  BY <1>2, <1>3, <1>7, <1>8
     DEF Uncommitted, orgVars, ConnectorFacts, ConnectorTyped, ConnectorStage,
         ClockReadings, Current
<1>10. \A j \in Slot \ {r} : txn'[r].rows \cap txn[j].rows = {}
  BY <1>2, <1>6, <1>7 DEF rows
<1> QED
  BY <1>7, <1>9, <1>10, ConnectorMoving, FactsAdvance

(* renew_task_lease and complete_task lock a task whose lease is in force. *)
LEMMA LeasedFacts ==
    ASSUME TxnInv, NEW r \in Requests, LockLeased(r)
    PROVE  Facts'
<1> DEFINE x == txn[r]
           t == x.arg.task
           n == x.arg.n
           rows == {t}
           pc == IF x.op = "renew" THEN "gate" ELSE "ready"
<1>1. Moves(r, x.op, x.arg, pc, x.level, x.seq, x.head, now, rows, x.org)
  BY ConnectorMoving, LeasedMoves, Zenon
<1>2. \A j \in Slot \ {r} : t \notin txn[j].rows
  BY DEF LockLeased, RowFree
<1>3. /\ x.op \in {"renew", "complete"} /\ x.pc = "begun" /\ HoldsLease(r, t, n)
      /\ x.op = "renew" => lease[t].until > now
      /\ x.op = "complete" => ReceiptMatches(t, n) /\ ~(lease[t].until < now)
  BY DEF LockLeased
<1>4. ConnectorFacts(r, x) /\ t \in Tasks
  BY <1>3, ConnectorMoving DEF ConnectorFacts, ConnectorTyped
<1>5. lease[t].until <= now + LeaseTime
  BY <1>4 DEF TxnInv, Facts, LeaseBounded
<1>6. /\ x.op = "renew" => pc = "gate"
      /\ x.op = "complete" => pc = "ready"
  OBVIOUS
<1> HIDE DEF x, t, n, rows, pc
<1>7. /\ Uncommitted
      /\ \A j \in Slot \ {r} : txn'[j] = txn[j]
      /\ txn'[r].op = x.op /\ txn'[r].arg = x.arg /\ txn'[r].level = x.level
      /\ txn'[r].pc = pc /\ txn'[r].seq = x.seq /\ txn'[r].clock = now
      /\ txn'[r].rows = rows
  BY <1>1, ConnectorMoving, MovesFields DEF Moves
<1>8. Held(r, txn[r])'
  BY <1>3, <1>5, <1>7
     DEF t, n, rows, Uncommitted, taskVars, Held, HoldsLease, ReceiptMatches
<1>9. ConnectorFacts(r, txn[r])'
  BY <1>3, <1>4, <1>6, <1>7, <1>8, ConnectorMoving
     DEF Uncommitted, ConnectorFacts, ConnectorTyped, ConnectorStage, ClockReadings
<1>10. \A j \in Slot \ {r} : txn'[r].rows \cap txn[j].rows = {}
  BY <1>2, <1>7 DEF rows
<1> QED
  BY <1>7, <1>9, <1>10, ConnectorMoving, FactsAdvance

(* A renewal passes the safety gate.                                       *)
LEMMA GateFacts ==
    ASSUME TxnInv, NEW r \in Requests, RenewGate(r)
    PROVE  Facts'
<1> DEFINE x == txn[r]
<1>1. Moves(r, x.op, x.arg, "flushed", x.level, x.seq, x.head, x.clock, x.rows, x.org)
  BY ConnectorMoving, GateMoves, Zenon
<1>2. /\ Uncommitted
      /\ \A j \in Slot \ {r} : txn'[j] = txn[j]
      /\ txn'[r].op = x.op /\ txn'[r].arg = x.arg /\ txn'[r].level = x.level
      /\ txn'[r].pc = "flushed" /\ txn'[r].seq = x.seq /\ txn'[r].clock = x.clock
      /\ txn'[r].rows = x.rows
  BY <1>1, ConnectorMoving, MovesFields DEF Moves
<1>3. x.pc = "gate"
  BY DEF RenewGate
<1>4. ConnectorFacts(r, x) /\ x.op = "renew"
  BY <1>3, ConnectorMoving DEF ConnectorFacts, ConnectorStage, NoTxn
<1> HIDE DEF x
<1>5. Held(r, txn[r])'
  BY <1>2, <1>3, <1>4
     DEF Uncommitted, taskVars, ConnectorFacts, Held, HoldsLease, ReceiptMatches
<1>6. ConnectorFacts(r, txn[r])'
  BY <1>2, <1>3, <1>4, <1>5
     DEF Uncommitted, ConnectorFacts, ConnectorTyped, ConnectorStage, ClockReadings
<1>7. \A j \in Slot \ {r} : txn'[r].rows \cap txn[j].rows = {}
  BY <1>2, ConnectorMoving DEF x
<1> QED
  BY <1>2, <1>6, <1>7, ConnectorMoving, FactsAdvance

----------------------------------------------------------------------------
(* append_audit                                                            *)

(* A transaction that has made up its mind and goes on still knows why.    *)
LEMMA SettledFacts ==
    ASSUME TxnInv, NEW i \in Slot, NEW pc, NEW level, NEW seq, NEW head, NEW org,
           Moves(i, txn[i].op, txn[i].arg, pc, level, seq, head, txn[i].clock,
                 txn[i].rows, org),
           <<txn[i].pc, pc>> \in {<<"ready", "locked">>, <<"locked", "flushed">>},
           txn[i].op # "complete" => level = txn[i].level /\ seq = txn[i].seq
    PROVE  Facts'
<1> DEFINE x == txn[i]
<1>1. /\ Uncommitted
      /\ \A j \in Slot \ {i} : txn'[j] = txn[j]
      /\ txn'[i].op = x.op /\ txn'[i].arg = x.arg /\ txn'[i].level = level
      /\ txn'[i].pc = pc /\ txn'[i].seq = seq /\ txn'[i].clock = x.clock
      /\ txn'[i].rows = x.rows
  BY MovesFields DEF Moves, TxnInv, AuditInv
<1>2. \/ x.pc = "ready" /\ pc = "locked"
      \/ x.pc = "locked" /\ pc = "flushed"
  OBVIOUS
<1>3. \A j \in Slot \ {i} : x.rows \cap txn[j].rows = {}
  BY DEF TxnInv, Facts, RowsApart
<1>4. x.op # "complete" => level = x.level /\ seq = x.seq
  OBVIOUS
<1>5. CASE i \in Sessions
  <2>1. HumanFacts(x) /\ i \notin Requests
    BY <1>5, HumanMoving
  <2> HIDE DEF x
  <2>2. HumanFacts(txn[i])'
    BY <1>1, <1>2, <1>4, <2>1
       DEF Uncommitted, orgVars, taskVars, connVars, HumanFacts, HumanTyped, HumanStage,
           Current, Decided, MayCreate, Validated, Allowlisted, MayDecide, Stoppable,
           HumanClock, NoTxn
  <2> QED
    BY <1>1, <1>3, <2>1, <2>2, FactsAdvance
<1>6. CASE i \in Requests
  <2>1. ConnectorFacts(i, x) /\ i \notin Sessions
    BY <1>6, ConnectorMoving
  <2> HIDE DEF x
  <2>2. x.op \in {"lease", "complete"}
    BY <1>2, <2>1 DEF ConnectorFacts, ConnectorStage, NoTxn
  <2>3. x.op = "lease" => Taken(i, txn[i])'
    BY <1>1, <1>2, <1>4, <2>1
       DEF Uncommitted, orgVars, taskVars, ConnectorFacts, Taken, Current, Requeued,
           Leasable, Expired
  <2>4. x.op = "complete" => Held(i, txn[i])'
    BY <1>1, <1>2, <2>1
       DEF Uncommitted, taskVars, ConnectorFacts, Held, HoldsLease, ReceiptMatches
  <2>5. ConnectorFacts(i, txn[i])'
    BY <1>1, <1>2, <1>4, <2>1, <2>2, <2>3, <2>4
       DEF Uncommitted, orgVars, ConnectorFacts, ConnectorTyped, ConnectorStage,
           ClockReadings, Current
  <2> QED
    BY <1>1, <1>3, <2>1, <2>5, FactsAdvance
<1> QED
  BY <1>5, <1>6 DEF Slot

(* The organization row is locked, and read again or not.                  *)
LEMMA LockFacts ==
    ASSUME TxnInv, NEW i \in Slot, LockOrganization(i)
    PROVE  Facts'
<1>0. Shape /\ txn[i].pc = "ready"
  BY DEF TxnInv, AuditInv, LockOrganization
<1>1. CASE txn[i].op = "complete"
  <2>1. Moves(i, txn[i].op, txn[i].arg, "locked", safety, auditSeq, auditHead,
              txn[i].clock, txn[i].rows, "update")
    BY <1>0, <1>1, LockFreshMoves, Zenon
  <2> QED
    BY <1>0, <1>1, <2>1, SettledFacts
<1>2. CASE txn[i].op # "complete"
  <2>1. Moves(i, txn[i].op, txn[i].arg, "locked", txn[i].level, txn[i].seq, txn[i].head,
              txn[i].clock, txn[i].rows, "update")
    BY <1>0, <1>2, LockKeptMoves, Zenon
  <2> QED
    BY <1>0, <2>1, SettledFacts
<1> QED
  BY <1>1, <1>2

(* The event is accepted.                                                  *)
LEMMA FlushFacts ==
    ASSUME TxnInv, NEW i \in Slot, Flush(i)
    PROVE  Facts'
<1>0. Shape /\ txn[i].pc = "locked"
  BY DEF TxnInv, AuditInv, Flush
<1>1. Moves(i, txn[i].op, txn[i].arg, "flushed", txn[i].level, txn[i].seq, txn[i].head,
            txn[i].clock, txn[i].rows, txn[i].org)
  BY <1>0, FlushMoves, Zenon
<1> QED
  BY <1>0, <1>1, SettledFacts

----------------------------------------------------------------------------
(* Steps that end a transaction without a commit, and those of the world   *)

(* A request that is rolled back leaves no trace.                          *)
LEMMA RollbackFacts ==
    ASSUME TxnInv, NEW i \in Slot, Rollback(i)
    PROVE  Facts'
<1>1. /\ txn'[i] = NoTxn
      /\ \A j \in Slot \ {i} : txn'[j] = txn[j]
  BY EndsFields DEF Rollback, TxnInv, AuditInv
<1>2. /\ \A h \in Sessions : HumanFacts(txn[h])
      /\ \A r \in Requests : ConnectorFacts(r, txn[r])
      /\ RowsApart /\ LeaseBounded /\ TypeOK
  BY DEF TxnInv, Facts
<1>3. /\ UNCHANGED <<safety, taskVars, connVars, now, orgVars>>
      /\ request' = IF i \in Requests THEN [request EXCEPT ![i] = Idle] ELSE request
  BY DEF Rollback
<1>4. \A r \in Requests : r # i => request'[r] = request[r]
  BY <1>2, <1>3 DEF TypeOK
<1>5. ASSUME NEW h \in Sessions PROVE HumanFacts(txn[h])'
  <2>1. CASE h = i
    BY <1>1, <2>1 DEF HumanFacts, HumanTyped, HumanStage, NoTxn
  <2>2. CASE h # i
    <3>1. txn'[h] = txn[h] /\ HumanFacts(txn[h])
      BY <1>1, <1>2, <2>2 DEF Slot
    <3> QED
      BY <1>3, <3>1
         DEF orgVars, taskVars, connVars, HumanFacts, HumanTyped, HumanStage, Current,
             Decided, MayCreate, Validated, Allowlisted, MayDecide, Stoppable, HumanClock,
             NoTxn
  <2> QED
    BY <2>1, <2>2
<1>6. ASSUME NEW r \in Requests PROVE ConnectorFacts(r, txn[r])'
  <2>1. CASE r = i
    <3>1. request'[r].at <= now'
      BY <1>2, <1>3, <2>1 DEF TypeOK, Idle
    <3> QED
      BY <1>1, <2>1, <3>1 DEF ConnectorFacts, ConnectorTyped, ConnectorStage, NoTxn
  <2>2. CASE r # i
    <3>1. txn'[r] = txn[r] /\ ConnectorFacts(r, txn[r]) /\ request'[r] = request[r]
      BY <1>1, <1>2, <1>4, <2>2 DEF Slot
    <3> QED
      BY <1>3, <3>1
         DEF orgVars, taskVars, connVars, ConnectorFacts, ConnectorTyped, ConnectorStage,
             Current, Taken, Held, Requeued, Leasable, Expired, HoldsLease,
             ReceiptMatches, ClockReadings, NoTxn
  <2> QED
    BY <2>1, <2>2
<1>7. RowsApart'
  BY <1>1, <1>2 DEF RowsApart, NoTxn
<1>8. LeaseBounded'
  BY <1>2, <1>3 DEF LeaseBounded, taskVars
<1> QED
  BY <1>5, <1>6, <1>7, <1>8 DEF Facts

(* A refused decision too.                                                 *)
LEMMA RefuseFacts ==
    ASSUME TxnInv, NEW h \in Sessions, RefuseExpired(h)
    PROVE  Facts'
<1>1. /\ txn'[h] = NoTxn
      /\ \A j \in Slot \ {h} : txn'[j] = txn[j]
  BY HumanMoving, EndsFields DEF RefuseExpired
<1>2. Uncommitted
  BY DEF RefuseExpired
<1>3. HumanFacts(txn[h])'
  BY <1>1 DEF HumanFacts, HumanTyped, HumanStage, NoTxn
<1>4. \A j \in Slot \ {h} : txn'[h].rows \cap txn[j].rows = {}
  BY <1>1 DEF NoTxn
<1> QED
  BY <1>1, <1>2, <1>3, <1>4, HumanMoving, FactsAdvance

(* A credential check opens a request and no transaction.                  *)
LEMMA AdmitFacts ==
    ASSUME TxnInv, NEW r \in Requests, NEW c \in Connectors, Admit(r, c)
    PROVE  Facts'
<1>1. /\ \A h \in Sessions : HumanFacts(txn[h])
      /\ \A q \in Requests : ConnectorFacts(q, txn[q])
      /\ RowsApart /\ LeaseBounded /\ TypeOK
  BY DEF TxnInv, Facts
<1>2. /\ UNCHANGED <<safety, taskVars, connVars, now, orgVars, txn>>
      /\ request[r] = Idle
      /\ request' = [request EXCEPT ![r] =
                       [conn |-> c, at |-> now, caps |-> caps[c], presence |-> presence[c]]]
  BY DEF Admit, Authenticate
<1>3. \A q \in Requests : q # r => request'[q] = request[q]
  BY <1>1, <1>2 DEF TypeOK
<1>4. ASSUME NEW h \in Sessions PROVE HumanFacts(txn[h])'
  <2>1. HumanFacts(txn[h])
    BY <1>1
  <2> QED
    BY <1>2, <2>1
       DEF orgVars, taskVars, connVars, HumanFacts, HumanTyped, HumanStage, Current,
           Decided, MayCreate, Validated, Allowlisted, MayDecide, Stoppable, HumanClock,
           NoTxn
<1>5. ASSUME NEW q \in Requests PROVE ConnectorFacts(q, txn[q])'
  <2>0. ConnectorFacts(q, txn[q])
    BY <1>1
  <2>1. CASE q = r
    <3>1. txn[q] = NoTxn
      BY <1>2, <2>0, <2>1 DEF ConnectorFacts, ConnectorStage
    <3>2. request'[q].at = now /\ now \in Nat
      BY <1>1, <1>2, <2>1 DEF TypeOK
    <3> QED
      BY <1>2, <3>1, <3>2 DEF ConnectorFacts, ConnectorTyped, ConnectorStage, NoTxn
  <2>2. CASE q # r
    <3>1. request'[q] = request[q]
      BY <1>3, <2>2
    <3> QED
      BY <1>2, <2>0, <3>1
         DEF orgVars, taskVars, connVars, ConnectorFacts, ConnectorTyped, ConnectorStage,
             Current, Taken, Held, Requeued, Leasable, Expired, HoldsLease,
             ReceiptMatches, ClockReadings, NoTxn
  <2> QED
    BY <2>1, <2>2
<1>6. RowsApart' /\ LeaseBounded'
  BY <1>1, <1>2 DEF RowsApart, LeaseBounded, taskVars
<1> QED
  BY <1>4, <1>5, <1>6 DEF Facts

(* Time passes only once every human request saw this tick.                *)
LEMMA PassFacts ==
    ASSUME TxnInv, Pass
    PROVE  Facts'
<1>1. /\ \A h \in Sessions : HumanFacts(txn[h])
      /\ \A r \in Requests : ConnectorFacts(r, txn[r])
      /\ RowsApart /\ LeaseBounded /\ TypeOK
  BY DEF TxnInv, Facts
<1>2. /\ UNCHANGED <<safety, taskVars, connVars, request, orgVars, txn>>
      /\ now' = now + 1 /\ now \in Nat
      /\ \A h \in Sessions : txn[h] # NoTxn => txn[h].clock = now
  BY <1>1 DEF Pass, Tick, TypeOK
<1>3. ASSUME NEW h \in Sessions PROVE HumanFacts(txn[h])'
  <2>1. HumanFacts(txn[h]) /\ (txn[h].op # "none" => txn[h].clock = now)
    BY <1>1, <1>2 DEF NoTxn
  <2> QED
    BY <1>2, <2>1
       DEF orgVars, taskVars, connVars, HumanFacts, HumanTyped, HumanStage, Current,
           Decided, MayCreate, Validated, Allowlisted, MayDecide, Stoppable, HumanClock,
           NoTxn
<1>4. ASSUME NEW r \in Requests PROVE ConnectorFacts(r, txn[r])'
  <2>1. ConnectorFacts(r, txn[r]) /\ request[r].at \in Nat
    BY <1>1, ConnectorMoving
  <2>2. /\ request'[r].at <= now'
        /\ \A clock \in ClockReadings(r) : clock \in ClockReadings(r)'
    BY <1>2, <2>1 DEF ConnectorFacts, ClockReadings
  <2> QED
    BY <1>2, <2>1, <2>2
       DEF orgVars, taskVars, connVars, ConnectorFacts, ConnectorTyped, ConnectorStage,
           Current, Taken, Held, Requeued, Leasable, Expired, HoldsLease,
           ReceiptMatches, NoTxn
<1>5. RowsApart'
  BY <1>1, <1>2 DEF RowsApart
<1>6. LeaseBounded'
  BY <1>1, <1>2, ControlAssumption DEF LeaseBounded, taskVars, TypeOK, Lease
<1> QED
  BY <1>3, <1>4, <1>5, <1>6 DEF Facts

----------------------------------------------------------------------------
(* Commits                                                                 *)

(* A task that exists changes only under its row lock.                     *)
LEMMA CommitFrame ==
    ASSUME TxnInv, NEW i \in Slot, Commit(i),
           NEW t \in Tasks, t \notin txn[i].rows, status[t] # "absent"
    PROVE  /\ status'[t] = status[t] /\ work'[t] = work[t]
           /\ approval'[t] = approval[t] /\ lease'[t] = lease[t]
<1>1. TypeOK
  BY DEF TxnInv
<1>2. CASE txn[i].op \in {"connect", "revoke"}
  BY <1>2 DEF Commit, CommitConnect, CommitRevoke, taskVars
<1>3. CASE txn[i].op = "create"
  <2>1. MayCreate(txn[i])
    BY <1>3, Committing DEF HumanFacts
  <2>2. t # txn[i].arg.task
    BY <2>1 DEF MayCreate
  <2>3. CommitCreate(txn[i])
    BY <1>3 DEF Commit
  <2> QED
    BY <1>1, <2>2, <2>3 DEF CommitCreate, InsertTask, TypeOK
<1>4. CASE txn[i].op = "decide"
  <2>1. txn[i].rows = {txn[i].arg.task}
    BY <1>4, Committing DEF HumanFacts, Decided
  <2>2. CommitDecide(txn[i])
    BY <1>4 DEF Commit
  <2> QED
    BY <1>1, <2>1, <2>2 DEF CommitDecide, RecordDecision, TypeOK
<1>5. CASE txn[i].op = "safety"
  <2>1. CommitSafety(txn[i])
    BY <1>5 DEF Commit
  <2> QED
    BY <2>1 DEF CommitSafety, BlockTasks
<1>6. CASE txn[i].op = "lease"
  <2>1. txn[i].rows = txn[i].arg.back \cup {txn[i].arg.task}
    BY <1>6, Committing DEF ConnectorFacts, Taken
  <2>2. CommitLease(i, txn[i]) /\ t # txn[i].arg.task /\ t \notin txn[i].arg.back
    BY <1>6, <2>1 DEF Commit
  <2> QED
    BY <2>2 DEF CommitLease, HandOut
<1>7. CASE txn[i].op \in {"renew", "complete"}
  <2>1. txn[i].rows = {txn[i].arg.task}
    BY <1>7, Committing DEF ConnectorFacts, Held
  <2>2. CommitRenew(txn[i]) \/ CommitComplete(txn[i])
    BY <1>7 DEF Commit
  <2> QED
    BY <1>1, <2>1, <2>2 DEF CommitRenew, CommitComplete, RecordResult, TypeOK
<1> QED
  BY <1>2, <1>3, <1>4, <1>5, <1>6, <1>7 DEF Commit

(* No commit takes a connector's row away.                                 *)
LEMMA CommitPresence ==
    ASSUME TxnInv, NEW i \in Slot, Commit(i), NEW c \in Connectors, presence[c] # "absent"
    PROVE  presence'[c] # "absent"
<1>1. presence \in [Connectors -> Presence]
  BY DEF TxnInv, TypeOK
<1>2. \/ UNCHANGED presence
      \/ \E k : \/ presence' = [presence EXCEPT ![k] = "offline"]
                \/ presence' = [presence EXCEPT ![k] = "revoked"]
  BY DEF Commit, CommitConnect, CommitRevoke, CommitCreate, CommitDecide, CommitSafety,
         CommitLease, CommitRenew, CommitComplete, connVars
<1> QED
  BY <1>1, <1>2

(* What a commit leaves of the others: their transactions, their requests, *)
(* and, unless it was a renewal, no current copy of the organization row.  *)
LEMMA CommitOthers ==
    ASSUME TxnInv, NEW i \in Slot, Commit(i)
    PROVE  /\ txn'[i] = NoTxn
           /\ now' = now
           /\ \A j \in Slot \ {i} :
                 /\ txn'[j] = txn[j]
                 /\ txn[i].rows \cap txn[j].rows = {}
                 /\ j \in Requests => request'[j] = request[j]
                 /\ txn[i].op # "renew" => /\ ~Current(txn[j])'
                                           /\ txn[j].org = "none"
<1>1. /\ txn'[i] = NoTxn
      /\ \A j \in Slot \ {i} : txn'[j] = txn[j]
  BY EndsFields DEF Commit, TxnInv, AuditInv
<1>2. now' = now
  BY DEF Commit
<1>3. \A j \in Slot \ {i} : txn[i].rows \cap txn[j].rows = {}
  BY DEF TxnInv, Facts, RowsApart
<1>4. \A j \in Slot \ {i} : j \in Requests => request'[j] = request[j]
  BY DEF Commit, TxnInv, TypeOK
<1>5. ASSUME txn[i].op # "renew", NEW j \in Slot \ {i}
      PROVE  ~Current(txn[j])' /\ txn[j].org = "none"
  <2>1. audit' = Append(audit, [seq |-> Sequence(txn[i]), prev |-> txn[i].head])
    BY <1>5 DEF Commit
  <2>2. audit \in Seq([seq : Nat, prev : Nat])
    BY DEF TxnInv, AuditInv, Chain
  <2>3. /\ txn[j].seq \in 0 .. Len(audit)
        /\ txn[i].org = "update"
    BY <1>5, AuditOf DEF TxnInv, Commit
  <2>4. txn[j].org = "none"
    BY <1>5, <2>3, AuditOf DEF TxnInv
  <2>5. Len(audit') = Len(audit) + 1 /\ Len(audit) \in Nat
    BY <2>1, <2>2
  <2> QED
    BY <1>1, <2>3, <2>4, <2>5 DEF Current
<1> QED
  BY <1>1, <1>2, <1>3, <1>4, <1>5

(* A commit that lengthens the chain: nobody else's copy is current.       *)
LEMMA CommitHuman ==
    ASSUME TxnInv, NEW i \in Slot, Commit(i), txn[i].op # "renew",
           NEW h \in Sessions, h # i
    PROVE  HumanFacts(txn[h])'
<1>1. /\ h \in Slot \ {i} /\ HumanFacts(txn[h])
  BY DEF TxnInv, Facts, Slot
<1> DEFINE x == txn[h]
<1>2. /\ txn'[h] = x /\ now' = now /\ ~Current(txn[h])' /\ x.org = "none"
      /\ txn[i].rows \cap x.rows = {}
  BY <1>1, CommitOthers
<1>3. ~(x.op = "safety" /\ x.pc \in {"locked", "flushed"})
  BY <1>1, <1>2, AuditOf DEF TxnInv
<1>4. (x.op = "revoke" /\ x.pc # "loaded" => presence[x.arg.conn] # "absent")'
  BY <1>1, <1>2, CommitPresence DEF HumanFacts, HumanTyped
<1>5. (x.op = "decide" /\ x.pc # "loaded" => Decided(x))'
  <2> SUFFICES ASSUME x.op = "decide", x.pc # "loaded" PROVE Decided(x)'
    BY <1>2
  <2> DEFINE t == x.arg.task
  <2>1. Decided(x) /\ t \in Tasks
    BY <1>1 DEF HumanFacts, HumanTyped
  <2>2. status[t] # "absent" /\ t \notin txn[i].rows
    BY <1>2, <2>1 DEF Decided
  <2>3. /\ status'[t] = status[t] /\ work'[t] = work[t] /\ approval'[t] = approval[t]
    BY <2>1, <2>2, CommitFrame
  <2> QED
    BY <1>2, <2>1, <2>3 DEF Decided, MayDecide
<1>6. HumanTyped(txn[h])' /\ HumanStage(txn[h])'
  BY <1>1, <1>2 DEF HumanFacts, HumanTyped, HumanStage, NoTxn
<1>7. (x.op # "none" => x.clock \in HumanClock)'
  BY <1>1, <1>2 DEF HumanFacts, HumanClock
<1> QED
  BY <1>2, <1>3, <1>4, <1>5, <1>6, <1>7 DEF HumanFacts

LEMMA CommitConnector ==
    ASSUME TxnInv, NEW i \in Slot, Commit(i), txn[i].op # "renew",
           NEW r \in Requests, r # i
    PROVE  ConnectorFacts(r, txn[r])'
<1>1. r \in Slot \ {i} /\ ConnectorFacts(r, txn[r])
  BY DEF TxnInv, Facts, Slot
<1> DEFINE x == txn[r]
<1>2. /\ txn'[r] = x /\ now' = now /\ ~Current(txn[r])' /\ request'[r] = request[r]
      /\ txn[i].rows \cap x.rows = {}
  BY <1>1, CommitOthers
<1>3. (x.op = "lease" /\ x.pc \in {"ready", "locked", "flushed"} => Taken(r, x))'
  BY <1>1, <1>2 DEF ConnectorFacts, Taken
<1>4. (x.op \in {"renew", "complete"} /\ x.pc # "begun" => Held(r, x))'
  <2> SUFFICES ASSUME x.op \in {"renew", "complete"}, x.pc # "begun" PROVE Held(r, x)'
    BY <1>2
  <2> DEFINE t == x.arg.task
  <2>1. Held(r, x) /\ t \in Tasks
    BY <1>1 DEF ConnectorFacts, ConnectorTyped
  <2>2. status[t] # "absent" /\ t \notin txn[i].rows
    BY <1>2, <2>1 DEF Held, HoldsLease
  <2>3. /\ status'[t] = status[t] /\ work'[t] = work[t] /\ lease'[t] = lease[t]
    BY <2>1, <2>2, CommitFrame
  <2> QED
    BY <1>2, <2>1, <2>3 DEF Held, HoldsLease, ReceiptMatches
<1>5. ConnectorTyped(txn[r])' /\ ConnectorStage(txn[r])'
  BY <1>1, <1>2 DEF ConnectorFacts, ConnectorTyped, ConnectorStage, NoTxn
<1>6. /\ request'[r].at <= now'
      /\ (x.op # "none" => request[r] # Idle)'
      /\ (x.op # "none" /\ x.pc # "begun" => x.clock \in ClockReadings(r))'
  BY <1>1, <1>2 DEF ConnectorFacts, ClockReadings
<1>7. (x.op = "lease" /\ x.pc # "begun" => x.level \notin Closed)'
  BY <1>1, <1>2 DEF ConnectorFacts
<1> QED
  BY <1>2, <1>3, <1>4, <1>5, <1>6, <1>7 DEF ConnectorFacts

(* A renewal lengthens no chain, but all it moves is the expiry of a lease *)
(* that nobody else can find expired, before or after.                     *)
LEMMA RenewMoves ==
    ASSUME TxnInv, NEW i \in Slot, Commit(i), txn[i].op = "renew"
    PROVE  LET t == txn[i].arg.task
               until == txn[i].clock + LeaseTime
           IN  /\ t \in Tasks /\ txn[i].rows = {t} /\ txn[i].clock \in Nat
               /\ txn[i].clock <= now
               /\ lease[t].until > txn[i].clock /\ lease[t].until <= until
               /\ lease'[t].until = until
               /\ lease'[t].token = lease[t].token /\ lease'[t].issued = lease[t].issued
               /\ \A u \in Tasks \ {t} : lease'[u] = lease[u]
               /\ UNCHANGED <<safety, status, work, approval, doneBy, connVars, now, orgVars>>
<1> DEFINE x == txn[i]
           t == x.arg.task
<1>1. i \in Requests /\ ConnectorFacts(i, x) /\ x.pc = "flushed"
  BY Committing
<1>2. t \in Tasks /\ Held(i, x) /\ x.clock \in ClockReadings(i)
  BY <1>1 DEF ConnectorFacts, ConnectorTyped
<1>3. x.clock \in Nat /\ x.clock <= now
  BY <1>1, <1>2, ConnectorMoving DEF ClockReadings
<1>4. /\ x.rows = {t} /\ lease[t].until > x.clock
      /\ lease[t].until <= x.clock + LeaseTime
  BY <1>2 DEF Held
<1>5. /\ lease' = [lease EXCEPT ![t].until = x.clock + LeaseTime]
      /\ UNCHANGED <<safety, status, work, approval, doneBy, connVars, now, orgVars>>
  BY DEF Commit, CommitRenew
<1>6. lease \in [Tasks -> Lease]
  BY DEF TxnInv, TypeOK
<1>7. /\ lease'[t].until = x.clock + LeaseTime
      /\ lease'[t].token = lease[t].token /\ lease'[t].issued = lease[t].issued
      /\ \A u \in Tasks \ {t} : lease'[u] = lease[u]
  BY <1>2, <1>5, <1>6 DEF Lease
<1> QED
  BY <1>2, <1>3, <1>4, <1>5, <1>7

LEMMA RenewRequeues ==
    ASSUME TxnInv, NEW i \in Slot, Commit(i), txn[i].op = "renew",
           NEW conn, NEW clock \in Nat,
           txn[i].arg.task \notin Requeued(conn, clock)
    PROVE  /\ Requeued(conn, clock)' = Requeued(conn, clock)
           /\ Leasable(conn, clock)' = Leasable(conn, clock)
<1> DEFINE t == txn[i].arg.task
<1>1. /\ t \in Tasks /\ lease[t].until \in Nat /\ lease[t].until # 0
      /\ lease'[t].until \in Nat /\ lease[t].until <= lease'[t].until
      /\ \A u \in Tasks \ {t} : lease'[u] = lease[u]
      /\ UNCHANGED <<status, work>>
  BY RenewMoves, ControlAssumption DEF TxnInv, TypeOK, Lease
<1> HIDE DEF t
<1>2. ASSUME work[t].conn = conn, status[t] = "running"
      PROVE  ~(lease[t].until < clock)
  BY <1>1, <1>2 DEF Requeued, Expired, t
<1>3. ASSUME NEW u \in Tasks
      PROVE  u \in Requeued(conn, clock)' <=> u \in Requeued(conn, clock)
  <2>1. CASE u # t
    BY <1>1, <2>1 DEF Requeued, Expired
  <2>2. CASE u = t
    BY <1>1, <1>2, <2>2 DEF Requeued, Expired
  <2> QED
    BY <2>1, <2>2
<1>4. /\ Requeued(conn, clock) \subseteq Tasks
      /\ Requeued(conn, clock)' \subseteq Tasks
  BY DEF Requeued
<1>5. Requeued(conn, clock)' = Requeued(conn, clock)
  BY <1>3, <1>4
<1> QED
  BY <1>1, <1>5 DEF Leasable

LEMMA RenewHuman ==
    ASSUME TxnInv, NEW i \in Slot, Commit(i), txn[i].op = "renew",
           NEW h \in Sessions, h # i
    PROVE  HumanFacts(txn[h])'
<1>1. h \in Slot \ {i} /\ HumanFacts(txn[h])
  BY DEF TxnInv, Facts, Slot
<1>2. txn'[h] = txn[h]
  BY <1>1, CommitOthers
<1>3. UNCHANGED <<safety, status, work, approval, doneBy, connVars, now, orgVars>>
  BY RenewMoves
<1> QED
  BY <1>1, <1>2, <1>3
     DEF orgVars, connVars, HumanFacts, HumanTyped, HumanStage, Current,
         Decided, MayCreate, Validated, Allowlisted, MayDecide, Stoppable, HumanClock,
         NoTxn

LEMMA RenewConnector ==
    ASSUME TxnInv, NEW i \in Slot, Commit(i), txn[i].op = "renew",
           NEW r \in Requests, r # i
    PROVE  ConnectorFacts(r, txn[r])'
<1> DEFINE x == txn[r]
           c == request[r].conn
           t == txn[i].arg.task
           until == txn[i].clock + LeaseTime
<1>1. r \in Slot \ {i} /\ ConnectorFacts(r, txn[r]) /\ request[r].at \in Nat /\ now \in Nat
  BY ConnectorMoving
<1>2. /\ txn'[r] = x /\ request'[r] = request[r] /\ {t} \cap x.rows = {}
  BY <1>1, CommitOthers, RenewMoves
<1>3. /\ t \in Tasks /\ txn[i].clock \in Nat /\ lease[t].until \in Nat
      /\ lease[t].until > txn[i].clock /\ lease[t].until <= until
      /\ lease'[t].until = until /\ until \in Nat /\ lease[t].until # 0
      /\ lease'[t].issued = lease[t].issued
      /\ \A u \in Tasks \ {t} : lease'[u] = lease[u]
      /\ UNCHANGED <<safety, status, work, now, orgVars>>
  BY <1>1, RenewMoves, ConnectorMoving, ControlAssumption
<1>4. ASSUME x.clock \in Nat, t \notin Requeued(c, x.clock)
      PROVE  /\ Requeued(request[r].conn, x.clock)' = Requeued(c, x.clock)
             /\ Leasable(request[r].conn, x.clock)' = Leasable(c, x.clock)
  <2>1. PICK conn, clock : conn = c /\ clock = x.clock
    OBVIOUS
  <2>2. clock \in Nat /\ t \notin Requeued(conn, clock)
    BY <1>4, <2>1
  <2>3. /\ Requeued(conn, clock)' = Requeued(conn, clock)
        /\ Leasable(conn, clock)' = Leasable(conn, clock)
    BY <2>2, RenewRequeues
  <2>4. request'[r].conn = conn /\ txn'[r].clock = clock
    BY <1>2, <2>1
  <2> QED
    BY <2>1, <2>3, <2>4 DEF Requeued, Leasable, Expired
<1>5. x.op # "none" /\ x.pc # "begun" => x.clock \in Nat
  BY <1>1 DEF ConnectorFacts, ClockReadings
<1>6. ASSUME x.op = "lease", x.pc = "requeued", Current(x)
      PROVE  x.rows = Requeued(request[r].conn, x.clock)'
  <2>1. x.rows = Requeued(c, x.clock)
    BY <1>1, <1>6 DEF ConnectorFacts
  <2> QED
    BY <1>2, <1>4, <1>5, <1>6, <2>1
<1>7. ASSUME x.op = "lease", x.pc \in {"ready", "locked", "flushed"}
      PROVE  Taken(r, x)'
  <2>1. Taken(r, x)
    BY <1>1, <1>7 DEF ConnectorFacts
  <2>2. Current(x)' <=> Current(x)
    BY <1>2, <1>3 DEF Current, orgVars
  <2>3. ASSUME Current(x)
        PROVE  /\ x.arg.back = Requeued(request[r].conn, x.clock)'
               /\ x.arg.task \in Leasable(request[r].conn, x.clock)'
               /\ lease'[x.arg.task].issued < MaxLeases
    <3>1. /\ x.arg.back = Requeued(c, x.clock)
          /\ x.arg.task \in Leasable(c, x.clock)
          /\ lease[x.arg.task].issued < MaxLeases /\ x.arg.task \in Tasks
          /\ t \notin x.arg.back
      BY <1>2, <2>1, <2>3 DEF Taken
    <3> QED
      BY <1>3, <1>4, <1>5, <1>7, <3>1
  <2> QED
    BY <1>2, <2>1, <2>2, <2>3 DEF Taken
<1>8. ASSUME x.op \in {"renew", "complete"}, x.pc # "begun" PROVE Held(r, x)'
  <2>1. Held(r, x) /\ x.arg.task \in Tasks
    BY <1>1, <1>8 DEF ConnectorFacts, ConnectorTyped
  <2>2. lease'[x.arg.task] = lease[x.arg.task]
    BY <1>2, <1>3, <2>1 DEF Held
  <2> QED
    BY <1>2, <1>3, <2>1, <2>2 DEF Held, HoldsLease, ReceiptMatches
<1>9. ConnectorTyped(txn[r])' /\ ConnectorStage(txn[r])'
  BY <1>1, <1>2 DEF ConnectorFacts, ConnectorTyped, ConnectorStage, NoTxn
<1>10. /\ request'[r].at <= now'
       /\ (x.op # "none" => request[r] # Idle)'
       /\ (x.op # "none" /\ x.pc # "begun" => x.clock \in ClockReadings(r))'
  BY <1>1, <1>2, <1>3 DEF ConnectorFacts, ClockReadings
<1>11. (x.op = "lease" /\ x.pc # "begun" => /\ x.level \notin Closed
                                            /\ Current(x) => x.level = safety)'
  BY <1>1, <1>2, <1>3 DEF ConnectorFacts, Current, orgVars
<1>12. Current(x)' <=> Current(x)
  BY <1>2, <1>3 DEF Current, orgVars
<1> QED
  BY <1>2, <1>6, <1>7, <1>8, <1>9, <1>10, <1>11, <1>12 DEF ConnectorFacts

(* No commit sets an expiry further than a lease ahead.                    *)
LEMMA CommitBounded ==
    ASSUME TxnInv, NEW i \in Slot, Commit(i)
    PROVE  LeaseBounded'
<1>1. LeaseBounded /\ lease \in [Tasks -> Lease] /\ now \in Nat /\ now' = now
  BY CommitOthers DEF TxnInv, Facts, TypeOK
<1> SUFFICES ASSUME NEW t \in Tasks PROVE lease'[t].until <= now + LeaseTime
  BY <1>1 DEF LeaseBounded
<1>2. lease[t].until <= now + LeaseTime /\ 0 <= now + LeaseTime
  BY <1>1, ControlAssumption DEF LeaseBounded
<1>3. CASE txn[i].op \in {"connect", "revoke", "create", "decide"}
  BY <1>2, <1>3
     DEF Commit, CommitConnect, CommitRevoke, CommitCreate, CommitDecide, taskVars
<1>4. CASE txn[i].op = "safety"
  <2>1. CommitSafety(txn[i])
    BY <1>4 DEF Commit
  <2> QED
    BY <1>1, <1>2, <2>1 DEF CommitSafety, BlockTasks, Lease
<1>5. CASE txn[i].op = "lease"
  <2>1. /\ CommitLease(i, txn[i]) /\ i \in Requests
        /\ txn[i].clock \in ClockReadings(i)
    BY <1>5, Committing DEF Commit, ConnectorFacts
  <2>2. txn[i].clock \in Nat /\ txn[i].clock <= now
    BY <2>1, ConnectorMoving DEF ClockReadings
  <2>3. txn[i].clock + LeaseTime <= now + LeaseTime
    BY <1>1, <2>2, ControlAssumption
  <2>4. \/ lease'[t].until = txn[i].clock + LeaseTime
        \/ lease'[t].until = 0
        \/ lease'[t].until = lease[t].until
    BY <1>1, <2>1 DEF CommitLease, HandOut, Lease
  <2> QED
    BY <1>2, <2>3, <2>4
<1>6. CASE txn[i].op = "renew"
  <2>1. txn[i].clock + LeaseTime <= now + LeaseTime
    BY <1>1, <1>6, RenewMoves, ControlAssumption
  <2> QED
    BY <1>2, <1>6, <2>1, RenewMoves
<1>7. CASE txn[i].op = "complete"
  <2>1. CommitComplete(txn[i])
    BY <1>7 DEF Commit
  <2> QED
    BY <1>1, <1>2, <2>1 DEF CommitComplete, RecordResult, Lease
<1> QED
  BY <1>3, <1>4, <1>5, <1>6, <1>7 DEF Commit

(* A commit leaves everybody with what they know.                          *)
LEMMA CommitFacts ==
    ASSUME TxnInv, NEW i \in Slot, Commit(i)
    PROVE  Facts'
<1>1. ASSUME NEW h \in Sessions PROVE HumanFacts(txn[h])'
  <2>1. CASE h = i
    <3>1. txn'[h] = NoTxn
      BY <2>1, CommitOthers
    <3> QED
      BY <3>1 DEF HumanFacts, HumanTyped, HumanStage, NoTxn
  <2> QED
    BY <2>1, CommitHuman, RenewHuman
<1>2. ASSUME NEW r \in Requests PROVE ConnectorFacts(r, txn[r])'
  <2>1. CASE r = i
    <3>1. txn'[r] = NoTxn /\ now' = now /\ now \in Nat
      BY <2>1, CommitOthers DEF TxnInv, TypeOK
    <3>2. request'[r] = Idle
      BY <2>1, Committing, TransactionAssumption DEF TxnInv, TypeOK
    <3> QED
      BY <3>1, <3>2 DEF ConnectorFacts, ConnectorTyped, ConnectorStage, NoTxn, Idle
  <2> QED
    BY <2>1, CommitConnector, RenewConnector
<1>3. RowsApart'
  <2>1. /\ txn'[i] = NoTxn /\ NoTxn.rows = {}
        /\ \A j \in Slot \ {i} : txn'[j] = txn[j]
    BY CommitOthers DEF NoTxn
  <2>2. RowsApart
    BY DEF TxnInv, Facts
  <2> QED
    BY <2>1, <2>2 DEF RowsApart
<1> QED
  BY <1>1, <1>2, <1>3, CommitBounded DEF Facts

----------------------------------------------------------------------------
(* The invariant, and what follows                                         *)

LEMMA NextTxn == TxnInv /\ LeaseInv /\ [TNext]_allVars => (TxnInv /\ LeaseInv)'
<1> SUFFICES ASSUME TxnInv, LeaseInv, [TNext]_allVars PROVE (TxnInv /\ LeaseInv)'
  OBVIOUS
<1>1. TypeOK' /\ LeaseInv'
  BY StepRefines, NextTypeOK, NextLease DEF TxnInv
<1>2. AuditInv'
  BY NextAudit DEF TxnInv
<1>3. ASSUME NEW h \in Sessions,
             \/ \E in \in HumanInput : ResolveContext(h, in)
             \/ Check(h) \/ Insert(h) \/ LockDecision(h) \/ RefuseExpired(h)
             \/ LockSafety(h) \/ StopTasks(h)
      PROVE  Facts'
  BY <1>3, ResolveFacts, CheckFacts, InsertFacts, DecisionFacts, RefuseFacts, SafetyFacts,
     StopFacts
<1>4. ASSUME NEW r \in Requests,
             \/ \E c \in Connectors : Admit(r, c)
             \/ \E in \in ConnectorInput : BeginConnector(r, in)
             \/ LoadOrganization(r) \/ Requeue(r)
             \/ \E t \in Tasks : Pick(r, t)
             \/ LockLeased(r) \/ RenewGate(r)
      PROVE  Facts'
  BY <1>4, AdmitFacts, BeginFacts, LoadFacts, RequeueFacts, PickFacts, LeasedFacts, GateFacts
<1>5. ASSUME NEW i \in Slot,
             LockOrganization(i) \/ Flush(i) \/ Rollback(i) \/ Commit(i)
      PROVE  Facts'
  BY <1>5, LockFacts, FlushFacts, RollbackFacts, CommitFacts
<1>6. ASSUME UNCHANGED allVars PROVE Facts'
  <2>1. Uncommitted /\ txn' = txn
    BY <1>6 DEF allVars, vars, Uncommitted
  <2>2. /\ \A h \in Sessions : HumanFacts(txn[h])
        /\ \A r \in Requests : ConnectorFacts(r, txn[r])
        /\ RowsApart /\ LeaseBounded
    BY DEF TxnInv, Facts
  <2>3. ASSUME NEW h \in Sessions PROVE HumanFacts(txn[h])'
    BY <2>1, <2>2, HumanStays DEF Slot
  <2>4. ASSUME NEW r \in Requests PROVE ConnectorFacts(r, txn[r])'
    BY <2>1, <2>2, ConnectorStays
  <2>5. RowsApart' /\ LeaseBounded'
    BY <2>1, <2>2 DEF RowsApart, LeaseBounded, Uncommitted, taskVars
  <2> QED
    BY <2>3, <2>4, <2>5 DEF Facts
<1>7. Facts'
  BY <1>3, <1>4, <1>5, <1>6, PassFacts DEF TNext
<1> QED
  BY <1>1, <1>2, <1>7 DEF TxnInv

(* The transactions implement the atomic requests of TaskControl, so every *)
(* theorem about those holds of the committed state, whatever the          *)
(* interleaving of row locks, stale copies and rollbacks (api.py and       *)
(* service.py against the database's READ COMMITTED).                      *)
THEOREM TransactionsImplement == TSpec => ImplementsTaskControl
<1>1. TInit => TxnInv /\ LeaseInv /\ Init
  BY InitTxn, InitLease DEF TInit
<1> QED
  BY <1>1, NextTxn, StepRefines, PTL DEF TSpec, ImplementsTaskControl, Spec

(* What was checked for an answer still holds when the answer is sent and  *)
(* until it is committed: no level that stops work, and for a renewal or a *)
(* completion the caller's own lease in force (lease_task,                 *)
(* renew_task_lease, complete_task).                                       *)
THEOREM AnswersStayTrue == TSpec => []AnswerStillTrue
<1>1. ASSUME TxnInv, LeaseInv PROVE AnswerStillTrue
  <2> SUFFICES ASSUME NEW r \in Requests, txn[r].pc = "flushed"
               PROVE  /\ safety \notin Closed
                      /\ txn[r].op # "lease" => HoldsLease(r, txn[r].arg.task, txn[r].arg.n)
    BY DEF AnswerStillTrue
  <2>1. ConnectorFacts(r, txn[r]) /\ r \in Slot
    BY <1>1 DEF TxnInv, Facts, Slot
  <2>2. txn[r].op \in {"lease", "renew", "complete"}
    BY <2>1 DEF ConnectorFacts, ConnectorStage, NoTxn
  <2>3. CASE txn[r].op = "lease"
    <3>1. Current(txn[r])
      BY <1>1, <2>1, <2>3, AuditOf DEF TxnInv, Current
    <3> QED
      BY <2>1, <2>3, <3>1 DEF ConnectorFacts
  <2>4. CASE txn[r].op \in {"renew", "complete"}
    <3>1. HoldsLease(r, txn[r].arg.task, txn[r].arg.n) /\ txn[r].arg.task \in Tasks
      BY <2>1, <2>4 DEF ConnectorFacts, ConnectorTyped, Held
    <3>2. safety \notin Closed
      BY <1>1, <3>1 DEF LeaseInv, SafetyStopsWork, HoldsLease
    <3> QED
      BY <3>1, <3>2
  <2> QED
    BY <2>2, <2>3, <2>4
<1>2. TInit => TxnInv /\ LeaseInv
  BY InitTxn, InitLease DEF TInit
<1> QED
  BY <1>1, <1>2, NextTxn, PTL DEF TSpec

============================================================================
