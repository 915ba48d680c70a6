-------------------------- MODULE TaskTransactions --------------------------
(***************************************************************************)
(* The requests of TaskControl as the database sees them: PostgreSQL READ  *)
(* COMMITTED transactions that lock rows, read the organization row once   *)
(* and then trust that copy, append one event to the audit chain, answer   *)
(* the client, and only then commit.                                       *)
(*                                                                         *)
(* Three facts of the code make the interleavings matter.                  *)
(*   - append_audit selects the organization FOR UPDATE, but a row already *)
(*     in the session's identity map keeps the attributes it was first     *)
(*     loaded with.  A request that loaded the organization earlier        *)
(*     (every human request, and lease_task) therefore numbers its event   *)
(*     from an old audit_seq; only complete_task, which never loaded it,   *)
(*     sees the locked row.                                                *)
(*   - UNIQUE (organization_id, sequence) then refuses that event, and the *)
(*     transaction with it.  The audit chain is the concurrency control.   *)
(*   - inserting a row that references the organization takes a KEY SHARE  *)
(*     lock on it, and update_safety locks organization and tasks in the   *)
(*     opposite order of every other request: lock cycles are possible and *)
(*     the database breaks them by rolling one transaction back.           *)
(*                                                                         *)
(* The committed state is that of TaskControl, whose operators are used    *)
(* for the effects; heartbeats and agent-scoped work, which touch none of  *)
(* these rows, are left to TaskControl.                                    *)
(***************************************************************************)
EXTENDS TaskControl, Sequences

CONSTANTS Sessions,   \* human requests that can be in flight at once
          Ops,        \* bound: the human operations of an instance
          Levels,     \* bound: the safety levels of an instance
          DryRuns,    \* bound: whether tasks may be dry runs, and cite one
          MaxAudit    \* bound: no human request begins once the chain is this long

ASSUME TransactionAssumption ==
    /\ Sessions \cap Requests = {}
    /\ Ops \subseteq {"connect", "revoke", "create", "decide", "safety"}
    /\ Levels \subseteq SafetyLevel
    /\ DryRuns \subseteq BOOLEAN
    /\ MaxAudit \in Nat

VARIABLES auditSeq,      \* organizations.audit_seq
          auditHead,     \* organizations.audit_head: which event it is the hash of, 0 for none
          audit,         \* the rows of audit_events in commit order
          txn            \* the open transaction of each slot

orgVars == <<auditSeq, auditHead, audit>>
allVars == <<vars, orgVars, txn>>

Slot == Sessions \cup Requests

(* A transaction: what it does and with which inputs, how far it got, its  *)
(* copy of the organization row, the task rows it locked and its lock on   *)
(* the organization row.                                                   *)
NoTxn == [op |-> "none", arg |-> [task |-> None], pc |-> "idle", level |-> "normal",
          seq |-> 0, head |-> 0, clock |-> 0, rows |-> {}, org |-> "none"]

TInit ==
    /\ Init
    /\ auditSeq = 0
    /\ auditHead = 0
    /\ audit = <<>>
    /\ txn = [i \in Slot |-> NoTxn]

(* What a transaction does before its commit leaves the tables alone.      *)
Uncommitted == UNCHANGED <<safety, taskVars, connVars, request, now, orgVars>>

(* The organization row as a transaction loads it.                         *)
Loaded(x) == [x EXCEPT !.level = safety, !.seq = auditSeq, !.head = auditHead]

RowFree(i, t) == \A j \in Slot \ {i} : t \notin txn[j].rows
OrgFree(i) == \A j \in Slot \ {i} : txn[j].org = "none"
OrgShareable(i) == \A j \in Slot \ {i} : txn[j].org # "update"

Advance(i, x) == txn' = [txn EXCEPT ![i] = x]

----------------------------------------------------------------------------
(* Human requests begin by resolving the workspace, which loads the        *)
(* organization row.                                                       *)
HumanInput == {in \in
         [op : {"connect", "revoke"}, arg : [conn : Connectors, task : {None}]]
    \cup [op : {"safety"}, arg : [level : Levels, task : {None}]]
    \cup [op : {"decide"}, arg : [task : Tasks, by : Approvers,
                                  decision : {"approved", "rejected"}]]
    \cup [op : {"create"}, arg : [task : Tasks, by : Creators, action : Actions,
                                  dry : DryRuns, conn : Connectors,
                                  prior : {None} \cup {q \in Tasks : TRUE \in DryRuns}]] :
    in.op \in Ops}

ResolveContext(h, in) ==
    /\ txn[h] = NoTxn
    /\ Len(audit) < MaxAudit
    /\ Advance(h, [Loaded(NoTxn) EXCEPT !.op = in.op, !.arg = in.arg, !.pc = "loaded",
                                        !.clock = now])
    /\ Uncommitted

(* Slip: creation does not look at the safety level.                       *)
MayCreateHalted(x) ==
    /\ status[x.arg.task] = "absent"
    /\ Validated(x.arg.action, x.arg.dry, x.arg.prior)
    /\ Allowlisted(x.arg.action, x.arg.conn, FALSE)

(* The checks of create_task: the safety level is the loaded one, the      *)
(* tasks and the connector are read as they are now.                       *)
MayCreate(x) ==
    /\ x.level \notin Closed
    /\ status[x.arg.task] = "absent"
    /\ Validated(x.arg.action, x.arg.dry, x.arg.prior)
    /\ Allowlisted(x.arg.action, x.arg.conn, FALSE)

Check(h) ==
    LET x == txn[h]
    IN  /\ x.pc = "loaded"
        /\ CASE x.op = "create" -> MayCreate(x)
             [] x.op = "connect" -> presence[x.arg.conn] = "absent"
             [] x.op = "revoke" -> presence[x.arg.conn] # "absent"
             [] OTHER -> FALSE
        /\ Advance(h, [x EXCEPT !.pc = IF x.op = "revoke" THEN "ready" ELSE "checked"])
        /\ Uncommitted

(* The flush of a new row waits for, then takes, the KEY SHARE lock of its *)
(* foreign key.  A task or connector id is fresh, so no other open insert  *)
(* has it.                                                                 *)
Insert(h) ==
    LET x == txn[h]
        Same(j) == txn[j].op = x.op /\ txn[j].arg.task = x.arg.task
                   /\ txn[j].pc \in {"ready", "locked", "flushed"}
    IN  /\ x.pc = "checked"
        /\ OrgShareable(h)
        /\ \A j \in Sessions \ {h} : ~Same(j)
        /\ Advance(h, [x EXCEPT !.pc = "ready", !.org = "share"])
        /\ Uncommitted

(* decide_task locks the task row, then reads the approval.                *)
LockDecision(h) ==
    LET x == txn[h]
        t == x.arg.task
    IN  /\ x.op = "decide" /\ x.pc = "loaded"
        /\ RowFree(h, t)
        /\ status[t] = "awaiting_approval"
        /\ approval[t].status = "pending"
        /\ ~(approval[t].expires < now)
        /\ MayDecide(x.arg.by, t)
        /\ Advance(h, [x EXCEPT !.pc = "ready", !.rows = {t}, !.clock = now])
        /\ Uncommitted

(* The branch that marks the approval expired and the task rejected raises *)
(* and so rolls both back.                                                 *)
RefuseExpired(h) ==
    LET x == txn[h]
        t == x.arg.task
    IN  /\ x.op = "decide" /\ x.pc = "loaded"
        /\ RowFree(h, t)
        /\ status[t] = "awaiting_approval"
        /\ approval[t].expires < now
        /\ Advance(h, NoTxn)
        /\ Uncommitted

(* update_safety locks the organization first and the task rows second.    *)
LockSafety(h) ==
    LET x == txn[h]
    IN  /\ x.op = "safety" /\ x.pc = "loaded"
        /\ OrgFree(h)
        /\ Advance(h, [x EXCEPT !.pc = "safety", !.org = "update"])
        /\ Uncommitted

(* Slip: the rows are selected without FOR UPDATE.                         *)
StopTasksUnlocked(h) ==
    /\ txn[h].pc = "safety"
    /\ Advance(h, [txn[h] EXCEPT !.pc = "locked", !.rows = Stoppable(txn[h].arg.level)])
    /\ Uncommitted

StopTasks(h) ==
    LET x == txn[h]
        Rows == Stoppable(x.arg.level)
    IN  /\ x.pc = "safety"
        /\ \A t \in Rows : RowFree(h, t)
        /\ Advance(h, [x EXCEPT !.pc = "locked", !.rows = Rows])
        /\ Uncommitted

----------------------------------------------------------------------------
(* Connector requests: Authenticate (TaskControl) has loaded the connector *)
(* row; the organization is loaded by the handler, if at all.              *)
ConnectorInput ==
         [op : {"lease"}, arg : [task : {None}]]
    \cup [op : {"renew"}, arg : [task : Tasks, n : 1 .. MaxLeases]]
    \cup [op : {"complete"}, arg : [task : Tasks, n : 1 .. MaxLeases,
                                    outcome : {"succeeded", "failed"}]]

BeginConnector(r, in) ==
    /\ request[r] # Idle
    /\ txn[r] = NoTxn
    /\ in.op # "lease" => in.arg.n <= lease[in.arg.task].issued
    /\ Advance(r, [NoTxn EXCEPT !.op = in.op, !.arg = in.arg, !.pc = "begun"])
    /\ Uncommitted

(* lease_task: the safety gate and the clock, before any lock.             *)
LoadOrganization(r) ==
    LET x == txn[r]
    IN  /\ x.op = "lease" /\ x.pc = "begun"
        /\ safety \notin Closed
        /\ Advance(r, [Loaded(x) EXCEPT !.pc = "loaded", !.clock = now])
        /\ Uncommitted

(* Slip: expired leases are collected without locking them.                *)
RequeueUnlocked(r) ==
    LET x == txn[r]
    IN  /\ x.op = "lease" /\ x.pc = "loaded"
        /\ Advance(r, [x EXCEPT !.pc = "requeued", !.rows = Requeued(request[r].conn, x.clock)])
        /\ Uncommitted

(* The UPDATE that requeues this connector's expired leases locks them.    *)
Requeue(r) ==
    LET x == txn[r]
        Rows == Requeued(request[r].conn, x.clock)
    IN  /\ x.op = "lease" /\ x.pc = "loaded"
        /\ \A t \in Rows : RowFree(r, t)
        /\ Advance(r, [x EXCEPT !.pc = "requeued", !.rows = Rows])
        /\ Uncommitted

(* SELECT ... FOR UPDATE SKIP LOCKED over queued rows, its own included.   *)
Pick(r, t) ==
    LET x == txn[r]
    IN  /\ x.pc = "requeued"
        /\ \/ t \in x.rows
           \/ work[t].conn = request[r].conn /\ status[t] = "queued" /\ RowFree(r, t)
        /\ lease[t].issued < MaxLeases
        /\ Advance(r, [x EXCEPT !.pc = "ready", !.rows = @ \cup {t},
                                !.arg = [task |-> t, back |-> x.rows]])
        /\ Uncommitted

(* renew_task_lease and complete_task lock the row, then check token,      *)
(* receipt and expiry.                                                     *)
LockLeased(r) ==
    LET x == txn[r]
        t == x.arg.task
    IN  /\ x.op \in {"renew", "complete"} /\ x.pc = "begun"
        /\ RowFree(r, t)
        /\ HoldsLease(r, t, x.arg.n)
        /\ IF x.op = "renew"
           THEN lease[t].until > now
           ELSE ReceiptMatches(t, x.arg.n) /\ ~(lease[t].until < now)
        /\ Advance(r, [x EXCEPT !.pc = IF x.op = "renew" THEN "gate" ELSE "ready",
                                !.rows = {t}, !.clock = now])
        /\ Uncommitted

(* Renewal reads the safety level last and writes no audit event.          *)
RenewGate(r) ==
    LET x == txn[r]
    IN  /\ x.pc = "gate"
        /\ safety \notin Closed
        /\ Advance(r, [x EXCEPT !.pc = "flushed"])
        /\ Uncommitted

----------------------------------------------------------------------------
(* append_audit                                                            *)

(* The identity map: only a session that never loaded the organization     *)
(* row sees it as it is when the lock is granted.                          *)
Refreshed(x) == IF x.op = "complete" THEN Loaded(x) ELSE x

LockOrganization(i) ==
    /\ txn[i].pc = "ready"
    /\ OrgFree(i)
    /\ Advance(i, [Refreshed(txn[i]) EXCEPT !.pc = "locked", !.org = "update"])
    /\ Uncommitted

(* Slip: no unique constraint on the sequence.                             *)
SequenceAny(n) == TRUE

(* The number a transaction gives its event, and the unique constraint.    *)
Sequence(x) == x.seq + 1
SequenceUnused(n) == \A k \in DOMAIN audit : audit[k].seq # n

(* The event is accepted; the endpoint returns and the answer is sent.     *)
Flush(i) ==
    /\ txn[i].pc = "locked"
    /\ SequenceUnused(Sequence(txn[i]))
    /\ Advance(i, [txn[i] EXCEPT !.pc = "flushed"])
    /\ Uncommitted

(* An integrity error, a refusal, a deadlock victim, a lost connection or  *)
(* a crash: the session rolls back, at any point before its commit.        *)
Rollback(i) ==
    /\ txn[i] # NoTxn
    /\ Advance(i, NoTxn)
    /\ request' = IF i \in Requests THEN [request EXCEPT ![i] = Idle] ELSE request
    /\ UNCHANGED <<safety, taskVars, connVars, now, orgVars>>

----------------------------------------------------------------------------
(* The commit publishes what the transaction wrote, from its own copies.   *)
CommitConnect(x) ==
    /\ presence' = [presence EXCEPT ![x.arg.conn] = "offline"]
    /\ caps' = [caps EXCEPT ![x.arg.conn] = Actions]
    /\ provided' = [provided EXCEPT ![x.arg.conn] = Actions]
    /\ UNCHANGED <<safety, taskVars, agentCaps, revoked>>

CommitRevoke(x) ==
    /\ presence' = [presence EXCEPT ![x.arg.conn] = "revoked"]
    /\ revoked' = revoked \cup {x.arg.conn}
    /\ UNCHANGED <<safety, taskVars, caps, provided, agentCaps>>

CommitCreate(x) ==
    /\ InsertTask(x.arg.task,
                  [action |-> x.arg.action, dry |-> x.arg.dry, by |-> x.arg.by,
                   conn |-> x.arg.conn, scoped |-> FALSE,
                   prior |-> IF DryRunRequired(x.arg.action) /\ ~x.arg.dry
                             THEN x.arg.prior ELSE None],
                  x.clock)
    /\ UNCHANGED <<safety, lease, doneBy, connVars>>

CommitDecide(x) ==
    /\ RecordDecision(x.arg.by, x.arg.task, x.arg.decision)
    /\ UNCHANGED <<safety, work, lease, doneBy, connVars>>

CommitSafety(x) ==
    /\ safety' = x.arg.level
    /\ BlockTasks(x.rows)
    /\ UNCHANGED <<work, approval, doneBy, connVars>>

CommitLease(i, x) ==
    /\ HandOut(x.arg.task, x.arg.back, StillCapable(i, x.arg.task), x.clock)
    /\ UNCHANGED <<safety, work, approval, doneBy, connVars>>

CommitRenew(x) ==
    /\ lease' = [lease EXCEPT ![x.arg.task].until = x.clock + LeaseTime]
    /\ UNCHANGED <<safety, status, work, approval, doneBy, connVars>>

CommitComplete(x) ==
    /\ RecordResult(x.arg.task, x.arg.n, x.arg.outcome)
    /\ UNCHANGED <<safety, work, approval, connVars>>

Commit(i) ==
    LET x == txn[i]
    IN  /\ x.pc = "flushed"
        /\ \/ x.op = "connect"  /\ CommitConnect(x)
           \/ x.op = "revoke"   /\ CommitRevoke(x)
           \/ x.op = "create"   /\ CommitCreate(x)
           \/ x.op = "decide"   /\ CommitDecide(x)
           \/ x.op = "safety"   /\ CommitSafety(x)
           \/ x.op = "lease"    /\ CommitLease(i, x)
           \/ x.op = "renew"    /\ CommitRenew(x)
           \/ x.op = "complete" /\ CommitComplete(x)
        /\ IF x.op = "renew"
           THEN UNCHANGED orgVars
           ELSE /\ audit' = Append(audit, [seq |-> Sequence(x), prev |-> x.head])
                /\ auditSeq' = Sequence(x)
                /\ auditHead' = Len(audit) + 1
        /\ request' = IF i \in Requests THEN [request EXCEPT ![i] = Idle] ELSE request
        /\ Advance(i, NoTxn)
        /\ UNCHANGED now

(* A human request is far shorter than a tick: it sees at most one.        *)
Pass ==
    /\ \A h \in Sessions : txn[h] # NoTxn => txn[h].clock = now
    /\ Tick
    /\ UNCHANGED <<orgVars, txn>>

Admit(r, c) == Authenticate(r, c) /\ UNCHANGED <<orgVars, txn>>

TNext ==
    \/ \E h \in Sessions : \/ \E in \in HumanInput : ResolveContext(h, in)
                           \/ Check(h)
                           \/ Insert(h)
                           \/ LockDecision(h)
                           \/ RefuseExpired(h)
                           \/ LockSafety(h)
                           \/ StopTasks(h)
    \/ \E r \in Requests : \/ \E c \in Connectors : Admit(r, c)
                           \/ \E in \in ConnectorInput : BeginConnector(r, in)
                           \/ LoadOrganization(r)
                           \/ Requeue(r)
                           \/ \E t \in Tasks : Pick(r, t)
                           \/ LockLeased(r)
                           \/ RenewGate(r)
    \/ \E i \in Slot : \/ LockOrganization(i)
                       \/ Flush(i)
                       \/ Rollback(i)
                       \/ Commit(i)
    \/ Pass

TSpec == TInit /\ [][TNext]_allVars

----------------------------------------------------------------------------
(* Properties                                                              *)

(* Every committed event follows the one committed before it, in number    *)
(* and in hash, and the organization row points at the last one: what      *)
(* verify_audit recomputes.                                                *)
AuditChain ==
    /\ \A k \in DOMAIN audit : audit[k].seq = k /\ audit[k].prev = k - 1
    /\ auditSeq = Len(audit)
    /\ auditHead = Len(audit)

(* A transaction that has been answered commits what it checked: while it  *)
(* holds its locks nobody changes the rows it decided on.                  *)
AnswerStillTrue ==
    \A r \in Requests :
        txn[r].pc = "flushed" =>
            /\ safety \notin Closed
            /\ txn[r].op # "lease" => HoldsLease(r, txn[r].arg.task, txn[r].arg.n)

(* The transactions implement the atomic requests of TaskControl.          *)
ImplementsTaskControl == Spec

============================================================================
