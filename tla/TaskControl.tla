---------------------------- MODULE TaskControl ----------------------------
(***************************************************************************)
(* The hosted control plane of Mission Control for one workspace, at the   *)
(* grain of one committed database transaction per request: tasks, human   *)
(* approvals, connector leases and the safety level                        *)
(* (mission-control/aegis_platform/service.py and its callers in api.py).  *)
(*                                                                         *)
(* A human request is one atomic step.  A connector request is two: the    *)
(* credential check, which loads the connector row (Authenticate), and the *)
(* handler, which works from that loaded row and commits.  What may commit *)
(* in between (a revocation, another heartbeat, a change of safety level,  *)
(* the passing of time) is therefore visible to the model.  A handler      *)
(* reads the clock once, somewhere between the credential check and its    *)
(* commit.  A refused, crashed, or deadlocked request is EndRequest: the   *)
(* session rolls back and nothing it assigned survives.                    *)
(*                                                                         *)
(* TaskTransactions opens these steps up into row locks, stale reads and   *)
(* the unique audit sequence, and implements this module.                  *)
(***************************************************************************)
EXTENDS Naturals, FiniteSets

CONSTANTS Tasks,        \* task identifiers
          Users,        \* members of the workspace
          Connectors,   \* connector identifiers
          Actions,      \* the deny-by-default catalog; an action is its own capability
          Requests,     \* connector requests that can be in flight at once
          None          \* a NULL column

CONSTANTS Risk,         \* [Actions -> {"low", "high", "critical"}]
          Creators,     \* users whose role holds tasks.create
          Approvers     \* users whose role holds tasks.approve

CONSTANTS LeaseTime,    \* settings.lease_seconds, in ticks
          ApprovalTime, \* the 24 hours of an approval request, in ticks
          MaxTime,      \* bound: the clock stops here
          MaxLeases     \* bound: leases issued for one task

ASSUME ControlAssumption ==
    /\ Risk \in [Actions -> {"low", "high", "critical"}]
    /\ Creators \subseteq Users
    /\ Approvers \subseteq Users
    /\ None \notin Users \cup Tasks \cup Connectors \cup Actions
    /\ LeaseTime \in Nat \ {0}
    /\ ApprovalTime \in Nat \ {0}
    /\ MaxTime \in Nat \ {0}
    /\ MaxLeases \in Nat \ {0}

VARIABLES safety,     \* organizations.safety_level (kill_switch_active is safety = "halted")
          status,     \* tasks.status, "absent" before the row exists
          work,       \* the columns of a task that never change after creation
          approval,   \* the approval row of a task
          lease,      \* lease_token_hash, locked_until and how many leases were issued
          doneBy,     \* history: the lease under which the result was accepted
          caps,       \* connectors.capabilities
          provided,   \* history: the capabilities a human provisioned
          agentCaps,  \* agents.capabilities of the connector's agent, {} if it has none
          revoked,    \* connectors with revoked_at set (their token hash is replaced too)
          presence,   \* connectors.status
          request,    \* connector requests past the credential check
          now         \* the clock; 0 stands for a NULL timestamp

taskVars == <<status, work, approval, lease, doneBy>>
connVars == <<caps, provided, agentCaps, revoked, presence>>
vars == <<safety, taskVars, connVars, request, now>>

SafetyLevel == {"normal", "cautious", "restricted", "halted"}
Closed == {"restricted", "halted"}
TaskStatus == {"absent", "awaiting_approval", "queued", "running",
               "blocked", "rejected", "succeeded", "failed"}
Terminal == {"blocked", "rejected", "succeeded", "failed"}
Presence == {"absent", "offline", "online", "revoked"}

WorkOrder == [action : Actions \cup {None}, dry : BOOLEAN, by : Users \cup {None},
              conn : Connectors \cup {None}, scoped : BOOLEAN,
              prior : Tasks \cup {None}]
Approval == [status : {"none", "pending", "approved", "rejected"},
             by : Users \cup {None}, expires : Nat]
Lease == [token : Nat, until : Nat, issued : Nat]
Inflight == [conn : Connectors \cup {None}, at : Nat, caps : SUBSET Actions,
             presence : Presence]

NoWork == [action |-> None, dry |-> FALSE, by |-> None, conn |-> None,
           scoped |-> FALSE, prior |-> None]
NoApproval == [status |-> "none", by |-> None, expires |-> 0]
NoLease == [token |-> 0, until |-> 0, issued |-> 0]
Idle == [conn |-> None, at |-> 0, caps |-> {}, presence |-> "absent"]

Init ==
    /\ safety = "normal"
    /\ status = [t \in Tasks |-> "absent"]
    /\ work = [t \in Tasks |-> NoWork]
    /\ approval = [t \in Tasks |-> NoApproval]
    /\ lease = [t \in Tasks |-> NoLease]
    /\ doneBy = [t \in Tasks |-> 0]
    /\ caps = [c \in Connectors |-> {}]
    /\ provided = [c \in Connectors |-> {}]
    /\ agentCaps = [c \in Connectors |-> {}]
    /\ revoked = {}
    /\ presence = [c \in Connectors |-> "absent"]
    /\ request = [r \in Requests |-> Idle]
    /\ now = 1

----------------------------------------------------------------------------
(* The action catalog (policies.py): low and medium risk need no approval, *)
(* high needs one, critical also needs an earlier successful dry run.      *)
ApprovalRequired(a) == Risk[a] # "low"
DryRunRequired(a) == Risk[a] = "critical"

----------------------------------------------------------------------------
(* Human requests                                                          *)

CreateConnector(c, C) ==
    /\ presence[c] = "absent"
    /\ presence' = [presence EXCEPT ![c] = "offline"]
    /\ caps' = [caps EXCEPT ![c] = C]
    /\ provided' = [provided EXCEPT ![c] = C]
    /\ UNCHANGED <<safety, taskVars, agentCaps, revoked, request, now>>

(* The running and queued tasks of the connector are left as they are.     *)
RevokeConnector(c) ==
    /\ presence[c] # "absent"
    /\ presence' = [presence EXCEPT ![c] = "revoked"]
    /\ revoked' = revoked \cup {c}
    /\ UNCHANGED <<safety, taskVars, caps, provided, agentCaps, request, now>>

(* A critical action that is not itself a dry run names the dry run that   *)
(* validates it.                                                           *)
Validated(a, dry, prior) ==
    DryRunRequired(a) /\ ~dry =>
        /\ prior \in Tasks
        /\ work[prior].action = a
        /\ work[prior].dry
        /\ status[prior] = "succeeded"

(* Work may name no connector; work scoped to an agent must name one.      *)
Allowlisted(a, c, scoped) ==
    /\ c \in Connectors => /\ presence[c] # "absent"
                           /\ c \notin revoked
                           /\ a \in caps[c]
    /\ scoped => /\ c \in Connectors
                 /\ a \in agentCaps[c]

(* A human request may commit one tick after it read the clock.            *)
HumanClock == (now - 1) .. now

(* The task row and, where the policy asks for one, its approval request.  *)
InsertTask(t, order, clock) ==
    /\ work' = [work EXCEPT ![t] = order]
    /\ IF ApprovalRequired(order.action)
       THEN /\ status' = [status EXCEPT ![t] = "awaiting_approval"]
            /\ approval' = [approval EXCEPT ![t] =
                              [status |-> "pending", by |-> None,
                               expires |-> clock + ApprovalTime]]
       ELSE /\ status' = [status EXCEPT ![t] = "queued"]
            /\ UNCHANGED approval

CreateTask(u, t, a, dry, c, scoped, prior) ==
    /\ u \in Creators
    /\ safety \notin Closed
    /\ status[t] = "absent"
    /\ Validated(a, dry, prior)
    /\ Allowlisted(a, c, scoped)
    /\ \E clock \in HumanClock :
          InsertTask(t, [action |-> a, dry |-> dry, by |-> u, conn |-> c, scoped |-> scoped,
                         prior |-> IF DryRunRequired(a) /\ ~dry THEN prior ELSE None],
                     clock)
    /\ UNCHANGED <<safety, lease, doneBy, connVars, request, now>>

(* Slip: the approver is not compared with the requester.                  *)
MayDecideAny(u, t) == TRUE

(* Critical actions require a different human approver.                    *)
MayDecide(u, t) == DryRunRequired(work[t].action) => work[t].by # u

RecordDecision(u, t, decision) ==
    /\ approval' = [approval EXCEPT ![t].status = decision, ![t].by = u]
    /\ status' = [status EXCEPT ![t] = IF decision = "approved" THEN "queued" ELSE "rejected"]

(* The safety level is not consulted.  A decision on an expired request    *)
(* raises, which rolls back the rejection the code assigned just before,   *)
(* so it is no step at all; TaskTransactions shows the refused request.    *)
DecideTask(u, t, decision) ==
    /\ u \in Approvers
    /\ status[t] = "awaiting_approval"
    /\ approval[t].status = "pending"
    /\ \E clock \in HumanClock : ~(approval[t].expires < clock)
    /\ MayDecide(u, t)
    /\ RecordDecision(u, t, decision)
    /\ UNCHANGED <<safety, work, lease, doneBy, connVars, request, now>>

(* Slip: running work is overlooked.                                       *)
StoppableQueued(level) == {t \in Tasks : level \in Closed /\ status[t] = "queued"}

(* What a restricted or halted level takes with it.                        *)
Stoppable(level) ==
    {t \in Tasks : level \in Closed /\ status[t] \in {"queued", "running"}}

(* Blocked tasks lose their expiry; their lease token hash is left behind. *)
BlockTasks(Stopped) ==
    /\ status' = [t \in Tasks |-> IF t \in Stopped THEN "blocked" ELSE status[t]]
    /\ lease' = [t \in Tasks |-> IF t \in Stopped
                                 THEN [lease[t] EXCEPT !.until = 0]
                                 ELSE lease[t]]

UpdateSafety(level) ==
    /\ safety' = level
    /\ BlockTasks(Stoppable(level))
    /\ UNCHANGED <<work, approval, doneBy, connVars, request, now>>

----------------------------------------------------------------------------
(* Connector requests                                                      *)

Authenticate(r, c) ==
    /\ request[r] = Idle
    /\ presence[c] \notin {"absent", "revoked"}
    /\ c \notin revoked
    /\ request' = [request EXCEPT ![r] =
                     [conn |-> c, at |-> now, caps |-> caps[c], presence |-> presence[c]]]
    /\ UNCHANGED <<safety, taskVars, connVars, now>>

(* Refused, failed, rolled back, or with nothing to do.                    *)
EndRequest(r) ==
    /\ request[r] # Idle
    /\ request' = [request EXCEPT ![r] = Idle]
    /\ UNCHANGED <<safety, taskVars, connVars, now>>

(* The handler's one reading of the clock.                                 *)
ClockReadings(r) == request[r].at .. now

(* Slip: the reported capabilities are not cut down to the provisioned.    *)
HeartbeatTrusted(r, C, A) ==
    /\ request[r] # Idle
    /\ presence' = [presence EXCEPT ![request[r].conn] = "online"]
    /\ caps' = [caps EXCEPT ![request[r].conn] = C]
    /\ agentCaps' = [agentCaps EXCEPT ![request[r].conn] = A]
    /\ request' = [request EXCEPT ![r] = Idle]
    /\ UNCHANGED <<safety, taskVars, provided, revoked, now>>

(* The heartbeat writes only what differs from the row it loaded, so a     *)
(* status or capability list changed in between may be overwritten or not. *)
Heartbeat(r, C, A) ==
    /\ request[r] # Idle
    /\ LET c == request[r].conn
           loaded == request[r].caps
           kept == IF C = {} THEN loaded ELSE C \cap loaded
       IN  /\ presence' = [presence EXCEPT ![c] =
                             IF request[r].presence = "online" THEN @ ELSE "online"]
           /\ \/ caps' = [caps EXCEPT ![c] = kept]
              \/ kept = loaded /\ UNCHANGED caps
           /\ agentCaps' = [agentCaps EXCEPT ![c] = A \cap kept]
    /\ request' = [request EXCEPT ![r] = Idle]
    /\ UNCHANGED <<safety, taskVars, provided, revoked, now>>

Expired(t, clock) ==
    /\ status[t] = "running"
    /\ lease[t].until # 0
    /\ lease[t].until < clock

(* LeaseTask first requeues the connector's own expired leases, then takes *)
(* one queued task: whichever the row order and SKIP LOCKED leave.         *)
Requeued(c, clock) == {t \in Tasks : work[t].conn = c /\ Expired(t, clock)}

Leasable(c, clock) ==
    {t \in Tasks : work[t].conn = c /\ status[t] = "queued"} \cup Requeued(c, clock)

StillCapable(r, t) ==
    /\ work[t].action \in request[r].caps
    /\ work[t].scoped => work[t].action \in agentCaps[request[r].conn]

(* Requeue the set back; then hand task t out under a new token, or block  *)
(* it.                                                                     *)
HandOut(t, back, granted, clock) ==
    LET n == lease[t].issued + 1
    IN  /\ status' = [x \in Tasks |->
                        CASE x = t /\ granted -> "running"
                          [] x = t /\ ~granted -> "blocked"
                          [] x # t /\ x \in back -> "queued"
                          [] OTHER -> status[x]]
        /\ lease' = [x \in Tasks |->
                       CASE x = t /\ granted ->
                              [token |-> n, until |-> clock + LeaseTime, issued |-> n]
                         [] x \in back /\ ~(x = t /\ granted) ->
                              [lease[x] EXCEPT !.token = 0, !.until = 0]
                         [] OTHER -> lease[x]]

LeaseTask(r, t) ==
    /\ request[r] # Idle
    /\ safety \notin Closed
    /\ lease[t].issued < MaxLeases
    /\ \E clock \in ClockReadings(r) :
         /\ t \in Leasable(request[r].conn, clock)
         /\ HandOut(t, Requeued(request[r].conn, clock), StillCapable(r, t), clock)
    /\ request' = [request EXCEPT ![r] = Idle]
    /\ UNCHANGED <<safety, work, approval, doneBy, connVars, now>>

(* The caller presents the token of its n-th lease of the task.            *)
HoldsLease(r, t, n) ==
    /\ work[t].conn = request[r].conn
    /\ status[t] = "running"
    /\ n = lease[t].token

RenewLease(r, t, n) ==
    /\ request[r] # Idle
    /\ HoldsLease(r, t, n)
    /\ safety \notin Closed
    /\ \E clock \in ClockReadings(r) :
         /\ lease[t].until > clock
         /\ lease' = [lease EXCEPT ![t].until = clock + LeaseTime]
    /\ request' = [request EXCEPT ![r] = Idle]
    /\ UNCHANGED <<safety, status, work, approval, doneBy, connVars, now>>

(* The receipt must also carry the digest of the task's execution grant,   *)
(* which only the latest lease wrote.                                      *)
ReceiptMatches(t, n) == n = lease[t].issued

RecordResult(t, n, outcome) ==
    /\ status' = [status EXCEPT ![t] = outcome]
    /\ lease' = [lease EXCEPT ![t].token = 0, ![t].until = 0]
    /\ doneBy' = [doneBy EXCEPT ![t] = n]

(* Slip: any lease of the task will do, and at any time.                   *)
CompleteTaskAnyLease(r, t, n, outcome) ==
    /\ request[r] # Idle
    /\ work[t].conn = request[r].conn
    /\ status[t] = "running"
    /\ n <= lease[t].issued
    /\ RecordResult(t, n, outcome)
    /\ request' = [request EXCEPT ![r] = Idle]
    /\ UNCHANGED <<safety, work, approval, connVars, now>>

(* Completion does not look at the safety level: a level that stops work   *)
(* has blocked the task already.                                           *)
CompleteTask(r, t, n, outcome) ==
    /\ request[r] # Idle
    /\ HoldsLease(r, t, n)
    /\ ReceiptMatches(t, n)
    /\ \E clock \in ClockReadings(r) : ~(lease[t].until < clock)
    /\ RecordResult(t, n, outcome)
    /\ request' = [request EXCEPT ![r] = Idle]
    /\ UNCHANGED <<safety, work, approval, connVars, now>>

----------------------------------------------------------------------------
Tick ==
    /\ now < MaxTime
    /\ now' = now + 1
    /\ UNCHANGED <<safety, taskVars, connVars, request>>

HumanRequest ==
    \/ \E c \in Connectors, C \in SUBSET Actions : CreateConnector(c, C)
    \/ \E c \in Connectors : RevokeConnector(c)
    \/ \E u \in Users, t \in Tasks, a \in Actions, dry \in BOOLEAN,
          c \in Connectors \cup {None}, scoped \in BOOLEAN, prior \in Tasks \cup {None} :
             CreateTask(u, t, a, dry, c, scoped, prior)
    \/ \E u \in Users, t \in Tasks, decision \in {"approved", "rejected"} :
             DecideTask(u, t, decision)
    \/ \E level \in SafetyLevel : UpdateSafety(level)

ConnectorRequest ==
    \/ \E r \in Requests, c \in Connectors : Authenticate(r, c)
    \/ \E r \in Requests : EndRequest(r)
    \/ \E r \in Requests, C \in SUBSET Actions, A \in SUBSET Actions : Heartbeat(r, C, A)
    \/ \E r \in Requests, t \in Tasks : LeaseTask(r, t)
    \/ \E r \in Requests, t \in Tasks, n \in 1 .. MaxLeases : RenewLease(r, t, n)
    \/ \E r \in Requests, t \in Tasks, n \in 1 .. MaxLeases,
          outcome \in {"succeeded", "failed"} : CompleteTask(r, t, n, outcome)

Next == HumanRequest \/ ConnectorRequest \/ Tick

Spec == Init /\ [][Next]_vars

----------------------------------------------------------------------------
(* Properties                                                              *)

(* Every variable keeps its type.                                          *)
TypeOK ==
    /\ safety \in SafetyLevel
    /\ status \in [Tasks -> TaskStatus]
    /\ work \in [Tasks -> WorkOrder]
    /\ approval \in [Tasks -> Approval]
    /\ lease \in [Tasks -> Lease]
    /\ doneBy \in [Tasks -> Nat]
    /\ caps \in [Connectors -> SUBSET Actions]
    /\ provided \in [Connectors -> SUBSET Actions]
    /\ agentCaps \in [Connectors -> SUBSET Actions]
    /\ revoked \in SUBSET Connectors
    /\ presence \in [Connectors -> Presence]
    /\ request \in [Requests -> Inflight]
    /\ now \in Nat

(* While the workspace is restricted or halted no task is running, however *)
(* requests already in flight when the level changed turn out              *)
(* (update_safety against lease_task and renew_task_lease).                *)
SafetyStopsWork ==
    safety \in Closed => \A t \in Tasks : status[t] # "running"

(* Work of a critical action was leased to a connector only after a human  *)
(* other than its requester approved it and, unless it is itself a dry     *)
(* run, after a dry run of the same action had succeeded (create_task and  *)
(* decide_task against lease_task).                                        *)
CriticalAuthority ==
    \A t \in Tasks :
        lease[t].issued > 0 /\ DryRunRequired(work[t].action) =>
            /\ approval[t].status = "approved"
            /\ approval[t].by # work[t].by
            /\ ~work[t].dry => \E p \in Tasks : /\ p = work[t].prior
                                                /\ work[p].action = work[t].action
                                                /\ work[p].dry
                                                /\ status[p] = "succeeded"

(* The approval row and the task row, which decide_task writes together,   *)
(* never disagree: a request is pending exactly while its task awaits it,  *)
(* rejected exactly when the task is, and nothing that needs approval is   *)
(* queued, running or finished without one.                                *)
ApprovalMatchesTask ==
    \A t \in Tasks :
        /\ approval[t].status = "pending" <=> status[t] = "awaiting_approval"
        /\ approval[t].status = "rejected" <=> status[t] = "rejected"
        /\ status[t] \in {"queued", "running", "blocked", "succeeded", "failed"} =>
              (approval[t].status = "approved" <=> ApprovalRequired(work[t].action))

(* A connector is only ever given work inside the capabilities a human     *)
(* provisioned for it: neither heartbeats that overtake each other nor a   *)
(* heartbeat racing a lease enlarge them (connector_heartbeat, lease_task).*)
LeasedWithinProvision ==
    \A t \in Tasks :
        lease[t].issued > 0 =>
            /\ work[t].conn \in Connectors
            /\ work[t].action \in provided[work[t].conn]

(* A task runs exactly while it carries an expiry, under its latest lease; *)
(* a token survives only on a task the safety controls blocked.            *)
LeaseShape ==
    \A t \in Tasks :
        /\ status[t] = "running" <=> lease[t].until # 0
        /\ status[t] = "running" => lease[t].token = lease[t].issued
        /\ lease[t].token # 0 => status[t] \in {"running", "blocked"}
        /\ lease[t].token \in {0, lease[t].issued}

(* The recorded result is that of the latest lease: a connector whose      *)
(* lease was requeued and leased again cannot complete the task.           *)
ResultFromLatestLease ==
    \A t \in Tasks :
        /\ status[t] \in {"succeeded", "failed"} <=> doneBy[t] # 0
        /\ doneBy[t] # 0 => doneBy[t] = lease[t].issued

(* A finished, rejected or blocked task is never reopened.                 *)
TerminalIsFinal ==
    [][\A t \in Tasks : status[t] \in Terminal =>
         status'[t] = status[t] /\ doneBy'[t] = doneBy[t] /\ lease'[t].issued = lease[t].issued]_vars

============================================================================
