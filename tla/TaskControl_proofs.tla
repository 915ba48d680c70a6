------------------------- MODULE TaskControl_proofs -------------------------
(***************************************************************************)
(* What TaskControl promises for every workspace, catalog, set of          *)
(* connectors and number of requests in flight.                            *)
(*                                                                         *)
(* Four inductive invariants, one upon the other: TypeOK; LeaseInv, which  *)
(* carries the properties of tasks and leases; ApprovalInv, which carries  *)
(* those of approvals; and ProvisionInv, the one about capabilities.       *)
(***************************************************************************)
EXTENDS TaskControl, TLAPS

----------------------------------------------------------------------------
(* Type correctness                                                        *)

(* The initial state has the types.                                        *)
LEMMA InitTypeOK == Init => TypeOK
  BY ControlAssumption
     DEF Init, TypeOK, SafetyLevel, TaskStatus, WorkOrder, Approval, Lease, Presence,
         Inflight, NoWork, NoApproval, NoLease, Idle

(* Updating the fields of a lease gives a lease.                           *)
LEMMA LeaseUpdates ==
    ASSUME NEW l \in Lease, NEW v \in Nat
    PROVE  /\ [l EXCEPT !.until = v] \in Lease
           /\ [l EXCEPT !.token = 0, !.until = 0] \in Lease
  BY DEF Lease

(* A requeued lease keeps only its count.                                  *)
LEMMA LeaseCleared ==
    ASSUME NEW l \in Lease
    PROVE  /\ [l EXCEPT !.token = 0, !.until = 0].token = 0
           /\ [l EXCEPT !.token = 0, !.until = 0].until = 0
           /\ [l EXCEPT !.token = 0, !.until = 0].issued = l.issued
  BY DEF Lease

(* A decision on an approval request gives an approval request.            *)
LEMMA ApprovalUpdates ==
    ASSUME NEW a \in Approval, NEW decision \in {"approved", "rejected"}, NEW u \in Users
    PROVE  [a EXCEPT !.status = decision, !.by = u] \in Approval
  BY DEF Approval

(* Every step, of either actor or of the clock, keeps them.                *)
LEMMA NextTypeOK == TypeOK /\ [Next]_vars => TypeOK'
<1> USE ControlAssumption DEF TypeOK
<1> SUFFICES ASSUME TypeOK, [Next]_vars PROVE TypeOK'
  OBVIOUS
<1>1. ASSUME NEW c \in Connectors, NEW C \in SUBSET Actions, CreateConnector(c, C)
      PROVE  TypeOK'
  BY <1>1 DEF CreateConnector, taskVars, Presence
<1>2. ASSUME NEW c \in Connectors, RevokeConnector(c)
      PROVE  TypeOK'
  BY <1>2 DEF RevokeConnector, taskVars, Presence
<1>3. ASSUME NEW u \in Users, NEW t \in Tasks, NEW a \in Actions, NEW dry \in BOOLEAN,
             NEW c \in Connectors \cup {None}, NEW scoped \in BOOLEAN,
             NEW prior \in Tasks \cup {None}, CreateTask(u, t, a, dry, c, scoped, prior)
      PROVE  TypeOK'
  <2> DEFINE order == [action |-> a, dry |-> dry, by |-> u, conn |-> c, scoped |-> scoped,
                       prior |-> IF DryRunRequired(a) /\ ~dry THEN prior ELSE None]
  <2>1. PICK clock \in HumanClock : InsertTask(t, order, clock)
    BY <1>3 DEF CreateTask
  <2>2. order \in WorkOrder
    BY DEF WorkOrder
  <2>3. clock + ApprovalTime \in Nat
    BY DEF HumanClock
  <2>4. [status |-> "pending", by |-> None, expires |-> clock + ApprovalTime] \in Approval
    BY <2>3 DEF Approval
  <2> HIDE DEF order
  <2>5. work' \in [Tasks -> WorkOrder]
    BY <2>1, <2>2 DEF InsertTask
  <2>6. status' \in [Tasks -> TaskStatus] /\ approval' \in [Tasks -> Approval]
    BY <2>1, <2>4 DEF InsertTask, TaskStatus
  <2> QED
    BY <1>3, <2>5, <2>6 DEF CreateTask, connVars
<1>4. ASSUME NEW u \in Users, NEW t \in Tasks, NEW decision \in {"approved", "rejected"},
             DecideTask(u, t, decision)
      PROVE  TypeOK'
  <2>1. [approval[t] EXCEPT !.status = decision, !.by = u] \in Approval
    BY ApprovalUpdates
  <2>2. approval' = [approval EXCEPT ![t] = [approval[t] EXCEPT !.status = decision, !.by = u]]
    BY <1>4 DEF DecideTask, RecordDecision
  <2>3. approval' \in [Tasks -> Approval]
    BY <2>1, <2>2
  <2>4. status' \in [Tasks -> TaskStatus]
    BY <1>4 DEF DecideTask, RecordDecision, TaskStatus
  <2> QED
    BY <1>4, <2>3, <2>4 DEF DecideTask, connVars
<1>5. ASSUME NEW level \in SafetyLevel, UpdateSafety(level)
      PROVE  TypeOK'
  <2>1. status' \in [Tasks -> TaskStatus]
    BY <1>5 DEF UpdateSafety, BlockTasks, TaskStatus
  <2>2. lease' \in [Tasks -> Lease]
    BY <1>5, LeaseUpdates DEF UpdateSafety, BlockTasks
  <2> QED
    BY <1>5, <2>1, <2>2 DEF UpdateSafety, connVars
<1>6. ASSUME NEW r \in Requests, NEW c \in Connectors, Authenticate(r, c)
      PROVE  TypeOK'
  BY <1>6 DEF Authenticate, taskVars, connVars, Inflight
<1>7. ASSUME NEW r \in Requests, EndRequest(r)
      PROVE  TypeOK'
  BY <1>7 DEF EndRequest, taskVars, connVars, Inflight, Idle, Presence
<1>8. ASSUME NEW r \in Requests, NEW C \in SUBSET Actions, NEW A \in SUBSET Actions,
             Heartbeat(r, C, A)
      PROVE  TypeOK'
  <2> DEFINE kept == IF C = {} THEN request[r].caps ELSE C \cap request[r].caps
  <2>1. kept \in SUBSET Actions
    BY DEF Inflight
  <2>2. caps' \in [Connectors -> SUBSET Actions]
    BY <1>8, <2>1 DEF Heartbeat
  <2>3. agentCaps' \in [Connectors -> SUBSET Actions]
    BY <1>8, <2>1 DEF Heartbeat
  <2>4. presence' \in [Connectors -> Presence]
    BY <1>8 DEF Heartbeat, Presence
  <2>5. request' \in [Requests -> Inflight]
    BY <1>8 DEF Heartbeat, Inflight, Idle, Presence
  <2> QED
    BY <1>8, <2>2, <2>3, <2>4, <2>5 DEF Heartbeat, taskVars
<1>9. ASSUME NEW r \in Requests, NEW t \in Tasks, LeaseTask(r, t)
      PROVE  TypeOK'
  <2>1. PICK clock \in ClockReadings(r) :
             HandOut(t, Requeued(request[r].conn, clock), StillCapable(r, t), clock)
    BY <1>9 DEF LeaseTask
  <2>2. clock \in Nat
    BY DEF ClockReadings, Inflight
  <2>3. status' \in [Tasks -> TaskStatus]
    BY <2>1 DEF HandOut, TaskStatus
  <2>4. lease' \in [Tasks -> Lease]
    <3> DEFINE n == lease[t].issued + 1
    <3>1. [token |-> n, until |-> clock + LeaseTime, issued |-> n] \in Lease
      BY <2>2 DEF Lease
    <3> QED
      BY <2>1, <3>1, LeaseUpdates DEF HandOut
  <2>5. request' \in [Requests -> Inflight]
    BY <1>9 DEF LeaseTask, Inflight, Idle, Presence
  <2> QED
    BY <1>9, <2>3, <2>4, <2>5 DEF LeaseTask, connVars
<1>10. ASSUME NEW r \in Requests, NEW t \in Tasks, NEW n \in 1 .. MaxLeases,
              RenewLease(r, t, n)
       PROVE  TypeOK'
  <2>1. request' \in [Requests -> Inflight]
    BY <1>10 DEF RenewLease, Inflight, Idle, Presence
  <2>2. lease' \in [Tasks -> Lease]
    BY <1>10 DEF RenewLease, ClockReadings, Lease, Inflight
  <2> QED
    BY <1>10, <2>1, <2>2 DEF RenewLease, connVars
<1>11. ASSUME NEW r \in Requests, NEW t \in Tasks, NEW n \in 1 .. MaxLeases,
              NEW outcome \in {"succeeded", "failed"}, CompleteTask(r, t, n, outcome)
       PROVE  TypeOK'
  <2>1. request' \in [Requests -> Inflight]
    BY <1>11 DEF CompleteTask, Inflight, Idle, Presence
  <2>2. lease' = [lease EXCEPT ![t] = [lease[t] EXCEPT !.token = 0, !.until = 0]]
    BY <1>11 DEF CompleteTask, RecordResult
  <2>3. lease' \in [Tasks -> Lease]
    BY <2>2, LeaseUpdates
  <2>4. status' \in [Tasks -> TaskStatus] /\ doneBy' \in [Tasks -> Nat]
    BY <1>11 DEF CompleteTask, RecordResult, TaskStatus
  <2> QED
    BY <1>11, <2>1, <2>3, <2>4 DEF CompleteTask, connVars
<1>12. CASE Tick
  BY <1>12 DEF Tick, taskVars, connVars
<1>13. CASE UNCHANGED vars
  BY <1>13 DEF vars, taskVars, connVars
<1> HIDE DEF TypeOK
<1> QED
  BY <1>1, <1>2, <1>3, <1>4, <1>5, <1>6, <1>7, <1>8, <1>9, <1>10, <1>11, <1>12, <1>13
     DEF Next, HumanRequest, ConnectorRequest

(* Tasks, leases, approvals and connectors always have their types.        *)
THEOREM TypeCorrect == Spec => []TypeOK
  BY InitTypeOK, NextTypeOK, PTL DEF Spec

----------------------------------------------------------------------------
(* Leases                                                                  *)

(* Work that was never queued was never leased.                            *)
Unleased ==
    \A t \in Tasks : status[t] \in {"absent", "awaiting_approval", "rejected"} =>
        lease[t].issued = 0

LeaseInv == SafetyStopsWork /\ LeaseShape /\ ResultFromLatestLease /\ Unleased

(* Steps that touch neither the safety level nor the tasks.                *)
LEMMA LeaseStutter == LeaseInv /\ UNCHANGED <<safety, taskVars>> => LeaseInv'
  BY DEF LeaseInv, SafetyStopsWork, LeaseShape, ResultFromLatestLease, Unleased, taskVars

(* No lease exists at first.                                               *)
LEMMA InitLease == Init => LeaseInv
  BY DEF Init, LeaseInv, SafetyStopsWork, LeaseShape, ResultFromLatestLease, Unleased,
         Closed, NoLease

(* Every step keeps the invariant of the leases.                           *)
LEMMA NextLease == TypeOK /\ LeaseInv /\ [Next]_vars => LeaseInv'
<1> SUFFICES ASSUME TypeOK, LeaseInv, [Next]_vars PROVE LeaseInv'
  OBVIOUS
<1> USE ControlAssumption
<1>0. /\ status \in [Tasks -> TaskStatus] /\ lease \in [Tasks -> Lease]
      /\ doneBy \in [Tasks -> Nat] /\ safety \in SafetyLevel
      /\ request \in [Requests -> Inflight] /\ now \in Nat
  BY DEF TypeOK
<1>1. \A t \in Tasks : /\ lease[t].token \in Nat /\ lease[t].until \in Nat
                       /\ lease[t].issued \in Nat /\ doneBy[t] \in Nat
  BY <1>0 DEF Lease
<1>2. ASSUME NEW u \in Users, NEW t \in Tasks, NEW a \in Actions, NEW dry \in BOOLEAN,
             NEW c \in Connectors \cup {None}, NEW scoped \in BOOLEAN,
             NEW prior \in Tasks \cup {None}, CreateTask(u, t, a, dry, c, scoped, prior)
      PROVE  LeaseInv'
  <2>1. /\ status[t] = "absent" /\ safety \notin Closed
        /\ UNCHANGED <<safety, lease, doneBy>>
    BY <1>2 DEF CreateTask
  <2>2. \E s \in {"awaiting_approval", "queued"} : status' = [status EXCEPT ![t] = s]
    BY <1>2 DEF CreateTask, InsertTask
  <2> QED
    BY <1>0, <2>1, <2>2
       DEF LeaseInv, SafetyStopsWork, LeaseShape, ResultFromLatestLease, Unleased
<1>3. ASSUME NEW u \in Users, NEW t \in Tasks, NEW decision \in {"approved", "rejected"},
             DecideTask(u, t, decision)
      PROVE  LeaseInv'
  <2>1. status[t] = "awaiting_approval" /\ UNCHANGED <<safety, lease, doneBy>>
    BY <1>3 DEF DecideTask
  <2>2. \E s \in {"rejected", "queued"} : status' = [status EXCEPT ![t] = s]
    BY <1>3 DEF DecideTask, RecordDecision
  <2> QED
    BY <1>0, <2>1, <2>2
       DEF LeaseInv, SafetyStopsWork, LeaseShape, ResultFromLatestLease, Unleased
<1>4. ASSUME NEW level \in SafetyLevel, UpdateSafety(level)
      PROVE  LeaseInv'
  <2> DEFINE Stopped == Stoppable(level)
  <2>1. /\ safety' = level /\ UNCHANGED doneBy
        /\ status' = [t \in Tasks |-> IF t \in Stopped THEN "blocked" ELSE status[t]]
        /\ lease' = [t \in Tasks |-> IF t \in Stopped
                                     THEN [lease[t] EXCEPT !.until = 0] ELSE lease[t]]
    BY <1>4 DEF UpdateSafety, BlockTasks
  <2>2. \A t \in Tasks : /\ lease'[t].token = lease[t].token
                         /\ lease'[t].issued = lease[t].issued
                         /\ lease'[t].until = IF t \in Stopped THEN 0 ELSE lease[t].until
    BY <1>0, <2>1 DEF Lease
  <2>3. \A t \in Tasks : t \in Stopped <=>
            level \in Closed /\ status[t] \in {"queued", "running"}
    BY DEF Stoppable
  <2> HIDE DEF Stopped
  <2>4. SafetyStopsWork'
    BY <2>1, <2>3 DEF SafetyStopsWork
  <2>5. LeaseShape'
    BY <2>1, <2>2, <2>3 DEF LeaseInv, LeaseShape
  <2>6. ResultFromLatestLease' /\ Unleased'
    BY <2>1, <2>2, <2>3 DEF LeaseInv, ResultFromLatestLease, Unleased
  <2> QED
    BY <2>4, <2>5, <2>6 DEF LeaseInv
<1>5. ASSUME NEW r \in Requests, NEW t \in Tasks, LeaseTask(r, t)
      PROVE  LeaseInv'
  <2>1. PICK clock \in ClockReadings(r) :
          /\ t \in Leasable(request[r].conn, clock)
          /\ HandOut(t, Requeued(request[r].conn, clock), StillCapable(r, t), clock)
    BY <1>5 DEF LeaseTask
  <2>2. clock \in Nat
    BY <1>0, <2>1 DEF ClockReadings, Inflight
  <2> DEFINE back == Requeued(request[r].conn, clock)
             granted == StillCapable(r, t)
  <2>3. \A x \in back : x \in Tasks /\ status[x] = "running"
    BY DEF Requeued, Expired
  <2>4. status[t] \in {"queued", "running"} /\ (status[t] = "running" => t \in back)
    BY <2>1, <2>3 DEF Leasable
  <2> HIDE DEF back, granted
  <2>5. ASSUME NEW x \in Tasks, x # t, x \notin back
        PROVE  status'[x] = status[x] /\ lease'[x] = lease[x]
    BY <2>1, <2>5 DEF HandOut, back, granted
  <2>6. ASSUME NEW x \in Tasks, x # t, x \in back
        PROVE  status'[x] = "queued" /\ lease'[x] = [lease[x] EXCEPT !.token = 0, !.until = 0]
    BY <2>1, <2>6 DEF HandOut, back, granted
  <2>7. ASSUME granted
        PROVE  /\ status'[t] = "running"
               /\ lease'[t] = [token |-> lease[t].issued + 1, until |-> clock + LeaseTime,
                               issued |-> lease[t].issued + 1]
    BY <2>1, <2>7 DEF HandOut, back, granted
  <2>8. ASSUME ~granted
        PROVE  /\ status'[t] = "blocked"
               /\ \/ t \in back /\ lease'[t] = [lease[t] EXCEPT !.token = 0, !.until = 0]
                  \/ t \notin back /\ lease'[t] = lease[t]
    BY <2>1, <2>8 DEF HandOut, back, granted
  <2>9. safety \notin Closed /\ UNCHANGED <<safety, doneBy>>
    BY <1>5 DEF LeaseTask
  <2> DEFINE Cleared(x) == /\ lease'[x].token = 0 /\ lease'[x].until = 0
                           /\ lease'[x].issued = lease[x].issued
  <2>10. \A x \in Tasks : lease'[x] = [lease[x] EXCEPT !.token = 0, !.until = 0] => Cleared(x)
    BY <1>0, LeaseCleared
  <2>11. SafetyStopsWork'
    BY <2>9 DEF SafetyStopsWork
  <2>12. ASSUME NEW x \in Tasks
         PROVE  \/ status'[x] = status[x] /\ lease'[x] = lease[x]
                \/ status[x] = "running" /\ status'[x] \in {"queued", "blocked"} /\ Cleared(x)
                \/ /\ status[x] = "queued" /\ status'[x] = "blocked" /\ lease'[x] = lease[x]
                \/ /\ status[x] \in {"queued", "running"} /\ status'[x] = "running"
                   /\ lease'[x].token = lease[x].issued + 1
                   /\ lease'[x].until = clock + LeaseTime
                   /\ lease'[x].issued = lease[x].issued + 1
    <3>1. CASE x # t
      BY <2>3, <2>5, <2>6, <2>10, <3>1
    <3>2. CASE x = t /\ granted
      BY <2>4, <2>7, <3>2
    <3>3. CASE x = t /\ ~granted
      BY <2>3, <2>4, <2>8, <2>10, <3>3
    <3> QED
      BY <3>1, <3>2, <3>3
  <2>13. clock + LeaseTime # 0 /\ \A x \in Tasks : lease[x].issued + 1 # 0
    BY <1>1, <2>2
  <2>14. LeaseShape'
    BY <1>1, <2>12, <2>13 DEF LeaseInv, LeaseShape
  <2>15. ResultFromLatestLease'
    BY <2>9, <2>12 DEF LeaseInv, ResultFromLatestLease
  <2>16. Unleased'
    BY <2>12 DEF LeaseInv, Unleased
  <2> QED
    BY <2>11, <2>14, <2>15, <2>16 DEF LeaseInv
<1>6. ASSUME NEW r \in Requests, NEW t \in Tasks, NEW n \in 1 .. MaxLeases,
             RenewLease(r, t, n)
      PROVE  LeaseInv'
  <2>1. PICK clock \in ClockReadings(r) :
            lease' = [lease EXCEPT ![t].until = clock + LeaseTime]
    BY <1>6 DEF RenewLease
  <2>2. clock + LeaseTime # 0
    BY <1>0, <2>1 DEF ClockReadings, Inflight
  <2>3. \A x \in Tasks : /\ lease'[x].token = lease[x].token
                         /\ lease'[x].issued = lease[x].issued
                         /\ lease'[x].until = IF x = t THEN clock + LeaseTime
                                              ELSE lease[x].until
    BY <1>0, <2>1 DEF Lease
  <2>4. status[t] = "running" /\ UNCHANGED <<safety, status, doneBy>>
    BY <1>6 DEF RenewLease, HoldsLease
  <2> QED
    BY <2>2, <2>3, <2>4
       DEF LeaseInv, SafetyStopsWork, LeaseShape, ResultFromLatestLease, Unleased
<1>7. ASSUME NEW r \in Requests, NEW t \in Tasks, NEW n \in 1 .. MaxLeases,
             NEW outcome \in {"succeeded", "failed"}, CompleteTask(r, t, n, outcome)
      PROVE  LeaseInv'
  <2>1. /\ status' = [status EXCEPT ![t] = outcome]
        /\ lease' = [lease EXCEPT ![t].token = 0, ![t].until = 0]
        /\ doneBy' = [doneBy EXCEPT ![t] = n]
        /\ UNCHANGED safety
    BY <1>7 DEF CompleteTask, RecordResult
  <2>2. status[t] = "running" /\ n = lease[t].issued /\ n # 0
    BY <1>7 DEF CompleteTask, HoldsLease, ReceiptMatches
  <2>3. \A x \in Tasks : /\ lease'[x].token = IF x = t THEN 0 ELSE lease[x].token
                         /\ lease'[x].issued = lease[x].issued
                         /\ lease'[x].until = IF x = t THEN 0 ELSE lease[x].until
                         /\ status'[x] = IF x = t THEN outcome ELSE status[x]
                         /\ doneBy'[x] = IF x = t THEN n ELSE doneBy[x]
    BY <1>0, <2>1 DEF Lease
  <2>4. SafetyStopsWork'
    BY <2>1, <2>3 DEF LeaseInv, SafetyStopsWork
  <2>5. LeaseShape'
    BY <2>3 DEF LeaseInv, LeaseShape
  <2>6. ResultFromLatestLease' /\ Unleased'
    BY <2>2, <2>3 DEF LeaseInv, ResultFromLatestLease, Unleased
  <2> QED
    BY <2>4, <2>5, <2>6 DEF LeaseInv
<1>8. ASSUME UNCHANGED <<safety, taskVars>>
      PROVE  LeaseInv'
  BY <1>8, LeaseStutter
<1>9. CASE \/ \E c \in Connectors, C \in SUBSET Actions : CreateConnector(c, C)
           \/ \E c \in Connectors : RevokeConnector(c)
           \/ \E r \in Requests, c \in Connectors : Authenticate(r, c)
           \/ \E r \in Requests : EndRequest(r)
           \/ \E r \in Requests, C \in SUBSET Actions, A \in SUBSET Actions :
                 Heartbeat(r, C, A)
           \/ Tick
           \/ UNCHANGED vars
  BY <1>8, <1>9 DEF CreateConnector, RevokeConnector, Authenticate, EndRequest,
                    Heartbeat, Tick, vars
<1> QED
  BY <1>2, <1>3, <1>4, <1>5, <1>6, <1>7, <1>9 DEF Next, HumanRequest, ConnectorRequest

(* However leases, safety changes and results interleave, nothing runs     *)
(* while the workspace is restricted or halted.                            *)
THEOREM SafetyStops == Spec => []SafetyStopsWork
<1>1. LeaseInv => SafetyStopsWork
  BY DEF LeaseInv
<1> QED
  BY <1>1, InitTypeOK, NextTypeOK, InitLease, NextLease, PTL DEF Spec

(* A recorded result is always the result of the latest lease.             *)
THEOREM ResultIsLatest == Spec => []ResultFromLatestLease
<1>1. LeaseInv => ResultFromLatestLease
  BY DEF LeaseInv
<1> QED
  BY <1>1, InitTypeOK, NextTypeOK, InitLease, NextLease, PTL DEF Spec

(* Neither a late request nor a lease handed out again reopens work that   *)
(* has reached its end.                                                    *)
THEOREM TerminalStays == Spec => TerminalIsFinal
<1> DEFINE Final == \A t \in Tasks : status[t] \in Terminal =>
             status'[t] = status[t] /\ doneBy'[t] = doneBy[t] /\ lease'[t].issued = lease[t].issued
<1>1. TypeOK /\ [Next]_vars => [Final]_vars
  <2> SUFFICES ASSUME TypeOK, [Next]_vars PROVE Final
    OBVIOUS
  <2>1. /\ status \in [Tasks -> TaskStatus] /\ lease \in [Tasks -> Lease]
        /\ doneBy \in [Tasks -> Nat]
    BY DEF TypeOK
  <2>2. ASSUME NEW u \in Users, NEW t \in Tasks, NEW a \in Actions, NEW dry \in BOOLEAN,
               NEW c \in Connectors \cup {None}, NEW scoped \in BOOLEAN,
               NEW prior \in Tasks \cup {None}, CreateTask(u, t, a, dry, c, scoped, prior)
        PROVE  Final
    BY <2>1, <2>2 DEF CreateTask, InsertTask, Terminal
  <2>3. ASSUME NEW u \in Users, NEW t \in Tasks, NEW decision \in {"approved", "rejected"},
               DecideTask(u, t, decision)
        PROVE  Final
    BY <2>1, <2>3 DEF DecideTask, RecordDecision, Terminal
  <2>4. ASSUME NEW level \in SafetyLevel, UpdateSafety(level)
        PROVE  Final
    BY <2>1, <2>4 DEF UpdateSafety, BlockTasks, Stoppable, Terminal, Lease
  <2>5. ASSUME NEW r \in Requests, NEW t \in Tasks, LeaseTask(r, t)
        PROVE  Final
    <3>1. PICK clock \in ClockReadings(r) :
            /\ t \in Leasable(request[r].conn, clock)
            /\ HandOut(t, Requeued(request[r].conn, clock), StillCapable(r, t), clock)
      BY <2>5 DEF LeaseTask
    <3>2. ASSUME NEW x \in Tasks, status[x] \in Terminal
          PROVE  x # t /\ x \notin Requeued(request[r].conn, clock)
      BY <3>1, <3>2 DEF Leasable, Requeued, Expired, Terminal
    <3>3. ASSUME NEW x \in Tasks, status[x] \in Terminal
          PROVE  status'[x] = status[x] /\ lease'[x] = lease[x]
      BY <3>1, <3>2, <3>3 DEF HandOut
    <3> QED
      BY <2>5, <3>3 DEF LeaseTask
  <2>6. ASSUME NEW r \in Requests, NEW t \in Tasks, NEW n \in 1 .. MaxLeases,
               RenewLease(r, t, n)
        PROVE  Final
    BY <2>1, <2>6 DEF RenewLease, HoldsLease, Terminal, Lease
  <2>7. ASSUME NEW r \in Requests, NEW t \in Tasks, NEW n \in 1 .. MaxLeases,
               NEW outcome \in {"succeeded", "failed"}, CompleteTask(r, t, n, outcome)
        PROVE  Final
    BY <2>1, <2>7 DEF CompleteTask, RecordResult, HoldsLease, Terminal, Lease
  <2>8. CASE \/ \E c \in Connectors, C \in SUBSET Actions : CreateConnector(c, C)
             \/ \E c \in Connectors : RevokeConnector(c)
             \/ \E r \in Requests, c \in Connectors : Authenticate(r, c)
             \/ \E r \in Requests : EndRequest(r)
             \/ \E r \in Requests, C \in SUBSET Actions, A \in SUBSET Actions :
                   Heartbeat(r, C, A)
             \/ Tick
             \/ UNCHANGED vars
    BY <2>8 DEF CreateConnector, RevokeConnector, Authenticate, EndRequest,
                Heartbeat, Tick, vars, taskVars
  <2> HIDE DEF Final
  <2> QED
    BY <2>2, <2>3, <2>4, <2>5, <2>6, <2>7, <2>8 DEF Next, HumanRequest, ConnectorRequest
<1> QED
  BY <1>1, InitTypeOK, NextTypeOK, PTL DEF Spec, TerminalIsFinal

----------------------------------------------------------------------------
(* Approvals                                                               *)

(* A task that exists was validated when it was created, and the dry run   *)
(* that validated it has stayed a success; the approver of a critical      *)
(* action is not its requester.                                            *)
Authority ==
    \A t \in Tasks :
        /\ status[t] = "absent" => approval[t].status = "none"
        /\ status[t] # "absent" => Validated(work[t].action, work[t].dry, work[t].prior)
        /\ status[t] \in {"awaiting_approval", "rejected"} => ApprovalRequired(work[t].action)
        /\ approval[t].status = "approved" => MayDecide(approval[t].by, t)

ApprovalInv == ApprovalMatchesTask /\ Authority

(* Steps after which every task has the status, orders and approval it had,*)
(* or has moved on between states past approval without leaving success.   *)
LEMMA ApprovalStutter ==
    ASSUME ApprovalInv, UNCHANGED <<work, approval>>,
           \A t \in Tasks :
             \/ status'[t] = status[t]
             \/ /\ status[t] \in {"queued", "running"}
                /\ status'[t] \in {"queued", "running", "blocked", "succeeded", "failed"}
    PROVE  ApprovalInv'
<1>1. ApprovalMatchesTask'
  BY DEF ApprovalInv, ApprovalMatchesTask
<1>2. Authority'
  BY DEF ApprovalInv, Authority, Validated, MayDecide
<1> QED
  BY <1>1, <1>2 DEF ApprovalInv

(* Nothing has been created at first.                                      *)
LEMMA InitApproval == Init => ApprovalInv
  BY DEF Init, ApprovalInv, ApprovalMatchesTask, Authority, NoApproval

(* Every step keeps the invariant of the approvals.                        *)
LEMMA NextApproval == TypeOK /\ ApprovalInv /\ [Next]_vars => ApprovalInv'
<1> SUFFICES ASSUME TypeOK, ApprovalInv, [Next]_vars PROVE ApprovalInv'
  OBVIOUS
<1>0. /\ status \in [Tasks -> TaskStatus] /\ work \in [Tasks -> WorkOrder]
      /\ approval \in [Tasks -> Approval]
  BY DEF TypeOK
<1>1. ASSUME NEW u \in Users, NEW t \in Tasks, NEW a \in Actions, NEW dry \in BOOLEAN,
             NEW c \in Connectors \cup {None}, NEW scoped \in BOOLEAN,
             NEW prior \in Tasks \cup {None}, CreateTask(u, t, a, dry, c, scoped, prior)
      PROVE  ApprovalInv'
  <2> DEFINE order == [action |-> a, dry |-> dry, by |-> u, conn |-> c, scoped |-> scoped,
                       prior |-> IF DryRunRequired(a) /\ ~dry THEN prior ELSE None]
  <2>1. PICK clock \in HumanClock : InsertTask(t, order, clock)
    BY <1>1 DEF CreateTask
  <2>2. status[t] = "absent" /\ Validated(a, dry, prior) /\ approval[t].status = "none"
    BY <1>1 DEF CreateTask, ApprovalInv, Authority
  <2>3. work'[t] = order /\ \A x \in Tasks : x # t => work'[x] = work[x]
    BY <1>0, <2>1 DEF InsertTask
  <2>4. \A x \in Tasks : x # t => status'[x] = status[x] /\ approval'[x] = approval[x]
    BY <1>0, <2>1 DEF InsertTask
  <2>5. \/ /\ ApprovalRequired(a) /\ status'[t] = "awaiting_approval"
           /\ approval'[t].status = "pending"
        \/ /\ ~ApprovalRequired(a) /\ status'[t] = "queued"
           /\ approval'[t].status = "none"
    BY <1>0, <2>1, <2>2 DEF InsertTask, Approval
  <2>6. Validated(work[t].action, work[t].dry, work[t].prior)'
    BY <2>2, <2>3, <2>4 DEF Validated
  <2>7. ASSUME NEW x \in Tasks, x # t, status[x] # "absent"
        PROVE  Validated(work[x].action, work[x].dry, work[x].prior)'
    BY <2>2, <2>3, <2>4, <2>7 DEF ApprovalInv, Authority, Validated
  <2>8. ApprovalMatchesTask'
    BY <2>3, <2>4, <2>5 DEF ApprovalInv, ApprovalMatchesTask
  <2>9. Authority'
    BY <2>3, <2>4, <2>5, <2>6, <2>7 DEF ApprovalInv, Authority, MayDecide
  <2> QED
    BY <2>8, <2>9 DEF ApprovalInv
<1>2. ASSUME NEW u \in Users, NEW t \in Tasks, NEW decision \in {"approved", "rejected"},
             DecideTask(u, t, decision)
      PROVE  ApprovalInv'
  <2>1. /\ status[t] = "awaiting_approval" /\ MayDecide(u, t) /\ UNCHANGED work
        /\ RecordDecision(u, t, decision)
    BY <1>2 DEF DecideTask
  <2>2. \A x \in Tasks : x # t => status'[x] = status[x] /\ approval'[x] = approval[x]
    BY <1>0, <2>1 DEF RecordDecision
  <2>3. approval'[t].status = decision /\ approval'[t].by = u
    BY <1>0, <2>1 DEF RecordDecision, Approval
  <2>4. status'[t] = IF decision = "approved" THEN "queued" ELSE "rejected"
    BY <1>0, <2>1 DEF RecordDecision
  <2>5. ASSUME NEW x \in Tasks
        PROVE  Validated(work[x].action, work[x].dry, work[x].prior) =>
                 Validated(work[x].action, work[x].dry, work[x].prior)'
    BY <2>1, <2>2 DEF Validated
  <2>6. ApprovalMatchesTask'
    BY <2>1, <2>2, <2>3, <2>4 DEF ApprovalInv, ApprovalMatchesTask, Authority
  <2>7. Authority'
    BY <2>1, <2>2, <2>3, <2>4, <2>5 DEF ApprovalInv, Authority, MayDecide
  <2> QED
    BY <2>6, <2>7 DEF ApprovalInv
<1>3. ASSUME NEW level \in SafetyLevel, UpdateSafety(level)
      PROVE  ApprovalInv'
  <2>1. \A t \in Tasks : status'[t] = IF t \in Stoppable(level) THEN "blocked" ELSE status[t]
    BY <1>3 DEF UpdateSafety, BlockTasks
  <2> QED
    BY <1>3, <2>1, ApprovalStutter DEF UpdateSafety, Stoppable
<1>4. ASSUME NEW r \in Requests, NEW t \in Tasks, LeaseTask(r, t)
      PROVE  ApprovalInv'
  <2>1. PICK clock \in ClockReadings(r) :
          /\ t \in Leasable(request[r].conn, clock)
          /\ HandOut(t, Requeued(request[r].conn, clock), StillCapable(r, t), clock)
    BY <1>4 DEF LeaseTask
  <2>2. \A x \in Tasks : \/ status'[x] = status[x]
                         \/ /\ status[x] \in {"queued", "running"}
                            /\ status'[x] \in {"queued", "running", "blocked"}
    BY <2>1 DEF HandOut, Leasable, Requeued, Expired
  <2> QED
    BY <1>4, <2>2, ApprovalStutter DEF LeaseTask
<1>5. ASSUME NEW r \in Requests, NEW t \in Tasks, NEW n \in 1 .. MaxLeases,
             RenewLease(r, t, n)
      PROVE  ApprovalInv'
  BY <1>5, ApprovalStutter DEF RenewLease
<1>6. ASSUME NEW r \in Requests, NEW t \in Tasks, NEW n \in 1 .. MaxLeases,
             NEW outcome \in {"succeeded", "failed"}, CompleteTask(r, t, n, outcome)
      PROVE  ApprovalInv'
  <2>1. status[t] = "running" /\ status' = [status EXCEPT ![t] = outcome]
    BY <1>6 DEF CompleteTask, HoldsLease, RecordResult
  <2> QED
    BY <1>0, <1>6, <2>1, ApprovalStutter DEF CompleteTask
<1>7. CASE \/ \E c \in Connectors, C \in SUBSET Actions : CreateConnector(c, C)
           \/ \E c \in Connectors : RevokeConnector(c)
           \/ \E r \in Requests, c \in Connectors : Authenticate(r, c)
           \/ \E r \in Requests : EndRequest(r)
           \/ \E r \in Requests, C \in SUBSET Actions, A \in SUBSET Actions :
                 Heartbeat(r, C, A)
           \/ Tick
           \/ UNCHANGED vars
  <2>1. UNCHANGED taskVars
    BY <1>7 DEF CreateConnector, RevokeConnector, Authenticate, EndRequest,
                Heartbeat, Tick, vars
  <2> QED
    BY <2>1, ApprovalStutter DEF taskVars
<1> QED
  BY <1>1, <1>2, <1>3, <1>4, <1>5, <1>6, <1>7 DEF Next, HumanRequest, ConnectorRequest

(* The approval row and the task row never disagree.                       *)
THEOREM ApprovalMatches == Spec => []ApprovalMatchesTask
<1>1. ApprovalInv => ApprovalMatchesTask
  BY DEF ApprovalInv
<1> QED
  BY <1>1, InitTypeOK, NextTypeOK, InitApproval, NextApproval, PTL DEF Spec

(* Critical work is leased only on the approval of a second human and on a *)
(* successful dry run.                                                     *)
THEOREM CriticalNeedsAuthority == Spec => []CriticalAuthority
<1>1. TypeOK /\ LeaseInv /\ ApprovalInv => CriticalAuthority
  <2> SUFFICES ASSUME TypeOK, LeaseInv, ApprovalInv,
                      NEW t \in Tasks, lease[t].issued > 0, DryRunRequired(work[t].action)
               PROVE  /\ approval[t].status = "approved"
                      /\ approval[t].by # work[t].by
                      /\ ~work[t].dry =>
                           \E p \in Tasks : /\ p = work[t].prior
                                            /\ work[p].action = work[t].action
                                            /\ work[p].dry
                                            /\ status[p] = "succeeded"
    BY DEF CriticalAuthority
  <2>1. status[t] \in TaskStatus /\ lease[t].issued # 0
    BY DEF TypeOK, Lease
  <2>2. status[t] \notin {"absent", "awaiting_approval", "rejected"}
    BY <2>1 DEF LeaseInv, Unleased
  <2>3. ApprovalRequired(work[t].action)
    BY DEF ApprovalRequired, DryRunRequired
  <2>4. approval[t].status = "approved"
    BY <2>1, <2>2, <2>3 DEF ApprovalInv, ApprovalMatchesTask, TaskStatus
  <2>5. approval[t].by # work[t].by
    BY <2>4 DEF ApprovalInv, Authority, MayDecide
  <2>6. Validated(work[t].action, work[t].dry, work[t].prior)
    BY <2>2 DEF ApprovalInv, Authority
  <2> QED
    BY <2>4, <2>5, <2>6 DEF Validated
<1> QED
  BY <1>1, InitTypeOK, NextTypeOK, InitLease, NextLease, InitApproval, NextApproval,
     PTL DEF Spec

----------------------------------------------------------------------------
(* Capabilities                                                            *)

(* A connector row, every copy of it a request works from, and every lease *)
(* stay within what a human provisioned; and a connector with requests or  *)
(* leases exists, so it is never provisioned again.                        *)
ProvisionInv ==
    /\ \A c \in Connectors : caps[c] \subseteq provided[c]
    /\ \A r \in Requests : request[r] # Idle =>
          /\ request[r].conn \in Connectors
          /\ presence[request[r].conn] # "absent"
          /\ request[r].caps \subseteq provided[request[r].conn]
    /\ \A t \in Tasks : lease[t].issued > 0 =>
          /\ work[t].conn \in Connectors
          /\ presence[work[t].conn] # "absent"
          /\ work[t].action \in provided[work[t].conn]

(* There are no connectors at first.                                       *)
LEMMA InitProvision == Init => ProvisionInv
  BY DEF Init, ProvisionInv, NoLease

(* Steps that leave orders, leases and connectors alone, and only end      *)
(* requests.                                                               *)
LEMMA ProvisionStutter ==
    ASSUME ProvisionInv, UNCHANGED <<work, provided, caps, presence>>,
           \A t \in Tasks : lease'[t].issued = lease[t].issued,
           \A r \in Requests : request'[r] \in {request[r], Idle}
    PROVE  ProvisionInv'
  BY DEF ProvisionInv

(* Every step keeps the invariant of the capabilities.                     *)
LEMMA NextProvision == TypeOK /\ LeaseInv /\ ProvisionInv /\ [Next]_vars => ProvisionInv'
<1> SUFFICES ASSUME TypeOK, LeaseInv, ProvisionInv, [Next]_vars PROVE ProvisionInv'
  OBVIOUS
<1>0. /\ work \in [Tasks -> WorkOrder] /\ lease \in [Tasks -> Lease]
      /\ caps \in [Connectors -> SUBSET Actions] /\ provided \in [Connectors -> SUBSET Actions]
      /\ presence \in [Connectors -> Presence] /\ request \in [Requests -> Inflight]
  BY DEF TypeOK
<1>1. ASSUME NEW c \in Connectors, NEW C \in SUBSET Actions, CreateConnector(c, C)
      PROVE  ProvisionInv'
  <2>1. /\ presence[c] = "absent" /\ presence' = [presence EXCEPT ![c] = "offline"]
        /\ caps' = [caps EXCEPT ![c] = C] /\ provided' = [provided EXCEPT ![c] = C]
        /\ UNCHANGED <<work, lease, request>>
    BY <1>1 DEF CreateConnector, taskVars
  <2> QED
    BY <1>0, <2>1 DEF ProvisionInv
<1>2. ASSUME NEW c \in Connectors, RevokeConnector(c)
      PROVE  ProvisionInv'
  <2>1. /\ presence' = [presence EXCEPT ![c] = "revoked"]
        /\ UNCHANGED <<work, lease, request, caps, provided>>
    BY <1>2 DEF RevokeConnector, taskVars
  <2> QED
    BY <1>0, <2>1 DEF ProvisionInv
<1>3. ASSUME NEW u \in Users, NEW t \in Tasks, NEW a \in Actions, NEW dry \in BOOLEAN,
             NEW c \in Connectors \cup {None}, NEW scoped \in BOOLEAN,
             NEW prior \in Tasks \cup {None}, CreateTask(u, t, a, dry, c, scoped, prior)
      PROVE  ProvisionInv'
  <2>1. lease[t].issued = 0
    BY <1>3 DEF CreateTask, LeaseInv, Unleased
  <2>2. \A x \in Tasks : x # t => work'[x] = work[x]
    BY <1>0, <1>3 DEF CreateTask, InsertTask
  <2>3. UNCHANGED <<lease, caps, provided, presence, request>>
    BY <1>3 DEF CreateTask, connVars
  <2> QED
    BY <1>0, <2>1, <2>2, <2>3 DEF ProvisionInv
<1>4. ASSUME NEW r \in Requests, NEW c \in Connectors, Authenticate(r, c)
      PROVE  ProvisionInv'
  <2>1. /\ presence[c] # "absent" /\ UNCHANGED <<work, lease, caps, provided, presence>>
        /\ request' = [request EXCEPT ![r] = [conn |-> c, at |-> now, caps |-> caps[c],
                                              presence |-> presence[c]]]
    BY <1>4 DEF Authenticate, taskVars, connVars
  <2> QED
    BY <1>0, <2>1 DEF ProvisionInv
<1>5. ASSUME NEW r \in Requests, NEW C \in SUBSET Actions, NEW A \in SUBSET Actions,
             Heartbeat(r, C, A)
      PROVE  ProvisionInv'
  <2> DEFINE conn == request[r].conn
  <2>1. /\ request[r] # Idle /\ UNCHANGED <<work, lease, provided>>
        /\ request' = [request EXCEPT ![r] = Idle]
    BY <1>5 DEF Heartbeat, taskVars
  <2>2. conn \in Connectors /\ presence[conn] # "absent" /\ request[r].caps \subseteq provided[conn]
    BY <2>1 DEF ProvisionInv
  <2>3. \A x \in Connectors : presence[x] # "absent" => presence'[x] # "absent"
    BY <1>0, <1>5, <2>2 DEF Heartbeat
  <2>4. \A x \in Connectors : caps'[x] = caps[x] \/ (x = conn /\ caps'[x] \subseteq request[r].caps)
    <3> DEFINE kept == IF C = {} THEN request[r].caps ELSE C \cap request[r].caps
    <3>1. kept \subseteq request[r].caps
      OBVIOUS
    <3>2. caps' = [caps EXCEPT ![conn] = kept] \/ caps' = caps
      BY <1>5 DEF Heartbeat
    <3> HIDE DEF kept, conn
    <3> QED
      BY <1>0, <2>2, <3>1, <3>2
  <2> HIDE DEF conn
  <2> QED
    BY <1>0, <2>1, <2>2, <2>3, <2>4 DEF ProvisionInv
<1>6. ASSUME NEW r \in Requests, NEW t \in Tasks, LeaseTask(r, t)
      PROVE  ProvisionInv'
  <2>1. PICK clock \in ClockReadings(r) :
          /\ t \in Leasable(request[r].conn, clock)
          /\ HandOut(t, Requeued(request[r].conn, clock), StillCapable(r, t), clock)
    BY <1>6 DEF LeaseTask
  <2>2. /\ request[r] # Idle /\ UNCHANGED <<work, caps, provided, presence>>
        /\ request' = [request EXCEPT ![r] = Idle]
    BY <1>6 DEF LeaseTask, connVars
  <2>3. work[t].conn = request[r].conn
    BY <2>1 DEF Leasable, Requeued
  <2>4. \A x \in Tasks : \/ lease'[x].issued = lease[x].issued
                         \/ x = t /\ StillCapable(r, t)
    <3>1. ASSUME NEW x \in Tasks, ~(x = t /\ StillCapable(r, t))
          PROVE  lease'[x] \in {lease[x], [lease[x] EXCEPT !.token = 0, !.until = 0]}
      BY <2>1, <3>1 DEF HandOut
    <3> QED
      BY <1>0, <3>1, LeaseCleared
  <2>5. StillCapable(r, t) => work[t].action \in request[r].caps
    BY DEF StillCapable
  <2> QED
    BY <1>0, <2>2, <2>3, <2>4, <2>5 DEF ProvisionInv
<1>7. ASSUME NEW level \in SafetyLevel, UpdateSafety(level)
      PROVE  ProvisionInv'
  <2>1. \A t \in Tasks : lease'[t].issued = lease[t].issued
    BY <1>0, <1>7 DEF UpdateSafety, BlockTasks, Lease
  <2> QED
    BY <1>7, <2>1, ProvisionStutter DEF UpdateSafety, connVars
<1>8. ASSUME NEW r \in Requests, NEW t \in Tasks, NEW n \in 1 .. MaxLeases,
             NEW outcome \in {"succeeded", "failed"},
             RenewLease(r, t, n) \/ CompleteTask(r, t, n, outcome)
      PROVE  ProvisionInv'
  <2>1. \A x \in Tasks : lease'[x].issued = lease[x].issued
    <3>1. CASE RenewLease(r, t, n)
      <4>1. PICK v : lease' = [lease EXCEPT ![t].until = v]
        BY <3>1 DEF RenewLease
      <4> QED
        BY <1>0, <4>1 DEF Lease
    <3>2. CASE CompleteTask(r, t, n, outcome)
      BY <1>0, <3>2 DEF CompleteTask, RecordResult, Lease
    <3> QED
      BY <1>8, <3>1, <3>2
  <2>2. \A q \in Requests : request'[q] \in {request[q], Idle}
    BY <1>0, <1>8 DEF RenewLease, CompleteTask
  <2> QED
    BY <1>8, <2>1, <2>2, ProvisionStutter DEF RenewLease, CompleteTask, connVars
<1>9. CASE \/ \E u \in Users, t \in Tasks, decision \in {"approved", "rejected"} :
                 DecideTask(u, t, decision)
           \/ \E r \in Requests : EndRequest(r)
           \/ Tick
           \/ UNCHANGED vars
  <2>1. UNCHANGED <<work, lease, caps, provided, presence>>
    BY <1>9 DEF DecideTask, EndRequest, Tick, vars, taskVars, connVars
  <2>2. \A q \in Requests : request'[q] \in {request[q], Idle}
    BY <1>0, <1>9 DEF DecideTask, EndRequest, Tick, vars
  <2> QED
    BY <2>1, <2>2, ProvisionStutter
<1>10. "failed" \in {"succeeded", "failed"}
  OBVIOUS
<1> QED
  BY <1>1, <1>2, <1>3, <1>4, <1>5, <1>6, <1>7, <1>8, <1>9, <1>10
     DEF Next, HumanRequest, ConnectorRequest

(* No heartbeat and no race of heartbeats with leases ever gives a         *)
(* connector work outside the capabilities a human provisioned for it.     *)
THEOREM LeasesWithinProvision == Spec => []LeasedWithinProvision
<1>1. TypeOK /\ ProvisionInv => LeasedWithinProvision
  BY DEF ProvisionInv, LeasedWithinProvision
<1> QED
  BY <1>1, InitTypeOK, NextTypeOK, InitLease, NextLease, InitProvision, NextProvision,
     PTL DEF Spec

============================================================================
