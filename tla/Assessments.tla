----------------------------- MODULE Assessments -----------------------------
(***************************************************************************)
(* One engagement of a workspace, its assessment runs, and the task that   *)
(* carries each run to a connector.                                        *)
(*                                                                         *)
(* A run and its task are two rows that different requests write: launch   *)
(* inserts both, and the decision, lease and completion requests carry     *)
(* what happened to the task over to the run and to the engagement.  A     *)
(* change of safety level and the requeueing of an expired lease move the  *)
(* task alone.  Launch locks the engagement row and then the organization  *)
(* row (the audit chain); the others lock them in the opposite order, so   *)
(* two requests can wait for each other until the database rolls one of    *)
(* them back.                                                              *)
(*                                                                         *)
(* A change of safety level is one step; the interleavings of its          *)
(* statements are TaskTransactions'.  Findings are left out.               *)
(***************************************************************************)
EXTENDS Integers, Sequences, FiniteSets

CONSTANTS Procs,         \* requests that can be in flight at once
          Targets,       \* bound: the target lists an engagement is created with
          Lifetimes,     \* bound: authorization lifetimes asked for; None is open-ended
          LeaseTime,     \* settings.lease_seconds
          MaxRuns,       \* bound: runs of the engagement
          MaxTime,       \* bound: the clock stops here
          None

Engagement ==
    [status : {"ready", "scheduled", "running", "review", "attention"}, expires : Nat \cup {None}]

AssessmentAssumption ==
    /\ LeaseTime \in Nat \ {0}
    /\ MaxRuns \in Nat \ {0}
    /\ MaxTime \in Nat
    /\ Lifetimes \subseteq Nat \cup {None}
    /\ None \notin Procs \cup Engagement

VARIABLES now,         \* utcnow(), the same for every process
          engagement,  \* the engagements row, None before it is created
          runs,        \* assessment_runs of the engagement in insertion order
          tasks,       \* the task of each run
          open,        \* safety_level is normal or elevated
          lock,        \* which request holds the organization row, and the engagement row
          txn          \* the request each process is serving

rows == <<engagement, runs, tasks>>
vars == <<now, rows, open, lock, txn>>

Idle == [op |-> "none", pc |-> "idle", fresh |-> TRUE, admit |-> FALSE, run |-> 0, rows |-> {}, outcome |-> "none"]

Init ==
    /\ now = 0
    /\ engagement = None
    /\ runs = <<>>
    /\ tasks = <<>>
    /\ open = TRUE
    /\ lock = [org |-> None, engagement |-> None]
    /\ txn = [p \in Procs |-> Idle]

Free(row) == lock[row] = None

(* append_audit advances the chain: the copy of the organization row that  *)
(* a request in flight has loaded is out of date from then on.  Only a     *)
(* completion loads the row for its audit event and no earlier.            *)
Audited(t) ==
    [p \in Procs |-> IF t[p].op \in {"launch", "decide", "lease"} THEN [t[p] EXCEPT !.fresh = FALSE] ELSE t[p]]

Tick ==
    /\ now < MaxTime
    /\ now' = now + 1
    /\ UNCHANGED <<rows, open, lock, txn>>

---------------------------------------------------------------------------
(* normalize_target: a website or API needs a full http or https URL with  *)
(* no credentials in it; a repository given as a URL needs https or ssh    *)
(* and no password; any other target only has to be non-empty.             *)
Accepted(t) ==
    CASE t.kind \in {"website", "api"} ->
            t.scheme \in {"http", "https"} /\ t.host /\ ~t.user /\ ~t.password
      [] t.kind = "repository" /\ t.scheme # "none" ->
            t.scheme \in {"https", "ssh"} /\ t.host /\ ~t.password
      [] OTHER -> TRUE

(* create_engagement: an expiry must lie in the future, every target must  *)
(* normalize, and one refused target refuses the engagement.               *)
CreateEngagement(targets, lifetime) ==
    /\ engagement = None
    /\ Free("org")
    /\ lifetime # None => lifetime > 0
    /\ \A t \in targets : Accepted(t)
    /\ engagement' = [status |-> "ready",
                      expires |-> IF lifetime = None THEN None ELSE now + lifetime]
    /\ txn' = Audited(txn)
    /\ UNCHANGED <<now, runs, tasks, open, lock>>

Authorized == engagement.expires # None => engagement.expires > now

(* Launch, first statement: resolve_context loads the organization row;    *)
(* its safety level and audit position are this request's copy from now on. *)
LaunchBegin(p) ==
    /\ txn[p] = Idle
    /\ engagement # None
    /\ txn' = [txn EXCEPT ![p] = [Idle EXCEPT !.op = "launch", !.pc = "loaded", !.admit = open]]
    /\ UNCHANGED <<now, rows, open, lock>>

(* The engagement row is locked, the authorization tested against the      *)
(* clock, the baseline, if one was asked for, looked up and the run        *)
(* numbered.                                                               *)
LaunchLock(p) ==
    /\ txn[p].op = "launch" /\ txn[p].pc = "loaded"
    /\ Free("engagement")
    /\ Authorized
    /\ Len(runs) < MaxRuns
    /\ lock' = [lock EXCEPT !.engagement = p]
    /\ txn' = [txn EXCEPT ![p].pc = "locked", ![p].run = Len(runs) + 1]
    /\ UNCHANGED <<now, rows, open>>

(* Inserting the run and the task waits for the organization row.          *)
LaunchInsert(p) ==
    /\ txn[p].op = "launch" /\ txn[p].pc = "locked"
    /\ txn[p].admit
    /\ Free("org")
    /\ lock' = [lock EXCEPT !.org = p]
    /\ txn' = [txn EXCEPT ![p].pc = "inserted"]
    /\ UNCHANGED <<now, rows, open>>

(* Slip: the session is left open.                                         *)
ReleaseNone(p) == lock

ReleaseAll(p) == [r \in DOMAIN lock |-> IF lock[r] = p THEN None ELSE lock[r]]

(* UNIQUE (organization_id, sequence): a request that numbered its audit   *)
(* event from an old copy of the organization is refused.                  *)
SequenceUnused(p) == txn[p].fresh

Collide(p) ==
    /\ txn[p].pc = "inserted" /\ ~SequenceUnused(p)
    /\ lock' = ReleaseAll(p)
    /\ txn' = [txn EXCEPT ![p] = Idle]
    /\ UNCHANGED <<now, rows, open>>

LaunchCommit(p) ==
    /\ txn[p].op = "launch" /\ txn[p].pc = "inserted"
    /\ SequenceUnused(p)
    /\ runs' = Append(runs, [number |-> txn[p].run, status |-> "awaiting_approval"])
    /\ tasks' = Append(tasks, [status |-> "awaiting_approval", until |-> 0])
    /\ engagement' = [engagement EXCEPT !.status = "scheduled"]
    /\ lock' = ReleaseAll(p)
    /\ txn' = Audited([txn EXCEPT ![p] = Idle])
    /\ UNCHANGED <<now, open>>

(* Every refusal of a launch ends its transaction without a trace.  Once   *)
(* the engagement is locked that may be an authorization that has expired, *)
(* a baseline that is no run of this engagement, or no connector to do it. *)
LaunchRefused(p) ==
    /\ txn[p].op = "launch"
    /\ \/ txn[p].pc = "loaded" /\ Free("engagement")
       \/ txn[p].pc = "locked" /\ ~txn[p].admit
    /\ lock' = ReleaseAll(p)
    /\ txn' = [txn EXCEPT ![p] = Idle]
    /\ UNCHANGED <<now, rows, open>>
---------------------------------------------------------------------------
(* Each of the other requests locks the row of its task, tests it, locks   *)
(* the organization to append its audit event, and writes the outcome into *)
(* the run and the engagement when the transaction is flushed to commit.   *)
RowFree(k) == \A p \in Procs : k \notin txn[p].rows

Begin(p, op, k, locked, outcome) ==
    /\ txn[p] = Idle
    /\ txn' = [txn EXCEPT ![p] = [Idle EXCEPT !.op = op, !.pc = "loaded", !.run = k,
                                             !.rows = locked, !.outcome = outcome]]
    /\ UNCHANGED <<now, rows, open, lock>>

(* decide_task: a person approves or rejects.                              *)
DecideBegin(p, k) ==
    /\ RowFree(k)
    /\ tasks[k].status = "awaiting_approval"
    /\ \E outcome \in {"queued", "rejected"} : Begin(p, "decide", k, {k}, outcome)

(* lease_task: the sweep returns expired leases to the queue, and waits    *)
(* for their rows; the oldest queued row nobody has locked is taken.  It   *)
(* is blocked instead if the connector has lost the capability.  The       *)
(* recorded authorization is not looked at again.                          *)
Lapsed(k) == tasks[k].status = "running" /\ tasks[k].until < now

LeaseBegin(p) ==
    LET expired == {k \in DOMAIN tasks : Lapsed(k)}
        queued == {k \in DOMAIN tasks : RowFree(k) /\ (k \in expired \/ tasks[k].status = "queued")}
    IN  /\ open
        /\ \A k \in expired : RowFree(k)
        /\ \E k \in queued, outcome \in {"running", "blocked"} :
            /\ \A j \in queued : k <= j
            /\ Begin(p, "lease", k, expired \cup {k}, outcome)

(* complete_task: the lease has not run out.  The outcome in the request   *)
(* is chosen where it is first written.                                    *)
CompleteBegin(p, k) ==
    /\ RowFree(k)
    /\ tasks[k].status = "running" /\ tasks[k].until >= now
    /\ Begin(p, "complete", k, {k}, "none")

Audit(p) ==
    /\ txn[p].op \in {"decide", "lease", "complete"} /\ txn[p].pc = "loaded"
    /\ Free("org")
    /\ lock' = [lock EXCEPT !.org = p]
    /\ txn' = [txn EXCEPT ![p].pc = "inserted"]
    /\ UNCHANGED <<now, rows, open>>

(* Slip: an approval moves the task and not the run.                       *)
RunStatusUnapproved(k, outcome) ==
    CASE outcome = "succeeded" -> "completed"
      [] outcome \in {"blocked", "queued"} -> runs[k].status
      [] OTHER -> outcome

(* The status a run takes when its task takes the given one.               *)
RunStatus(k, outcome) ==
    CASE outcome = "succeeded" -> "completed"
      [] outcome = "blocked" -> runs[k].status
      [] OTHER -> outcome

(* Slip: a failed run leaves the engagement as it was.                     *)
EngagementStatusFailedIgnored(outcome) ==
    CASE outcome = "running" -> "running"
      [] outcome = "succeeded" -> "review"
      [] outcome = "rejected" -> "attention"
      [] OTHER -> engagement.status

(* What the engagement asks for then, whatever other run it has.           *)
EngagementStatus(outcome) ==
    CASE outcome = "running" -> "running"
      [] outcome = "succeeded" -> "review"
      [] outcome \in {"failed", "rejected"} -> "attention"
      [] OTHER -> engagement.status

Outcomes(p) == IF txn[p].op = "complete" THEN {"succeeded", "failed"} ELSE {txn[p].outcome}

Lease(until) == [status |-> "running", until |-> until]
Settled(status) == [status |-> status, until |-> 0]

(* task_decision, task_lease and sync_assessment_result.                   *)
Commit(p, outcome) ==
    LET k == txn[p].run
    IN  /\ txn[p].op \in {"decide", "lease", "complete"} /\ txn[p].pc = "inserted" /\ SequenceUnused(p)
        /\ EngagementStatus(outcome) # engagement.status => Free("engagement")
        /\ tasks' = [j \in DOMAIN tasks |->
                        IF j = k THEN IF outcome = "running" THEN Lease(now + LeaseTime) ELSE Settled(outcome)
                        ELSE IF j \in txn[p].rows THEN Settled("queued") ELSE tasks[j]]
        /\ runs' = [runs EXCEPT ![k].status = RunStatus(k, outcome)]
        /\ engagement' = [engagement EXCEPT !.status = EngagementStatus(outcome)]
        /\ lock' = ReleaseAll(p)
        /\ txn' = Audited([txn EXCEPT ![p] = Idle])
        /\ UNCHANGED <<now, open>>

(* The database: of two requests that wait for each other one is rolled    *)
(* back, and its client answered with an error.                            *)
WaitsFor(p) ==
    IF txn[p].op = "launch" /\ txn[p].pc = "locked" THEN lock.org
    ELSE IF txn[p].op # "launch" /\ txn[p].pc = "inserted" THEN lock.engagement
    ELSE None

Deadlocked(p) == WaitsFor(p) \in Procs /\ WaitsFor(WaitsFor(p)) = p

RollBack(p) ==
    /\ Deadlocked(p)
    /\ lock' = ReleaseAll(p)
    /\ txn' = [txn EXCEPT ![p] = Idle]
    /\ UNCHANGED <<now, rows, open>>
---------------------------------------------------------------------------
(* update_safety: halting or restricting blocks the queued and running     *)
(* tasks; the runs and the engagement are left as they are.                *)
ChangeSafety(level) ==
    /\ Free("org")
    /\ \A j \in DOMAIN tasks : RowFree(j)
    /\ open' = level
    /\ tasks' = [j \in DOMAIN tasks |->
                    IF ~level /\ tasks[j].status \in {"queued", "running"} THEN Settled("blocked") ELSE tasks[j]]
    /\ txn' = Audited(txn)
    /\ UNCHANGED <<now, engagement, runs, lock>>

---------------------------------------------------------------------------
Serve(p) ==
    \/ LaunchLock(p) \/ LaunchInsert(p) \/ LaunchCommit(p) \/ LaunchRefused(p)
    \/ Audit(p)
    \/ \E outcome \in Outcomes(p) : Commit(p, outcome)
    \/ Collide(p)
    \/ RollBack(p)

Arrive ==
    \/ \E targets \in Targets, lifetime \in Lifetimes : CreateEngagement(targets, lifetime)
    \/ \E p \in Procs :
        \/ LaunchBegin(p) \/ LeaseBegin(p)
        \/ \E k \in DOMAIN tasks : DecideBegin(p, k) \/ CompleteBegin(p, k)
    \/ \E level \in BOOLEAN : ChangeSafety(level)

Next == Tick \/ Arrive \/ \E p \in Procs : Serve(p)

(* A request that was received is served.  Strong fairness, because the    *)
(* database queues the transactions that wait for a row: a request that    *)
(* can proceed again and again is not overtaken for ever.                  *)
Spec == Init /\ [][Next]_vars /\ \A p \in Procs : SF_vars(Serve(p))
---------------------------------------------------------------------------
TypeOK ==
    /\ now \in 0 .. MaxTime
    /\ engagement \in Engagement \cup {None}
    /\ \A k \in DOMAIN runs : runs[k].status \in {"awaiting_approval", "queued", "running", "rejected",
                                                 "completed", "failed"}
    /\ \A k \in DOMAIN tasks : tasks[k].status \in {"awaiting_approval", "queued", "running", "rejected",
                                                   "blocked", "succeeded", "failed"}
    /\ lock \in [{"org", "engagement"} -> Procs \cup {None}]

(* Runs are numbered 1, 2, ... without gap or repetition, each has the     *)
(* task it was inserted with, and the run follows its task: only a lease   *)
(* that ran out and a safety stop leave the run behind, and neither is     *)
(* ever taken for an answer.  A request rolled back half way, or two at    *)
(* once, never move one of the two rows only (launch_engagement,           *)
(* task_decision, task_lease, sync_assessment_result).                     *)
RunMatchesTask ==
    /\ DOMAIN runs = DOMAIN tasks
    /\ \A k \in DOMAIN runs :
        /\ runs[k].number = k
        /\ runs[k].status \in
               CASE tasks[k].status \in {"queued", "blocked"} -> {"queued", "running"}
                 [] tasks[k].status = "succeeded" -> {"completed"}
                 [] OTHER -> {tasks[k].status}

(* What the engagement says of itself is earned by one of its runs:        *)
(* "scheduled" means the newest run is still to come, "running" that one   *)
(* was started and has no outcome, "review" that a run completed,          *)
(* "attention" that one failed or was rejected, although five requests     *)
(* write the status in any order (launch_engagement, task_decision,        *)
(* task_lease, sync_assessment_result).                                    *)
StatusEarned ==
    LET Some(statuses) == \E k \in DOMAIN runs : runs[k].status \in statuses
    IN  engagement # None =>
            CASE engagement.status = "ready" -> runs = <<>>
              [] engagement.status = "scheduled" ->
                    runs # <<>> /\ runs[Len(runs)].status \in {"awaiting_approval", "queued"}
              [] engagement.status = "running" -> Some({"running"})
              [] engagement.status = "review" -> Some({"completed"})
              [] engagement.status = "attention" -> Some({"failed", "rejected"})

(* Every launch, decision, lease and completion is answered: although they *)
(* lock the engagement and the organization in opposite orders, none waits *)
(* forever (launch_engagement, task_complete, get_session).                *)
RequestsEnd == \A p \in Procs : txn[p].pc # "idle" ~> txn[p].pc = "idle"
=============================================================================
