---------------------------- MODULE ConnectorWorker ----------------------------
(***************************************************************************)
(* The worker of a customer-edge connector, the calls it makes and what    *)
(* Mission Control does with them.  Each call can fail before the server   *)
(* has seen it, and its answer can be lost after the server has acted.     *)
(* Nothing tells a worker that its lease has run out: it learns it from    *)
(* the next call.  Two workers can share one connector token.              *)
(*                                                                         *)
(* Time is a countdown on each lease and each piece of work.  It passes    *)
(* while workers execute, sleep or wait for a call that is lost; a call    *)
(* that is answered takes none.  What the server checks before it queues   *)
(* and leases work is TaskControl.                                         *)
(***************************************************************************)
EXTENDS Integers, FiniteSets, FiniteSetsExt

CONSTANTS Tasks,       \* tasks queued for the connector
          Action,      \* Action[t]: "assessment.execute", "evidence.analyze" or "gate.run"
          Scopes,      \* the target kinds an assessment may be launched with, one target of each
          SevenTeams,  \* whether the engagement selected all seven teams
          Duration,    \* Duration[t]: ticks the work takes when nothing slows it
          LeaseTicks,  \* settings.lease_seconds
          RenewTicks,  \* the 30 seconds between two renewals of run_gate
          CallTicks,   \* request_timeout_seconds: how long a lost call takes
          MaxFaults,   \* bound: calls lost, executions slower than a lease, workers killed
          Workers,
          None

WorkerAssumption ==
    /\ Action \in [Tasks -> {"assessment.execute", "evidence.analyze", "gate.run"}]
    /\ \A kinds \in Scopes : kinds # {} /\ IsFiniteSet(kinds)
    /\ SevenTeams \in BOOLEAN
    /\ Duration \in [Tasks -> Nat]
    /\ LeaseTicks \in Nat /\ RenewTicks \in Nat \ {0} /\ CallTicks \in Nat
    /\ MaxFaults \in Nat /\ None \notin Nat

VARIABLES scope,     \* the target kinds in the payload of every assessment task
          task,      \* tasks rows: status, the number of the lease, and what is left of it
          worker,    \* what each worker is at, with which task, and (history) for how many
                     \* ticks it has run a gate since its lease was last in force
          faults,    \* how many calls and workers have failed
          orphans,   \* processes of each gate whose worker was killed
          accepted   \* history: how often a result was accepted for a task

vars == <<scope, task, worker, faults, orphans, accepted>>

Fresh == [pc |-> "rest", task |-> None, lease |-> 0, left |-> 0, renew |-> 0, stray |-> 0, result |-> None]

Init ==
    /\ scope \in Scopes
    /\ task = [t \in Tasks |-> [status |-> "queued", lease |-> 0, ticks |-> 0, result |-> None]]
    /\ worker = [w \in Workers |-> Fresh]
    /\ faults = 0
    /\ orphans = [t \in Tasks |-> 0]
    /\ accepted = [t \in Tasks |-> 0]

At(w, pc) == worker[w].pc = pc
RunsGate(w) == (At(w, "execute") \/ At(w, "hang")) /\ Action[worker[w].task] = "gate.run"

(* A call that fails, on either side of the server.                        *)
Fault == faults < MaxFaults /\ faults' = faults + 1
---------------------------------------------------------------------------
(* What inspect_http_target makes of a website or API: plain http, missing *)
(* headers, broad CORS and server errors are low to high findings, and a   *)
(* target that does not answer is failed with a high one.                  *)
WebsiteInspections ==
    {[status |-> "completed", found |-> f] : f \in {"none", "low", "medium", "high"}}
        \cup {[status |-> "failed", found |-> "high"]}

(* inspect_repository: missing policies, tests, locks and CI are low or    *)
(* high, tracked key files and secrets in the text are critical.           *)
RepositoryInspections == {[status |-> "completed", found |-> f] : f \in {"none", "low", "high", "critical"}}

(* Slip: a target without an analyzer is only reported as blocked.         *)
InspectionsSilent(kind) ==
    CASE kind \in {"website", "api"} -> WebsiteInspections
      [] kind = "repository" -> RepositoryInspections
      [] OTHER -> {[status |-> "blocked", found |-> "none"]}

(* A target without an analyzer is blocked with a medium finding.          *)
Inspections(kind) ==
    CASE kind \in {"website", "api"} -> WebsiteInspections
      [] kind = "repository" -> RepositoryInspections
      [] OTHER -> {[status |-> "blocked", found |-> "medium"]}

(* _execute_assessment: the score is 100 less a cost per finding, never    *)
(* negative, and the assessment is complete if every target is.  The       *)
(* findings of an inspection are told by the worst of them.  Every         *)
(* inspection that completes reports the seven teams, so reports counts    *)
(* how often each team appears in teamResults.                             *)
Assessed(inspected) ==
    LET number(severity) == Cardinality({k \in scope : inspected[k].found = severity})
        cost == 35 * number("critical") + 15 * number("high") + 7 * number("medium") + 2 * number("low")
        completed == {k \in scope : inspected[k].status = "completed"}
    IN  [status |-> IF completed = scope THEN "succeeded" ELSE "failed",
         score |-> IF cost > 100 THEN 0 ELSE 100 - cost,
         reports |-> Cardinality(completed)]

Failed == [status |-> "failed", score |-> None, reports |-> 0]

(* What execute can return for a task; an exception in it is a failure.    *)
Results(t) ==
    IF Action[t] = "assessment.execute"
    THEN {Assessed(i) : i \in {i \in [scope -> UNION {Inspections(k) : k \in scope}] :
                                   \A k \in scope : i[k] \in Inspections(k)}} \cup {Failed}
    ELSE {[Failed EXCEPT !.status = "succeeded"], Failed}

(* _validated_completion_result.  What a worker reports as failed passes,  *)
(* it always has an error and the receipt of its grant; what it reports as *)
(* succeeded must name each team of the plan exactly once.  The worker's   *)
(* receipts, digests, sizes and return codes are always the ones expected. *)
Validated(t, result) ==
    result.status = "succeeded" /\ Action[t] = "assessment.execute" => SevenTeams /\ result.reports = 1
---------------------------------------------------------------------------
(* Slip: an expired lease is left to its holder.                           *)
RequeuedNever == task

(* The sweep at the start of lease_task.                                   *)
Requeued ==
    [t \in Tasks |-> IF task[t].status = "running" /\ task[t].ticks = 0
                     THEN [task[t] EXCEPT !.status = "queued"] ELSE task[t]]

(* A new lease token: the smallest number that no worker holds.            *)
Token(t) ==
    Min({n \in 1 .. (Cardinality(Workers) + 1) : \A w \in Workers : worker[w].task = t => worker[w].lease # n})

HandOut(t) == [Requeued EXCEPT ![t].status = "running", ![t].lease = Token(t), ![t].ticks = LeaseTicks]

(* run_once: a heartbeat, then a lease.                                    *)
Lease(w) ==
    /\ At(w, "rest")
    /\ \E t \in Tasks :
        /\ Requeued[t].status = "queued"
        /\ task' = HandOut(t)
        /\ worker' = [worker EXCEPT ![w] = [pc |-> "execute", task |-> t, lease |-> Token(t),
                                            left |-> Duration[t], renew |-> RenewTicks, stray |-> 0,
                                            result |-> None]]
    /\ UNCHANGED <<faults, orphans, accepted>>

(* serve_forever sleeps when there is no task and after an error, for a    *)
(* tick or more.                                                           *)
Sleep(w) == worker' = [worker EXCEPT ![w] = [Fresh EXCEPT !.pc = "sleep", !.left = 1]]

NoTask(w) ==
    /\ At(w, "rest")
    /\ \A t \in Tasks : Requeued[t].status # "queued"
    /\ task' = Requeued
    /\ Sleep(w)
    /\ UNCHANGED <<faults, orphans, accepted>>

Wake(w) ==
    /\ At(w, "sleep") /\ worker[w].left = 0
    /\ worker' = [worker EXCEPT ![w] = Fresh]
    /\ UNCHANGED <<task, faults, orphans, accepted>>

(* The answer of lease is lost: the task runs at nobody.                   *)
LeaseLost(w) ==
    /\ At(w, "rest")
    /\ Fault
    /\ \E t \in Tasks : Requeued[t].status = "queued" /\ task' = HandOut(t)
    /\ Sleep(w)
    /\ UNCHANGED <<orphans, accepted>>

(* renew_task_lease and complete_task: a running task, the token of its    *)
(* latest lease, and time left.                                            *)
Holds(t, lease) == task[t].status = "running" /\ task[t].lease = lease /\ task[t].ticks > 0

(* Slip: a result for a finished task is taken for a repeated one.         *)
HoldsAny(t, lease) == task[t].status \in {"running", "finished"}

(* complete_task's test of the lease.                                      *)
MayComplete(t, lease) == Holds(t, lease)
---------------------------------------------------------------------------
(* run_gate renews the lease of its task every RenewTicks.                 *)
MustRenew(w) == At(w, "execute") /\ Action[worker[w].task] = "gate.run" /\ worker[w].renew = 0 /\ worker[w].left > 0

Renew(w) ==
    LET t == worker[w].task
    IN  /\ MustRenew(w)
        /\ Holds(t, worker[w].lease)
        /\ task' = [task EXCEPT ![t].ticks = LeaseTicks]
        /\ worker' = [worker EXCEPT ![w].renew = RenewTicks, ![w].stray = 0]
        /\ UNCHANGED <<faults, orphans, accepted>>

(* Slip: a renewal that fails is tried again later.                        *)
GiveUpLater(w) == worker' = [worker EXCEPT ![w].pc = "execute", ![w].renew = RenewTicks]

(* The process is killed, and the exception becomes a failed result.       *)
GiveUp(w) == worker' = [worker EXCEPT ![w].pc = "complete", ![w].result = Failed]

RenewRefused(w) ==
    /\ MustRenew(w)
    /\ ~Holds(worker[w].task, worker[w].lease)
    /\ GiveUp(w)
    /\ UNCHANGED <<task, faults, orphans, accepted>>

(* The call or its answer is lost: the lease may have been renewed.        *)
RenewLost(w) ==
    LET t == worker[w].task
    IN  /\ MustRenew(w)
        /\ Fault
        /\ task' \in {task, IF Holds(t, worker[w].lease) THEN [task EXCEPT ![t].ticks = LeaseTicks] ELSE task}
        /\ worker' = [worker EXCEPT ![w].pc = "hang", ![w].renew = CallTicks]
        /\ UNCHANGED <<orphans, accepted>>

RenewTimesOut(w) ==
    /\ At(w, "hang") /\ worker[w].renew = 0
    /\ GiveUp(w)
    /\ UNCHANGED <<task, faults, orphans, accepted>>

(* execute returns.  evidence.analyze downloads with the lease first, and  *)
(* a refused download is a failure.                                        *)
Finish(w) ==
    LET t == worker[w].task
    IN  /\ At(w, "execute") /\ worker[w].left = 0
        /\ \E result \in Results(t) :
            /\ Action[t] = "evidence.analyze" /\ ~Holds(t, worker[w].lease) => result = Failed
            /\ worker' = [worker EXCEPT ![w].pc = "complete", ![w].result = result]
        /\ UNCHANGED <<task, faults, orphans, accepted>>

(* complete_task: the lease, and then the result; a refusal of either      *)
(* leaves the task running.                                                *)
Accepts(w) == LET t == worker[w].task IN MayComplete(t, worker[w].lease) /\ Validated(t, worker[w].result)

Record(w) ==
    LET t == worker[w].task
    IN  IF Accepts(w)
        THEN /\ task' = [task EXCEPT ![t].status = "finished", ![t].ticks = 0, ![t].result = worker[w].result]
             /\ accepted' = [accepted EXCEPT ![t] = @ + 1]
        ELSE UNCHANGED <<task, accepted>>

(* complete, and whatever comes of it the active task is cleared and the   *)
(* worker is online again; a refusal is an error that is slept off.        *)
Complete(w) ==
    /\ At(w, "complete")
    /\ Record(w)
    /\ IF Accepts(w)
       THEN worker' = [worker EXCEPT ![w] = Fresh] ELSE Sleep(w)
    /\ UNCHANGED <<faults, orphans>>

(* The call is lost, or its answer is; the result is not sent again.       *)
CompleteLost(w) ==
    /\ At(w, "complete")
    /\ Fault
    /\ Record(w) \/ UNCHANGED <<task, accepted>>
    /\ Sleep(w)
    /\ UNCHANGED orphans

(* The work takes longer than its lease: nothing bounds how long fifty     *)
(* targets take to answer, and only gates renew.                           *)
Slow(w) ==
    /\ At(w, "execute")
    /\ Fault
    /\ worker' = [worker EXCEPT ![w].left = @ + LeaseTicks]
    /\ UNCHANGED <<task, orphans, accepted>>

(* A worker is killed anywhere, and started again.  Only its own finally   *)
(* kills the process of a gate, so that one goes on without it.            *)
Kill(w) ==
    /\ Fault
    /\ worker' = [worker EXCEPT ![w] = Fresh]
    /\ orphans' = IF RunsGate(w) /\ worker[w].left > 0
                  THEN [orphans EXCEPT ![worker[w].task] = @ + 1] ELSE orphans
    /\ UNCHANGED <<task, accepted>>

OrphanEnds(t) ==
    /\ orphans[t] > 0
    /\ orphans' = [orphans EXCEPT ![t] = @ - 1]
    /\ UNCHANGED <<task, worker, faults, accepted>>
---------------------------------------------------------------------------
(* The server stops a task (update_safety, a safety level).                *)
Stop(t) ==
    /\ task[t].status \in {"queued", "running"}
    /\ task' = [task EXCEPT ![t].status = "blocked", ![t].ticks = 0]
    /\ UNCHANGED <<worker, faults, orphans, accepted>>

Down(n) == IF n = 0 THEN 0 ELSE n - 1

(* A tick passes while every worker executes, sleeps or hangs.             *)
Waiting(w) ==
    \/ At(w, "sleep")
    \/ At(w, "execute") /\ worker[w].left > 0 /\ ~MustRenew(w)
    \/ At(w, "hang") /\ worker[w].renew > 0

(* How long the worker has run its gate on without its lease.              *)
Strayed(w) ==
    IF RunsGate(w) /\ ~Holds(worker[w].task, worker[w].lease) THEN worker[w].stray + 1 ELSE 0

Tick ==
    /\ \A w \in Workers : Waiting(w)
    /\ task' = [t \in Tasks |-> [task[t] EXCEPT !.ticks = Down(@)]]
    /\ worker' = [w \in Workers |-> [worker[w] EXCEPT !.left = Down(@), !.renew = Down(@),
                                                    !.stray = Strayed(w)]]
    /\ UNCHANGED <<faults, orphans, accepted>>

Work(w) ==
    \/ Lease(w) \/ NoTask(w) \/ Wake(w)
    \/ Renew(w) \/ RenewRefused(w) \/ RenewTimesOut(w) \/ Finish(w) \/ Complete(w)

Next ==
    /\ UNCHANGED scope
    /\ \/ Tick
       \/ \E t \in Tasks : Stop(t) \/ OrphanEnds(t)
       \/ \E w \in Workers : Work(w) \/ LeaseLost(w) \/ RenewLost(w) \/ CompleteLost(w)
                             \/ Slow(w) \/ Kill(w)

(* Time goes on, and a worker that is not killed takes its next step.      *)
Spec == Init /\ [][Next]_vars /\ WF_vars(Tick /\ UNCHANGED scope)
           /\ \A w \in Workers : WF_vars(Work(w) /\ UNCHANGED scope)
---------------------------------------------------------------------------
(* Every task ends, whichever calls are lost and wherever workers die: a   *)
(* task that runs at nobody is leased again (serve_forever, lease_task).   *)
(* So it is for an assessment of one target, or of several one of which    *)
(* cannot be tested; "the server receives a bounded failure instead of a   *)
(* lost lease" (run_once).                                                 *)
WorkEnds == \A t \in Tasks : <>(task[t].status \in {"finished", "blocked"})

(* A result counts once, although work is repeated after a lost completion *)
(* and by a second worker (complete_task).                                 *)
Once == INSTANCE SingleUse WITH Tokens <- Tasks, spent <- accepted
ResultCountedOnce == Once!Spec

(* Whoever takes its lease, and whatever becomes of its calls, a worker    *)
(* ends its gate within one renewal interval and one call of losing the    *)
(* lease.  The process of a gate whose worker was killed is under no such  *)
(* bound, and a gate that strays may run beside the one of the next lease  *)
(* (run_gate, renew_task_lease).                                           *)
GateStopsWithoutLease == \A w \in Workers : worker[w].stray <= RenewTicks + CallTicks

(* A perfect score is never that of a target that was not tested           *)
(* (_execute_assessment).                                                  *)
PerfectMeansTested ==
    \A t \in Tasks : task[t].result # None /\ task[t].result.score = 100 => task[t].result.status = "succeeded"
=============================================================================
