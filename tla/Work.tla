--------------------------------- MODULE Work ---------------------------------
(***************************************************************************)
(* Work on its way: assessment runs and their tasks in the platform, and   *)
(* the workers that carry tasks out at the edge.  Each is an instance of   *)
(* its module on variables of its own.                                     *)
(***************************************************************************)
EXTENDS Deployment, Integers, Sequences, FiniteSets

CONSTANTS Targets, Lifetimes, LeaseTime, MaxRuns,                        \* Assessments
          Tasks, Action, Scopes, SevenTeams, Duration, LeaseTicks,
          RenewTicks, CallTicks, MaxFaults, Workers                      \* ConnectorWorker

VARIABLES time, engagement, runs, tasks, open, lock, serving,
          scope, job, worker, faults, orphans, counted

platform == <<time, engagement, runs, tasks, open, lock, serving>>
edge == <<scope, job, worker, faults, orphans, counted>>

A == INSTANCE Assessments WITH now <- time, txn <- serving

C == INSTANCE ConnectorWorker WITH task <- job, accepted <- counted

ASSUME WorkAssumption == A!AssessmentAssumption /\ C!WorkerAssumption
---------------------------------------------------------------------------
(* Assessments: a run and its task never disagree.                         *)
RunMatchesTask == A!RunMatchesTask

(* Assessments: the status of the engagement is earned by a run.           *)
StatusEarned == A!StatusEarned

(* Assessments: every launch and every completion is answered.             *)
RequestsEnd == A!RequestsEnd

(* ConnectorWorker: a result counts once (implements SingleUse).           *)
ResultCountedOnce == C!ResultCountedOnce

(* ConnectorWorker: a gate ends soon after its lease.                      *)
GateStopsWithoutLease == C!GateStopsWithoutLease

(* ConnectorWorker: a perfect score is never that of an untested target.   *)
PerfectMeansTested == C!PerfectMeansTested
=============================================================================
