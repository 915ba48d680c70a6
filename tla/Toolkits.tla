------------------------------- MODULE Toolkits -------------------------------
(***************************************************************************)
(* The tools that are not tables of the platform: the red team's engine,   *)
(* the blue team's detection store, the owner's console, the claim gate,   *)
(* the hand-over of findings and the program's history.  They share no     *)
(* state: each is an instance of its module on variables of its own.       *)
(***************************************************************************)
EXTENDS Integers, Sequences, FiniteSets

CONSTANTS Scopes, RunIds, Tasks, Plan, Requests, MaxRequests,             \* Red
          Events, Time, Second, Host, RuleFiles, Named, MaxTime,          \* Blue
          Clients, Viewers, Gates, Assurance, Limit, MaxRuns, MaxRestarts, \* Owner
          Kind, Negative, Home, Spawner, Registers, ReadinessGates, MaxEdits, \* Claims
          Defects, Place, Severity, Criteria, MaxReports, MaxLedger,      \* Handoff
          Teams, Cards, Unit, Documents, MaxHistory,                      \* Program
          Procs,    \* processes that run a command of one tool
          None

VARIABLES file, approver, stop, run, thread, budget, ledger, torn, lock, signed, late,
          now, rules, stored, sensor, hits, alerts, suppressed, proc, correlated, quiet,
          mode, runs, request, recent, cache, view, snapLock, clock, tail, audit, cut, restarts,
          register, readiness, tree, edits, ci, stack, verdict,
          present, reports, mover, findings, score,
          history, recorder

engine == <<file, approver, stop, run, thread, budget, ledger, torn, lock, signed, late>>
store == <<now, rules, stored, sensor, hits, alerts, suppressed, proc, correlated, quiet>>
console == <<mode, runs, request, recent, cache, view, snapLock, clock, tail, audit, cut, restarts>>
gate == <<register, readiness, tree, edits, ci, stack, verdict>>
handoff == <<present, reports, mover, findings, score>>
program == <<history, recorder>>

Red == INSTANCE RedEngine WITH Runs <- RunIds

Blue == INSTANCE DetectionStore

Owner == INSTANCE OwnerConsole WITH ledger <- audit, torn <- cut, lock <- clock

Claims == INSTANCE ClaimGate WITH Gates <- ReadinessGates

Handoff == INSTANCE FindingsHandoff WITH proc <- mover, ledger <- findings

Program == INSTANCE ProgramHistory WITH proc <- recorder

ASSUME ToolkitsAssumption ==
    /\ Red!EngineAssumption /\ Blue!DetectionAssumption /\ Owner!ConsoleAssumption
    /\ Claims!GateAssumption /\ Handoff!HandoffAssumption /\ Program!HistoryAssumption
---------------------------------------------------------------------------
(* RedEngine: a run tests a scope that somebody signed.                    *)
RunsWhatWasSigned == Red!RunsWhatWasSigned

(* RedEngine: the requests of a run stay inside its budget, and STOP lets  *)
(* one more through.                                                       *)
RequestsBounded == Red!RequestsBounded

(* DetectionStore: an alert is about enough events inside one window.      *)
AlertJustified == Blue!AlertJustified

(* DetectionStore: an ordered burst reaches its threshold.                 *)
OrderedBurstSeen == Blue!OrderedBurstSeen

(* OwnerConsole: what the console shows is true.                           *)
SnapshotIsTrue == Owner!SnapshotIsTrue

(* ClaimGate: a green run is earned.                                       *)
GreenIsEarned == Claims!GreenIsEarned

(* ClaimGate: the gate never runs inside its own collection.               *)
NeverInsideItself == Claims!NeverInsideItself

(* FindingsHandoff: a passing score has its critical findings remediated,  *)
(* unless their id was opened twice ...                                    *)
PassIsClean == Handoff!PassIsClean

(* ... and whether or not it was.                                          *)
CriticalSettled == Handoff!CriticalSettled

(* ProgramHistory: a reported improvement is one.                          *)
ImprovementIsReal == Program!ImprovementIsReal
=============================================================================
