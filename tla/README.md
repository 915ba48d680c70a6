# AEGIS Security Team: a TLA+ verification project

This directory holds TLA+ models of the parts of the repository whose
correctness depends on *when* things happen: several requests against one
database, several processes against one file, a worker whose lease runs out, a
process that dies half-way, a revocation that arrives late. TLC checks the
models on small instances, and TLAPS proves every safety property the passing runs
check, refinements included, for every value of the constants.

Paths below are relative to the root of the repository.

## 1. Inventory: the system and its parts

The repository is a programme of seven "teams" with a hosted control plane. Its
own logic is in these components (`PROJECT.json`, `components`, lists their
files).

| Component | State | Operations | Interacts with | Model |
|---|---|---|---|---|
| **Task control plane** `mission-control/aegis_platform/{service,api,policies,models}.py` | organization (safety level), connectors, tasks, approvals, leases | create, decide, lease, renew, complete, heartbeat, update safety, enrol and revoke connectors | the database; workers over HTTP; the audit chain | `TaskControl` |
| **Transactions and audit chain** `audit.py`, `db.py`, `tenancy.py` | rows, row locks, `audit_seq`, `audit_head`, `audit_events` | append an event to the organization's hash chain; commit, roll back | every request that changes something | `TaskTransactions` |
| **Engagements and assessments** `engagements.py`, parts of `api.py` | an engagement, its runs, a task per run | create, launch; carry the outcome of a task over to its run | decision, lease and completion of tasks | `Assessments` |
| **Evidence storage and scanning** `storage.py`, `scanner.py` | objects, evidence rows, assets, the retention policy | upload, scan, analyse, download, sweep | ClamAV; connectors that analyse | `EvidenceStore` |
| **Shadow-AI inventory** `shadow_ai.py`, telemetry of `service.py` | policies, assets, usage events, violations, telemetry | ingest batches, decide, change policies, sweep | connectors that report | `EdgeReports` |
| **Invitations** parts of `service.py`, `security.py` | invitations, memberships | invite, accept | people without an account | `Membership` |
| **Connector worker** `mission-control/aegis_connector/` | the task at hand, its lease, a gate process | lease, execute, renew, complete, sleep | the task control plane | `ConnectorWorker` |
| **Owner console** `mission-control/server.py` | gate runs, a cached snapshot, rate limits, a ledger file | start a run, serve snapshots | the CI runner; browsers | `OwnerConsole` |
| **Rehearsal clearance and runner** `exercise/` | revocation list, clearance, nonce ledger and its lock | preflight, sign, spend the nonce, run in stages | files shared by runners | `Rehearsal` |
| **Purple exercise store** `purple-team/src/aegis_purple/` | exercises, evidence, results, nonces, transitions in one SQLite file | create, add evidence, record results, apply signed commands, verify | command-line processes | `PurpleExercise` |
| **White exercise control** `white-team/src/aegis_white/` | one hash-chained JSON-lines file | authorize, start, activity, stop, acknowledge, decide, complete, verify, score | command-line processes; the scorecard | `WhiteControl` |
| **Red engagement engine** `red-team/src/aegis_rt/` | the engagement file, STOP file, budgets, a ledger with a lock | authorize, run checks on threads, record | target hosts | `RedEngine` |
| **Blue detection store** `blue-team/src/blue_team/` | events, hits, alerts, suppressions, sensors in SQLite | ingest, correlate, suppress, alert | event sources | `DetectionStore` |
| **Yellow register**, with Green's and Orange's | a hash-chained file of findings | open, remediate, accept, score | red's reports | `FindingsHandoff` |
| **Shared tools** `00-shared/tools/` | the claim register, the history of roll-ups | claim gate, CI runner, transfer, roll-up, trend | every team | `ClaimGate`, `FindingsHandoff`, `ProgramHistory` |

What is hard in it, and where it bites, is the list `hazards` of `PROJECT.json`.
In short: transactions that trust a copy of the organization row and lock rows in
different orders; leases that run out while work goes on; answers given before a
commit; calls whose request or answer is lost; files with no lock, or with a lock
taken after the decision; two transactions for one operation; revocations, STOP
files and policy changes that arrive while something runs; retention against
replay and against readers; aggregates that improve because something was left out.

## 2. Plan

All modules of the plan exist; the order is that of importance.

1. `TaskControl`: the control plane, one committed transaction per request, the
   **abstract specification** of the platform.
2. `TaskTransactions`: the same requests opened into row locks, stale reads and
   the audit chain. It **implements** `TaskControl`.
3. `Rehearsal`, `PurpleExercise`, `WhiteControl`.
4. `ConnectorWorker` with the server's side of a lease: faults, restarts and
   liveness. Its results implement `SingleUse`.
5. `Assessments`, `EvidenceStore`, `EdgeReports`, `Membership`: the rest of the
   platform's shared state.
6. `RedEngine`, `DetectionStore`, `OwnerConsole`, `ClaimGate`,
   `FindingsHandoff`, `ProgramHistory`: the tools on files.
7. Proofs of the above, in the same order: all safety properties are proved. Next:
   properties of single components that no run asks about yet, such as what the
   hand-over of findings may lose, stated and proved at once.

`Work` (assessments and workers), `Platform` (evidence, reports, invitations) and
`Toolkits` (the tools on files) each put modules that share no state side by side,
every one an INSTANCE on variables of its own, with a name for each property:
these names are what the runs check and the theorems prove. `Deployment` declares
what all parts of the platform have in common. `MCWork`, `MCPlatform` and
`MCToolkits` give the parameters values; a behaviour picks one module in its
initial state (`part`) and only that one moves, so a run costs the sum of the
state spaces and not the product.

## 3. Modules and code

Every module names its code in its comments; `PROJECT.json`, `map`, gives the
lines of every definition. The definitions marked "Slip" are *not* part of the
specification: they are plausible mistakes, used to check that the properties
notice them.

### TaskControl (`service.py`, `policies.py`)

State: `safety` (organizations.safety_level), `status`, `work`, `approval`,
`lease` (columns of a task and its approval row), `caps`, `agentCaps`, `revoked`,
`presence` (connector and agent rows), `request` (connector requests past their
credential check, with the row they loaded), `now`. History: `doneBy` (the lease
under which a result was accepted), `provided` (what a human provisioned).

A human request is one step. A connector request is two: `Authenticate` loads the
connector row, the handler (`Heartbeat`, `LeaseTask`, `RenewLease`,
`CompleteTask`) works from that copy. Whatever commits in between is visible.
`EndRequest` is a refusal, a failure or a rollback. A handler reads the clock once,
between its credential check and its commit; a human request spans at most one
tick (`HumanClock`). `LeaseTask` requeues the connector's own expired leases and
hands out a task in the same step, as the handler does; the row order and SKIP
LOCKED are abstracted to "any leasable task". A decision on an overdue approval is
no step, since it is rolled back.

### TaskTransactions (`audit.py`, `service.py`, `api.py`)

Adds `audit`, `auditSeq`, `auditHead` and `txn`, the open transaction of each
slot: its operation and input, how far it is, its copy of the organization, the
rows it locked. Three facts of the code are modelled in detail:

* `append_audit` selects the organization FOR UPDATE, but SQLAlchemy's identity
  map keeps the attributes of a row already loaded. Human requests and
  `lease_task` therefore number their event from an old `audit_seq`; the UNIQUE
  constraint on `(organization_id, sequence)` then refuses the event and the
  transaction with it. The constraint *is* the concurrency control.
* A foreign key makes an insert take KEY SHARE on the organization; `update_safety`
  locks organization, then tasks; all other requests the other way round. Lock
  cycles exist and end in `Rollback`.
* The answer is sent at `flushed`; `Commit` comes after, and may not come.

`Rollback` stands for an integrity error, a refusal, a deadlock victim, a lost
connection and a crash. Heartbeats and agent-scoped work touch none of these rows
and stay with `TaskControl`.

### Assessments (`engagements.py`, `api.py`, `service.py`)

State: the `engagement` row, its `runs`, the `tasks` that carry them, whether the
safety level admits work (`open`), the lock of the organization row and of the
engagement row, and the request each process serves. Launch is `LaunchBegin`
(resolve_context loads the organization), `LaunchLock` (engagement FOR UPDATE,
authorization, run number), `LaunchInsert`, `LaunchCommit`. Decision, lease and
completion go `DecideBegin`/`LeaseBegin`/`CompleteBegin` (task row), `Audit`
(organization row) and `Commit`, which also writes the run and, if its status
changes, the engagement: the opposite lock order. `RollBack` is the database's
choice of a deadlock victim, `Collide` the UNIQUE audit sequence. Which team and
which findings a result carries is left out.

### EvidenceStore (`storage.py`, `scanner.py`, `api.py`, `service.py`)

State: the `policy`, the stored `object`s, the `row`, `asset` and analysis `task`
of each piece of evidence, the request each process is in the middle of; history:
what was ever called clean, and what was served. An upload is `UploadPut` (object)
and `UploadCommit` (row, verdict, asset); a scan reads the row first and writes
after the scanner answered; a read for a connector reads row and object at two
times; a sweep deletes objects and then commits. `Fail` rolls back anything. The
scanner's possible answers are `Responses`.

### EdgeReports (`shadow_ai.py`, `service.py`), SingleUse

State: the `policy`, discovered `asset`s with their disposition, `usage` events,
`violation`s, `telemetry`, the batch each process is working on. A batch is read
and judged (`UsageBegin`, `Judge`) and later committed; `UsageKeysFree` is the
UNIQUE constraint on (connector, idempotency key). A person may decide and change
policies in between. `SingleUse` is the abstract specification: a token is spent
at most once, and stays spent.

### Membership (`service.py`)

Invitations, members and the acceptance requests of two processes: `AcceptBegin`
locks the invitation, `AcceptCommit` needs an id for the audit event
(`TargetKnown`), which a membership that was only added to the session does not
have yet, so it is `AcceptFails`.

### ConnectorWorker (`worker.py`, `client.py`, `analyzers.py`; `service.py`)

State: per task its status, lease and progress at the server; per worker where
`run_once` is, what it holds and how much time its step still takes. Calls can fail
to arrive or lose their answer (`LeaseLost`, `RenewLost`, `RenewTimesOut`,
`CompleteLost`; `MaxFaults` bounds them), a worker can be killed and start again
while the process of its gate goes on. `Tick` is time: it waits until whoever has
something to do at this instant has done it. A killed worker's gate goes on as one of
the `orphans` until it ends by itself (`Kill`, `OrphanEnds`): only the `finally` of
`run_gate` ends that process, and a kill skips it. History: `stray`, the ticks a
worker has run a gate since its lease was last in force. The gate is one process
here; what `process.kill` ends is `run_ci.py`, not the command it has started
(`analyzers.py:385`). A result is the set of inspected targets and what was found
there (`Assessed`, a cost per finding), which the server examines as
`_validated_completion_result` does (`Validated`): one result per target and each
planned team exactly once.

### OwnerConsole (`server.py`)

Requests (`Post`, rate limited, one active run), their audit records (`ReadTail`,
`WriteRecord`, `WriteFails`), the thread of each run, viewers who build a snapshot
under `_snapshot_lock` in two readings, and a `Restart` that keeps the file only. A
request whose record fails leaves a queued run that no thread will ever end, and a
thread that dies on its last record leaves its run active: `SnapshotIsTrue` speaks of
threads that ended by themselves, and does not notice either.

### Rehearsal (`exercise/`)

Runners are processes that share the current clearance, the revocation list, the
nonce ledger and its lock. `Preflight`/`Issue` check revocations and sign;
`Load`, `ReadClock`, `Verify`, `Lock`, `ReadLedger`, `Consume`, `Unlock` follow
`verify` and `consume`; `PassBoundary` and `Perform` are the stages of
`run_rehearsal`. `Abort` is a refusal or a death, at any point; the operating
system then releases the lock. Signatures, manifest, gates: a document that fails
them is one `Abort`. The arguments `consume_nonce=False` and an injected clock
exist for tests and are left out.

The code decides on a clock reading made *before* it waits for the lock, and puts
no bound on the time in between. The model has one, `MaxPause`, and assumes
`TTL + MaxPause <= Retention`: this is what the comment at `clearance.py:211`
calls a wide margin, and TLC finds a replay with `MaxPause = 3` once the
assumption is dropped. It is an assumption about the environment, not something
the code ensures.

### PurpleExercise (`purple-team/src/aegis_purple/`)

Every operation of the store is one BEGIN IMMEDIATE transaction and one action;
`apply_authorized_transition` is `Lookup` (nonce, outside any transaction),
`Transition` and `Consume` (two transactions). `Abort` between them is a refusal or
a death. A command is a signed envelope, named by its nonce, which signers draw
afresh; a badly signed one, or one out of its window, is an `Abort`. The plan's
expiry is `Expire`. Hashes are injective: chain head and state root are the values
they commit to.

### WhiteControl (`white-team/src/aegis_white/`)

The state is the `ledger` file and, per controller, where its command is (`pc`),
the payload it decided on and the head it read. A command replays the file and
decides (`Authorize`, `Start`, `RequestActivity`, `DeclareStop`,
`AcknowledgeStop`, `RecordDecision`, `Complete`), reads the head (`ReadHead`) and
appends (`AppendRecord`); nothing locks the file in between; `Kill` ends it
anywhere. Timestamps come from the caller, in any order. A hash is the sequence
of payloads it commits to. What a replay computes (`control.py`, `state`) and the
scorecard's automatic failures (`scoring.py`) are operators on the file. History:
`overlapped`, two commands have been under way at once. A record is written whole:
one longer than the file buffer could be torn, which is out of bounds here.

### RedEngine (`red-team/src/aegis_rt/`)

`authorize` reads the engagement file twice and replaces it (`Sign`, `Reread`,
`Replace`); anybody may `Edit` it in between. A run (`Begin`) appends to the ledger
under its file lock (`TakeLock`, `Write`, `AppendFails`) while its pool works: each
check makes its requests by `Admit` (STOP and budget, under the context's lock) and
`Count` (after the rate limit). A failed main thread waits for its pool.

### DetectionStore (`blue-team/src/blue_team/`)

Ingesting an event is `AddEvent`, then per rule `Correlate` or `Single`,
`CheckSuppression` and `AddAlert`, each a transaction or a read of its own; the
command may be killed in between, and the event, once stored, is never evaluated
again. Events carry their own time and arrive in any order. The clock of the store is
`now`. Instants are compared as the text of `isoformat`, which leaves out a fraction
of zero: `Text` maps an instant to its place in the order of these texts, where a
whole second comes after every fraction of it. Windows, what is too old and which
hits are the newest are decided in that order. An alert keeps the number of hits it
counted and names the newest `Named` of them (100 in the code).

### ClaimGate (`claim_check.py`, `run_ci.py`, `test_gate_manifest.py`)

Processes that wait for each other form a `stack`: the runner's gate, the tests it
starts, and the gate that one of those tests starts. The register and the readiness
document are read at the start; the tools' tests run first, in the tree itself, and the
application's in a copy of it; `Edit` changes any of them meanwhile.
The environment variable that stops the recursion is `guard`.

### FindingsHandoff (`finding_envelope.py`, `yellow-team/src/aegis_yellow/`)

`Transfer` names the findings of a report and keeps those the register does not
know, `Open` and `Close` decide on a replay, `ReadHead` and `Write` append without a
lock; `ScoreRead` and `Score` are the two readings of the score. A replay keeps the
last opening of an id, so a second one hides what the first one said.

### ProgramHistory (`program_rollup.py`, `program_history.py`)

`Rollup` is the roll-up as an operator on score documents and weights; `Record`
appends one to a chained file without a lock; `Improvement` is what `trend` reports
as a risen score without a note. Sums are sizes of disjoint unions (`Units`,
`Points`): a team of weight 3 with 60 points contributes 3 units and 180 points.

## 4. What the runs check

Deadlock is checked in `tasks` and `rehearsal`. Elsewhere a bound ends
the behaviour (`MaxAudit`, `MaxRuns`, `MaxRecords`, used-up commands and
invitations), or everything the model can do is done.

| Run | Instance | Shows |
|---|---|---|
| `tasks` | a dry run and its real counterpart of one critical action, two humans, one connector; beside it two tasks, two connector requests in flight, three clock values, two leases per task | `CriticalAuthority`: critical work is leased only after another person approved it and a dry run succeeded; `SafetyStopsWork`, `ResultFromLatestLease`, and `LeasedWithinProvision` under overtaking heartbeats |
| `transactions` | one task; two human transactions and a connector's, two connector transactions and a human's, or two humans past an approval's deadline; low and high risk | `AuditChain`, `AnswerStillTrue`, and `ImplementsTaskControl`: the transactions amount to the atomic requests |
| `work` | an engagement with two runs and two requests in flight; two workers with an assessment and a gate run, two faults | `RunMatchesTask`, `StatusEarned`; every request is answered (`RequestsEnd`) and every task ends (`WorkEnds`) under fairness; `ResultCountedOnce` (implements `SingleUse`), `PerfectMeansTested`, and `GateStopsWithoutLease`: a worker that has lost the lease of its gate ends the gate within one renewal interval and one call |
| `platform` | one piece of evidence and two processes; two batches with one key, two policies; two invitations, two people | `RetainedIsReadable`, `ServedWasClean`, `SensitiveUseFlagged`, `UsageCountedOnce` (implements `SingleUse`), `InvitationUsedOnce` |
| `toolkits` | one red run of two checks, or two runs of a single-check engagement on one state directory; four events, two commands; one client and one viewer; eight registers and one edit; two findings and two processes; two teams and two roll-ups | `RunsWhatWasSigned`, `RequestsBounded`, `AlertJustified`, `OrderedBurstSeen`, `SnapshotIsTrue`, `GreenIsEarned`, `NeverInsideItself`, `PassIsClean`, `ImprovementIsReal` |
| `rehearsal` | two runners, two clearances, a ledger of two entries, two revocation records, six ticks | `NonceAcceptedOnce`, `RevocationStopsRun` |
| `purple` | two processes, twelve commands (two of them never allowed), two pieces of evidence, two stages | `CommandAppliedOnce`, `HistoryIsPath`, `VerifiedIndependently`, `VerifiedIsComplete` |
| `white` | two controllers, two requests, both severities, two instants, five records | `ForkDetected` in every interleaving; `StopHoldsUntilAdvisory`, `CleanScoreIsClean` as long as no two commands overlap |

### Fairness, and why the code justifies it

* `Assessments`, `RequestsEnd`: strong fairness of `Serve(p)`, the steps of a
  request that was received. The server runs each request to its end, and the
  database queues the transactions that wait for a row, so one that can proceed
  again and again is not overtaken for ever. Nothing is assumed about requests arriving.
* `ConnectorWorker`, `WorkEnds`: weak fairness of `Tick` (time passes) and of
  `Work(w)`, a worker's own steps: `serve_forever` polls for ever and catches what
  a step raises. Faults, kills and safety stops happen or not, at most `MaxFaults`
  times.
* `Membership`, `InvitedBecomesMember`: weak fairness of `Serve(p)`, the end of an
  acceptance that was begun, committed or failed. Nothing is assumed about invitations
  being sent, and the counterexample is a request that ends and admits nobody.

### Refinements

`ImplementsTaskControl` is `TaskControl!Spec` as a property of `TSpec`: the
transactions' variables include those of the abstract module, so the mapping is
the identity on committed rows, and everything uncommitted is a stutter.
`ResultCountedOnce`, `UsageCountedOnce` and `InvitationUsedOnce` are
`SingleUse!Spec` under a mapping: a lease, an idempotency key or an invitation is
the token, and an accepted result, a stored event or an admitted person is what it
is spent for.

### Runs that exhibit a disagreement

| Run | What it exhibits |
|---|---|
| `advisory` | an advisory stop declared after a mandatory one lifts it, although `models.py` of White says that nothing may proceed after a mandatory stop |
| `unaccepted` | an assessment of two targets that are both tested is never accepted: the worker lists the seven teams once per target, the server wants each team once, the lease runs out and the work is repeated |
| `settled` | two transfers open one id, once as critical and once as high; the score passes although the critical finding was never closed, while `register.py:7` of Yellow names any open critical finding an automatic failure |
| `invited` | a person without an account accepts a valid invitation and never becomes a member: the audit event needs the id of a row that has not been flushed, and the failure rolls everything back |

Met while modelling, and kept in the models as the code has them, without a run:

* Platform: a decision on an overdue approval answers "expired and failed closed" and
  rolls both marks back (`service.py:514`). An unavailable scanner should quarantine
  what it is asked about (`api.py:302`, `mission-control/README.md:129`,
  `PRODUCTION.md:105`), but the 503 that follows rolls the mark back: evidence that a
  rescan cannot judge keeps its old verdict and stays readable if that was clean. An
  approval granted while the workspace is halted queues the task (PRODUCTION.md:111
  says the switch prevents new work); it is not leased before the level is lowered. A
  task is leased after its engagement's authorization expired, although the plan of
  each run lists "Stop on scope ambiguity or authorization expiry"
  (`engagements.py:140`). A safety stop, or a requeued lease, leaves run and
  engagement at "running". A successful assessment with fewer than seven selected
  teams is refused as one with two targets is. Two findings with one fingerprint
  inside one result are not merged, since the session does not flush before it looks.
  The export compares the two newest runs whatever their status.
* Edge reports: the first report of an asset never gets the disposition its policy
  gives; a later batch can overwrite a person's decision; an approved asset on a
  blocked domain is acted on with "block" without a violation row; a repeated key
  inside one batch refuses the whole batch.
* Worker: nothing relates `lease_seconds` (at least 30) to the request timeout (up
  to 300), so a lease can run out while its renewal hangs, and another worker is given
  the same gate: the two run at once until the first gives up. The process of a gate
  survives its killed worker and is under no bound at all; after four redirects
  an address that was never fetched is graded; an agent is never reported as
  "working"; a lost completion is not sent again.
* White: two commands at once fork the ledger, and every later verification fails.
  A second stop after an acknowledgement has a negative latency (`control.py:213`),
  which the scorecard rates as perfect (`scoring.py:98`).
* Blue: instants of mixed precision are compared as texts. With a window of one
  second, an event at 12:00:00Z still counts for one at 12:00:01.5; an ordered burst
  at 12:00:00Z and 12:00:00.5Z is missed, since 'Z' sorts after '.'
  (`store.py:251`). An alert names at most 100 events (`detection.py:314`), though a
  threshold may ask for 10,000.
* Red: a run whose ledger fails goes on until its pool is done; a check that raises
  loses its findings; a torn record ends the ledger; expiry is not looked at again
  during a run.
* Console: an old run of a gate hides a newer run of all gates; an incomplete line
  swallows the next record while the ledger still verifies; the lock is one of the
  process, so two consoles share a file without one.
* Claim gate: a claim whose evidence is prose, with a word of rejection in it, passes
  as EVIDENCED, though the docstring (`claim_check.py:14`) asks for both kinds of
  test; lint hits never affect the exit code.
* Hand-over: ids that are known are skipped also when they are closed, so a
  regression is not reopened; opening an id twice forgets its closure, or, at a lower
  severity, that it was critical (run `settled`); a critical finding opened between
  the score's two readings of the file is not seen; a clash ends the transfer of the
  rest; ids follow the order of the report and are not stable between scans; two
  processes can leave a critical finding accepted.
* History: leaving out the document of a team with an automatic failure turns
  FAILED into SCORED; a weak team exchanged for another of the same weight, and a
  first-to-last delta across intermediate changes of weights, are not named; the
  `overall_score_delta` of `trend` is printed without the note on coverage that its
  verdict has, and `ImprovementIsReal` speaks of the verdict only; the
  order of `recorded_at` is not checked.

### Bounds, and why they are enough

* `tasks`, the critical part: one lease per task and two ticks; requeueing is the
  business of the other part. Two users suffice to tell the requester from another
  person, two tasks to have a dry run and its counterpart. The other part:
  `MaxTime = 3` is the first instant at which a lease of one tick has run out and the
  work is leased again; `MaxLeases = 2` gives a stale and a current token.
  `PlainWork` keeps tasks with a connector and without an agent, and leaves one
  capability provisioned and one only claimed. The model treats both levels that stop
  work alike, and both that do not: each part has three of the four.
* `transactions`: four audit events suffice for enrol, create, lease or decide, and a
  halt racing with the last of them. `Within` admits two human transactions beside
  one connector's, or two connectors' beside one human's, while the other slots rest:
  races of three, of either kind. `DryRuns` leaves dry runs to `tasks`.
* `work`: one run to be leased while a second is launched is the smallest case in
  which a run can be given the other's outcome; two requests are enough for every
  lock cycle of two rows. The clock ends at two, past the authorization (1) and past
  a lease. At the edge: one target per kind; the assessment fits its lease (2 of 3
  ticks), the gate (4) has to renew; a lost call hangs for three ticks, longer than
  what is left of a lease, so that another worker does get the gate meanwhile; two
  faults cover a lost call followed by a lost renewal or a kill. A lease's token is
  the smallest number no worker holds, so that the state space is finite although
  work may be repeated for ever. `unaccepted` has an assessment of a website and a
  repository instead.
* `platform`: one object, with two processes, is enough for each race of upload,
  scan, read and sweep; one analysis of an asset at a time; two days. One key,
  two batches, one asset on a domain and a subdomain. Two invitations, one of them
  possibly for the person who is already a member.
* `toolkits`: the budget of two is below the three requests of the two checks; the
  late event and the one at the edge of its window are among the four, whose times are
  whole seconds but one that has a fraction (`Second = 2`); an alert of two names one
  (`Named = 1`); `SecondLife`
  gives a restarted console one more run; one edit of the tree during a CI run; a
  ledger of three lines and a history of two are the shortest that can fork.
* `rehearsal`: `TTL = 1`, `MaxPause = 2`, `Retention = 3` is the tightest
  combination the assumption admits; six ticks let the first nonce age out and a
  second clearance take its place; one record revokes this exercise from tick 2
  on, the other another exercise.
* `purple`: `OwnPlans` fixes who creates the exercise, which no property looks
  at. That evidence of another exercise's test case of the same name does not count
  is proved, not run.
* `white`: `ShortRaces` follows overlapping commands until the file has three
  lines, long enough for every kind of fork; commands one after the other go on
  to five lines: authorize, two stops, and acknowledgement or activity after
  them.

Symmetry is used in safety runs only, over controllers and requests, runners,
nonces, tasks, users, evidence and processes, none of which any definition tells apart.

## 5. What is proved

The proofs are in `*_proofs.tla` and `TaskTransactions_refinement.tla`: a module
per component, and one each for the parts of the platform (`Platform_proofs`, which
also holds those of `Work`) and for the tools (`Toolkits_proofs`), section by
section. They hold for any number of tasks, users, requests, workers, runners,
nonces, exercises, commands, processes and controllers, and use only the named
assumptions of the modules they are about. Of the constants these say what types
they have, and apart from that:

* `RehearsalAssumption`: `TTL + MaxPause <= Retention` (see Rehearsal, above);
* `ReportAssumption`: a policy asks for one of three reactions, as its schema says
  (`schemas.py:210`). `DetectionAssumption`: rules have the fields that parsing
  gives them, a second is divided, and an alert names an event; what makes a rule valid
  is checked by the module (`Loadable`);
* `ConsoleAssumption`, `AssessmentAssumption` and the like: `None` is none of the values
  it is told apart from, and a client is not the number of a run;
* `HistoryAssumption`, `WorkerAssumption`, `DetectionAssumption`: teams, targets of an
  engagement and events are finite sets.

**TaskControl_proofs.** `TypeCorrect`; then three inductive invariants.
* `LeaseInv`: `SafetyStopsWork` and `ResultFromLatestLease` are not inductive by
  themselves: that nothing is left running after `BlockTasks`, and that the
  presented token is the latest, rest on `LeaseShape` (a task runs exactly while
  it has an expiry, under its latest token; a token survives only on blocked
  tasks) and `Unleased`. Gives `SafetyStops`, `ResultIsLatest`, `TerminalStays`.
* `ApprovalInv`: the approval of a task matches its status, and what `CreateTask`
  and `DecideTask` checked stays true, because successful dry runs never change
  again. Gives `ApprovalMatches`, `CriticalNeedsAuthority`.
* `ProvisionInv`: a connector row, every copy of it that a request works from and
  every lease stay inside what was provisioned. Gives `LeasesWithinProvision`,
  for any number of overtaking heartbeats.

**TaskTransactions_proofs.** `AuditInv` gives `AuditChainHolds`: a copy of the
organization row is a point the chain has passed (`Copies`), the update lock
excludes every other lock on that row (`Exclusive`), and who has flushed an event
holds the lock and numbered the event from the end of the chain (`Holding`): the
earlier numbers are all taken, and the unique sequence refuses them (`OnlyTheEnd`).

**TaskTransactions_refinement.** `TransactionsImplement`: the transactions
implement `Spec` of `TaskControl`, so its theorems hold of the committed state.
Each commit is one atomic request (`ConnectRefines` ... `CompleteRefines`), and every
other step changes no table, is a rollback (`EndRequest`), an authentication or a
tick. `TxnInv` says why what a transaction checked is still true when it commits,
for one of two reasons. Either the rows it decided on are locked (`Decided`, `Held`,
`RowsApart`; `CommitFrame`: a task that exists changes only under its lock). Or the
check was made against its copy of the organization row, and every commit that could
have spoiled it has also lengthened the audit chain: the copy is then no longer
`Current` and the event is refused (`CommitHuman`, `CommitConnector`). A renewal is
the one commit that writes no event; `RenewRequeues` shows that it moves the expiry
of no lease another request takes for expired. `AnswersStayTrue` follows.

**Rehearsal_proofs.** `AdmissionInv` says what a runner on its way to the ledger
knows (`Knows`: its reading is in its clearance's window and not older than
`MaxPause`; what it read is still there, since it holds the lock) and what the
ledger remembers (`Remembered`: a nonce spent once is there, or its clearance is
older than the retention). Together with `TTL + MaxPause <= Retention` they give
`AcceptedOnce`, `LiveRemembered`, `OnlyAgedLeave` and `LockFollows`.
`ExecutionInv` adds that revocations only grow and gives `RevocationStops`.

**PurpleExercise_proofs.** The lifecycle has no cycle: `Rank` orders its states,
and every allowed step goes up (`RankGrows`). Hence an applied command's
exercise is past the state the command expects, and stays so: `AppliedOnce`, and
`SpendingSucceeds`, for any number of processes and deaths. `EvidenceInv` gives
`VerifiedComplete` and `EvidenceStays`; `LogInv` (no exercise is behind its own
transitions) gives `VerifiedByOthers`. `SelfCheck` is direct. `PathsHold`: the log of
all exercises, read for one of them, is a path of the lifecycle to its state. The
property speaks of positions in the log and not of a filtered log, which would be a
recursive definition; it is inductive by itself, and `PathGrows` is the one step that
extends a path.

**WhiteControl_proofs.** `TreeOfRecords` holds in every interleaving, and so does
`ForksDetected`: a ledger whose lines form a tree and that is no chain has two lines
that commit to the same one (`OnlyTheLastIsFree`). As long as no two commands
overlap, the head a command read is the head of the file, and its decision is still
right when it is written (`DecisionIsCurrent`): `Chained`; `StopAuthority`, by
`StopInv`, of which every conjunct needs the others; `CleanScore`, because the flags
of an activity say what the lines around it say (`FlagsTrue`, `FlagsCurrent`).

**Platform_proofs**, one section and one inductive invariant per module.
* `EvidenceInv` (`EvidenceRetained`, `EvidenceServed`): an upload under way has
  stored its object and no row, and no two of them the same (`Uploads`); what is
  clean, is being read or has been served was called clean (`Judged`), whatever
  happens between the reading of the row and of the object.
* `ReportInv` (`SensitiveFlagged`, `UsageCounted`): every verdict a request carries
  or a row keeps is honest, also under a policy that is no longer in force.
* `MembershipInv` (`InvitationUsed`): who is accepting an invitation holds its row,
  and it is pending.
* `AssessmentInv` (`RunsMatchTasks`, `StatusIsEarned`): what each request in flight
  knows of rows it has locked (`Sound`), and that no two hold the same lock
  (`Requests`). The two properties are part of it: a run follows its task only
  because the row was in the state the request saw, and the engagement only because
  its run does.
* `WorkerInv` (`GateEnds`, `ResultCounted`): `Bounded` says that the ticks a worker's
  gate has strayed and those to its next renewal, or to the timeout of the one that
  hangs, together are at most one interval and one call. That does not depend on how
  long a lease is, and says nothing of the `orphans` of killed workers.
  `CountedWhenFinished` gives the refinement of `SingleUse`.
* `ResultInv` (`PerfectIsTested`): a finding costs something, wherever the score is
  on its way; a target that was not tested makes the task fail.

**Toolkits_proofs**, likewise.
* Red: `Receipts` (what a run was started on was signed, though `authorize` reads the
  file twice), `Admitted` (who waits for the rate limit is the one inside
  `consume_request`): `RedRunsWhatWasSigned`, `RedRequestsBounded`.
* Console: `Slots` (one active run, and the request under way is the one that made
  it), `Writers` (who writes to the ledger holds the lock and knows the last line),
  `Shown` (the cached snapshot, and the one being built): `ConsoleTruthful`.
* Blue: `Warranted`, by `Justifies` (the hits a command counted were stored, and are
  of its event's host and window) and `Reports` (an alert names the newest of them that
  fit), gives `AlertsJustified`: the order of the texts costs a window at most one
  second. `Pruned` (a hit that is gone was, as a text, out of the window of a later
  event of its host) gives `OrderedBursts`, by counting the hits that are left; the
  second at either end that mixed precisions can hide is its `Slack`.
* Claim gate: `IsStack` (everything under a gate is a suite that found the guard),
  `GatesInOrder` (the gate on the stack is the runner's next, and a green run keeps
  the verdict it rests on, the mechanism of each advanced claim included):
  `GateNotNested`, `GreenEarned`.
* Register: `HandoffInv`. Every line, and every line under way, obeys the rules of
  closing by the lines that were there when it was decided on (`Lawful`): who closes a
  critical finding that was opened once saw it open and had evidence, however late the
  line is written. So when no failure is found in a prefix, the critical findings
  opened once in it are remediated (`Settled`): `PassingScoreIsClean`. That a second
  opening voids this is what the run `settled` shows.
* History: `EntriesAreRollups`; that a mean does not rise by leaving teams out
  unless the coverage falls is `RiseNamesATeam`, an argument about the sizes of
  the unions the sums are made of: `ImprovementsAreReal`.

Proved and no longer checked by a run, because the theorem says more: the type
invariants, `TerminalIsFinal`, `ApprovalMatchesTask`, `OnlyAgedNoncesLeave`,
`StoreVerifies`, `AppliedIsUnspent`, `EvidenceFrozen`, `ChainIsTree`,
`ChainVerifies`, `OneExercise`.

Only model-checked: the liveness properties `RequestsEnd` and `WorkEnds`, and the
counterexamples of the runs `advisory`, `unaccepted`, `invited` and `settled`. Out of
the prover's reach altogether: liveness under fairness, ENABLED, and induction over
data. Sums, counts and filters are therefore written with cardinalities and
quantifiers in the modules above, where a recursive definition could be run but not
reasoned about.

## 6. What is not modelled, and why

* Cryptography, parsing, canonical form: their verdicts are inputs.
* Tenant isolation: the models have one organization; row-level security is
  configuration of the database.
* Texts, titles, payloads, digests beyond what a property tells apart.
* Of the platform: findings and their comparison between runs, recommendations,
  programs, incidents, risks, members' roles, dashboards and the export, which are
  rows one request writes or reads on its own.
* Of the worker: what inspections and analyses look for. Of red: what a check looks
  for, the file budget and the sealing of the ledger. Of blue: trust envelopes,
  response plans and coverage.
* Green's and Orange's registers have the ledger of Yellow's and scorecards of their
  own; the scorecards of Purple and White, beyond White's automatic failures, are
  weighted means of one reading.
* Reports, web client, migrations, deployment scripts: data processing or I/O
  without shared state of their own.
* A record of White's, Yellow's or the history's file that is written in two pieces:
  the models write a line whole (the red engine's and the console's ledgers are
  modelled with torn lines).

## 7. Running

    tlc -workers 2 -config MCTaskControl_tasks.cfg MCTaskControl
    tlapm TaskControl_proofs.tla
    tlapm Toolkits_proofs.tla

`PROJECT.json` lists every run with its configuration, the mutated definitions
each property is known to notice, and the theorems.
