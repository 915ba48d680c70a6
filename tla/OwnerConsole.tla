------------------------------ MODULE OwnerConsole ------------------------------
(***************************************************************************)
(* The owner's console: HTTP threads that ask for gate runs, the thread of *)
(* each run, viewers that share one cached snapshot, and the audit ledger  *)
(* they all write.  Three locks are taken one at a time, never together    *)
(* for a whole operation; a restart forgets everything but the ledger.     *)
(***************************************************************************)
EXTENDS Integers, Sequences

CONSTANTS Clients,     \* identities that post control requests
          Viewers,     \* threads that serve snapshots
          Gates,       \* engineering gates of ci_gates.json, without "all"
          Assurance,   \* its assurance gates
          Limit,       \* CONTROL_REQUESTS_PER_WINDOW
          MaxRuns, MaxRestarts,   \* bounds
          None

ConsoleAssumption ==
    /\ "all" \notin Gates \cup Assurance /\ Limit \in Nat /\ MaxRuns \in Nat
    /\ Clients \cap Nat = {} /\ None \notin Clients \cup Viewers /\ None \notin Nat

Active == {"queued", "running"}

(* Who appends to the ledger: a client's request, or the thread of a run.  *)
Actors == Clients \cup (1 .. MaxRuns)

VARIABLES mode,      \* operator or demo
          runs,      \* the runs in the order they were requested
          request,   \* per client: where start_run is, and the run it made
          recent,    \* per client: control requests in the current window
          cache,     \* the snapshot that is served again, or None
          view,      \* per viewer: the snapshot it is building
          snapLock,  \* the viewer that holds _snapshot_lock
          lock,      \* the actor that holds the lock of the ledger
          tail,      \* per actor: the head it read
          ledger,    \* per record that can be read: its predecessor
          torn,      \* audit.jsonl ends in an incomplete line
          restarts

vars == <<mode, runs, request, recent, cache, view, snapLock, lock, tail, ledger, torn, restarts>>
control == <<mode, recent, restarts>>
shown == <<cache, view, snapLock>>
records == <<lock, tail, ledger, torn>>

Idle == [pc |-> "rest", run |-> 0]

(* What a process starts from: __init__ of MissionControl.                 *)
Fresh ==
    /\ runs = <<>>
    /\ request = [c \in Clients |-> Idle]
    /\ recent = [c \in Clients |-> 0]
    /\ cache = None /\ view = [v \in Viewers |-> None] /\ snapLock = None
    /\ lock = None /\ tail = [a \in Actors |-> 0]

Init == mode \in {"operator", "demo"} /\ Fresh /\ ledger = <<>> /\ torn = FALSE /\ restarts = 0
---------------------------------------------------------------------------
(* allow_control_request drops the instants that left the window.          *)
WindowPasses(c) ==
    /\ recent[c] > 0
    /\ recent' = [recent EXCEPT ![c] = 0]
    /\ UNCHANGED <<mode, runs, request, restarts, shown, records>>

(* start_run: the gate is in the manifest, an assurance gate is confirmed. *)
Offered(gate, confirmed) == gate \in Gates \cup {"all"} \/ (gate \in Assurance /\ confirmed)

SlotFree == \A i \in DOMAIN runs : runs[i].status \notin Active

(* POST /api/runs up to the single slot.  Any request that gets so far     *)
(* counts against the window, also one that is refused.                    *)
Post(c, gate, confirmed) ==
    /\ request[c] = Idle /\ recent[c] < Limit /\ Len(runs) < MaxRuns
    /\ recent' = [recent EXCEPT ![c] = @ + 1]
    /\ IF mode = "operator" /\ Offered(gate, confirmed) /\ SlotFree
       THEN /\ runs' = Append(runs, [gate |-> gate, status |-> "queued", pc |-> "waiting"])
            /\ request' = [request EXCEPT ![c] = [pc |-> "append", run |-> Len(runs) + 1]]
       ELSE UNCHANGED <<runs, request>>
    /\ UNCHANGED <<mode, restarts, shown, records>>

LockFree == lock = None

(* AuditLedger.append: the last line that parses gives the predecessor ... *)
ReadTail(a) == LockFree /\ lock' = a /\ tail' = [tail EXCEPT ![a] = Len(ledger)]

Release(a) == lock' = None /\ tail' = [tail EXCEPT ![a] = 0]

(* ... and the record goes to the end of the file: after an incomplete     *)
(* line it becomes part of that line, and is never read.                   *)
WriteRecord(a) ==
    /\ ledger' = IF torn THEN ledger ELSE Append(ledger, tail[a])
    /\ torn' = FALSE /\ Release(a)

(* The write fails: nothing, or a part of the line, is in the file.        *)
WriteFails(a) == torn' \in {torn, TRUE} /\ Release(a) /\ UNCHANGED ledger

RequestReads(c) ==
    /\ request[c].pc = "append"
    /\ ReadTail(c)
    /\ request' = [request EXCEPT ![c].pc = "write"]
    /\ UNCHANGED <<control, runs, shown, ledger, torn>>

(* The record is written and the thread of the run starts ...              *)
RequestWrites(c) ==
    /\ request[c].pc = "write"
    /\ WriteRecord(c)
    /\ request' = [request EXCEPT ![c] = Idle]
    /\ runs' = [runs EXCEPT ![request[c].run].pc = "start"]
    /\ UNCHANGED <<control, shown>>

(* ... or not: the run keeps the slot and no thread will ever release it.  *)
RequestFails(c) ==
    /\ request[c].pc = "write"
    /\ WriteFails(c)
    /\ request' = [request EXCEPT ![c] = Idle]
    /\ UNCHANGED <<control, runs, shown>>
---------------------------------------------------------------------------
At(i, pc) == i \in DOMAIN runs /\ runs[i].pc = pc

(* _execute: run_ci.py is started ...                                      *)
Start(i) ==
    /\ At(i, "start")
    /\ runs' = [runs EXCEPT ![i].status = "running", ![i].pc = "process"]
    /\ UNCHANGED <<control, request, shown, records>>

(* ... and exits, or is killed after its timeout (code 124).               *)
Exit(i, code) ==
    /\ At(i, "process")
    /\ runs' = [runs EXCEPT ![i].status = IF code = 0 THEN "passed" ELSE "failed",
                            ![i].pc = "append"]
    /\ UNCHANGED <<control, request, shown, records>>

RunReads(i) ==
    /\ At(i, "append")
    /\ ReadTail(i)
    /\ runs' = [runs EXCEPT ![i].pc = "write"]
    /\ UNCHANGED <<control, request, shown, ledger, torn>>

RunWrites(i) ==
    /\ At(i, "write")
    /\ \/ WriteRecord(i) /\ runs' = [runs EXCEPT ![i].pc = "forget"]
       \/ WriteFails(i) /\ runs' = [runs EXCEPT ![i].pc = "dead"]
    /\ UNCHANGED <<control, request, shown>>

(* Slip: the cache is dropped while a viewer may be building a snapshot.   *)
MayForgetAlways == TRUE

MayForget == snapLock = None

(* The end of _execute: the next viewer builds a new snapshot.             *)
Forget(i) ==
    /\ At(i, "forget")
    /\ MayForget
    /\ cache' = None
    /\ runs' = [runs EXCEPT ![i].pc = "done"]
    /\ UNCHANGED <<control, request, view, snapLock, records>>
---------------------------------------------------------------------------
Last(set) == IF set = {} THEN 0 ELSE CHOOSE i \in set : \A j \in set : j <= i

(* _gates and _teams: the row of a gate is its latest own run, and the     *)
(* latest run of all gates only if it never had one of its own.            *)
RowRun(g) ==
    LET Of(gate) == Last({i \in DOMAIN runs : runs[i].gate = gate})
    IN IF Of(g) # 0 THEN Of(g) ELSE Of("all")

Rows == [g \in Gates |-> [run |-> RowRun(g),
                          status |-> IF RowRun(g) = 0 THEN "not_run" ELSE runs[RowRun(g)].status]]

(* snapshot with no cache, or one older than two seconds: the gates ...    *)
ReadGates(v) ==
    /\ snapLock = None
    /\ snapLock' = v
    /\ view' = [view EXCEPT ![v] = [rows |-> Rows, listed |-> <<>>, verified |-> TRUE]]
    /\ UNCHANGED <<control, runs, request, cache, records>>

(* AuditLedger.verify: each record names the one before it.                *)
Verifies == \A i \in DOMAIN ledger : ledger[i] = i - 1

(* ... then list_runs and the ledger, which a demo does not show ...       *)
ReadRuns(v) ==
    /\ snapLock = v /\ view[v].listed = <<>>
    /\ IF mode = "operator"
       THEN LockFree /\ view' = [view EXCEPT ![v].listed = <<[i \in DOMAIN runs |-> runs[i].status]>>,
                                             ![v].verified = Verifies]
       ELSE view' = [view EXCEPT ![v].listed = <<(<<>>)>>]
    /\ UNCHANGED <<control, runs, request, cache, snapLock, records>>

(* ... and the result is kept for the viewers to come.                     *)
Publish(v) ==
    /\ snapLock = v /\ view[v].listed # <<>>
    /\ cache' = view[v]
    /\ snapLock' = None
    /\ view' = [view EXCEPT ![v] = None]
    /\ UNCHANGED <<control, runs, request, records>>

(* The process dies, perhaps inside a write, and is started again.         *)
Restart ==
    /\ restarts < MaxRestarts
    /\ restarts' = restarts + 1
    /\ runs' = <<>> /\ request' = [c \in Clients |-> Idle] /\ recent' = [c \in Clients |-> 0]
    /\ cache' = None /\ view' = [v \in Viewers |-> None] /\ snapLock' = None
    /\ lock' = None /\ tail' = [a \in Actors |-> 0]
    /\ torn' \in (IF lock = None THEN {torn} ELSE {torn, TRUE})
    /\ UNCHANGED <<mode, ledger>>

Next ==
    \/ \E c \in Clients : \/ WindowPasses(c) \/ RequestReads(c) \/ RequestWrites(c) \/ RequestFails(c)
                          \/ \E g \in Gates \cup Assurance \cup {"all"}, b \in BOOLEAN : Post(c, g, b)
    \/ \E i \in 1 .. MaxRuns : Start(i) \/ RunReads(i) \/ RunWrites(i) \/ Forget(i)
    \/ \E i \in 1 .. MaxRuns, code \in {0, 124} : Exit(i, code)
    \/ \E v \in Viewers : ReadGates(v) \/ ReadRuns(v) \/ Publish(v)
    \/ Restart

Spec == Init /\ [][Next]_vars
---------------------------------------------------------------------------
(* What the console shows is true.  Once the thread of a run has ended, no *)
(* snapshot that is still served shows that run as queued or running,      *)
(* whoever was building one meanwhile; no snapshot lists two active runs;  *)
(* and the ledger that requests and runs write together verifies, also     *)
(* around an incomplete line (snapshot, start_run, _execute, AuditLedger). *)
SnapshotIsTrue ==
    cache # None =>
        /\ \A g \in Gates : At(cache.rows[g].run, "done") => cache.rows[g].status \notin Active
        /\ \A i \in DOMAIN cache.listed[1] : At(i, "done") => cache.listed[1][i] \notin Active
        /\ \A i, j \in DOMAIN cache.listed[1] :
              cache.listed[1][i] \in Active /\ cache.listed[1][j] \in Active => i = j
        /\ cache.verified
=============================================================================
