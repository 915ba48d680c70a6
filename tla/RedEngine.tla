------------------------------- MODULE RedEngine -------------------------------
(***************************************************************************)
(* The red team's engine: an engagement file that is edited and authorized,*)
(* runs of it that share a state directory, the checks of a run on a pool  *)
(* of threads with one request budget, the STOP file, and the audit ledger *)
(* that every run appends to under a file lock.                            *)
(*                                                                         *)
(* authorize reads the file twice and replaces it; run reads it once.  A   *)
(* request is counted at the end of a wait for the rate limit, and the     *)
(* STOP file is looked at before that wait.                                *)
(***************************************************************************)
EXTENDS Integers, Sequences, FiniteSets

CONSTANTS Scopes,       \* fingerprints an engagement file can have
          Runs,         \* run commands
          Tasks,        \* pairs of a check and a target
          Plan,         \* Plan[s]: the tasks of an engagement of this scope
          Requests,     \* Requests[t]: how many requests the check makes
          MaxRequests,  \* limits.max_requests
          None

EngineAssumption ==
    /\ Plan \in [Scopes -> SUBSET Tasks]
    /\ Requests \in [Tasks -> Nat]
    /\ MaxRequests \in Nat \ {0}
    /\ None \notin Tasks

VARIABLES file,      \* the engagement file: its scope, and the scope its receipt is for
          approver,  \* the authorize command: what it has read so far
          stop,      \* the STOP file exists
          run,       \* the main thread of each run
          thread,    \* the check of each task of a run
          budget,    \* requests counted, and who is inside consume_request
          ledger,    \* audit.jsonl: run, event and predecessor of each record
          torn,      \* the last line of audit.jsonl is incomplete
          lock,      \* the run that holds the lock of the ledger
          signed,    \* history: scopes an approver has signed
          late       \* history: requests counted after STOP appeared

vars == <<file, approver, stop, run, thread, budget, ledger, torn, lock, signed, late>>
papers == <<file, approver, signed>>
records == <<ledger, torn, lock>>
work == <<thread, budget, late>>

NoApprover == [pc |-> "rest", scope |-> None, data |-> None]

Init ==
    /\ file \in [scope : Scopes, receipt : {None}]
    /\ approver = NoApprover
    /\ stop = FALSE
    /\ run = [r \in Runs |-> [pc |-> "rest", scope |-> None, event |-> None, tail |-> 0]]
    /\ thread = [r \in Runs |-> [t \in Tasks |-> [pc |-> "queued", left |-> Requests[t]]]]
    /\ budget = [r \in Runs |-> [used |-> 0, inside |-> None]]
    /\ ledger = <<>> /\ torn = FALSE /\ lock = None
    /\ signed = {} /\ late = [r \in Runs |-> 0]
---------------------------------------------------------------------------
(* Somebody edits the scope; the receipt stays in the file.                *)
Edit(s) ==
    /\ file' = [file EXCEPT !.scope = s]
    /\ UNCHANGED <<approver, signed, stop, run, work, records>>

(* _authorize: the scope is loaded, fingerprinted and signed ...           *)
Sign ==
    /\ approver = NoApprover
    /\ approver' = [pc |-> "signed", scope |-> file.scope, data |-> None]
    /\ signed' = signed \cup {file.scope}
    /\ UNCHANGED <<file, stop, run, work, records>>

(* ... then the file is read again for the rest of its content ...         *)
Reread ==
    /\ approver.pc = "signed"
    /\ approver' = [approver EXCEPT !.pc = "read", !.data = file.scope]
    /\ UNCHANGED <<file, signed, stop, run, work, records>>

(* ... and replaced (atomic_write_text).                                   *)
Replace ==
    /\ approver.pc = "read"
    /\ file' = [scope |-> approver.data, receipt |-> approver.scope]
    /\ approver' = NoApprover
    /\ UNCHANGED <<signed, stop, run, work, records>>

(* The operator creates the STOP file.                                     *)
StopAll == ~stop /\ stop' = TRUE /\ UNCHANGED <<papers, run, work, records>>
---------------------------------------------------------------------------
(* Slip: any receipt that is signed will do.                               *)
CoversAny(receipt, scope) == receipt # None

(* validate_engagement: the receipt is for the fingerprint of this scope.  *)
Covers(receipt, scope) == receipt # None /\ receipt = scope

(* _run and run_engagement up to the first record: the operator's          *)
(* acknowledgement, the receipt and its signature.  An expired receipt     *)
(* refuses the start, at any time: the step is then not taken.             *)
Begin(r, ack) ==
    /\ run[r].pc = "rest"
    /\ ack = file.scope
    /\ Covers(file.receipt, file.scope)
    /\ run' = [run EXCEPT ![r].pc = "append", ![r].scope = file.scope, ![r].event = "started"]
    /\ UNCHANGED <<papers, stop, work, records>>

(* Each run has its own threads, its own budget and the same ledger.       *)
Chained == \A i \in DOMAIN ledger : ledger[i].previous = i - 1

LockFree == lock = None

(* AuditLedger.append: the chain is verified and its tail read under the   *)
(* lock.                                                                   *)
TakeLock(r) ==
    /\ run[r].pc = "append"
    /\ LockFree /\ ~torn /\ Chained
    /\ lock' = r
    /\ run' = [run EXCEPT ![r].pc = "write", ![r].tail = Len(ledger)]
    /\ UNCHANGED <<papers, stop, work, ledger, torn>>

(* A ledger that does not verify, or a lock that is not released in time:  *)
(* the exception leaves the pool, which first waits for every thread.      *)
AppendFails(r) ==
    /\ run[r].pc = "append"
    /\ torn \/ ~Chained \/ lock # None
    /\ run' = [run EXCEPT ![r].pc = "failed"]
    /\ UNCHANGED <<papers, stop, work, records>>

(* What the main thread does after a record.                               *)
AfterRecord(event) == IF event = "finished" THEN "done" ELSE "wait"

Write(r) ==
    /\ run[r].pc = "write"
    /\ ledger' = Append(ledger, [run |-> r, event |-> run[r].event, previous |-> run[r].tail])
    /\ lock' = None
    /\ run' = [run EXCEPT ![r].pc = AfterRecord(run[r].event)]
    /\ UNCHANGED <<papers, stop, work, torn>>

(* as_completed: one record per finished check, whatever its status.       *)
Collect(r, t) ==
    /\ run[r].pc = "wait"
    /\ thread[r][t].pc \in {"completed", "failed"}
    /\ thread' = [thread EXCEPT ![r][t].pc = "recorded"]
    /\ run' = [run EXCEPT ![r].pc = "append", ![r].event = "check"]
    /\ UNCHANGED <<papers, stop, budget, late, records>>

Conclude(r) ==
    /\ run[r].pc = "wait"
    /\ \A t \in Plan[run[r].scope] : thread[r][t].pc = "recorded"
    /\ run' = [run EXCEPT ![r].pc = "append", ![r].event = "finished"]
    /\ UNCHANGED <<papers, stop, work, records>>

(* A run is killed; a record half written stays.                           *)
Kill(r) ==
    /\ run[r].pc \notin {"rest", "done", "killed"}
    /\ run' = [run EXCEPT ![r].pc = "killed"]
    /\ torn' \in {torn, torn \/ run[r].pc = "write"}
    /\ lock' = IF lock = r THEN None ELSE lock
    /\ UNCHANGED <<papers, stop, work, ledger>>
---------------------------------------------------------------------------
(* The pool works while the main thread appends, and after it has failed.  *)
Pool(r) ==
    \/ run[r].pc = "wait"
    \/ run[r].pc \in {"append", "write", "failed"} /\ run[r].event # "started"

Turn(r) == budget[r].inside = None

(* Slip: the STOP file is looked at when the engagement starts.            *)
RunningAtStart == TRUE

(* assert_running                                                          *)
Running == ~stop

(* consume_request: under the lock of the context the STOP file and the    *)
(* budget are looked at, and the thread waits for the rate limit ...       *)
Admit(r, t) ==
    /\ Pool(r) /\ thread[r][t].pc = "queued" /\ thread[r][t].left > 0
    /\ Turn(r)
    /\ IF Running /\ budget[r].used < MaxRequests
       THEN /\ budget' = [budget EXCEPT ![r].inside = t]
            /\ thread' = [thread EXCEPT ![r][t].pc = "wait"]
       ELSE /\ thread' = [thread EXCEPT ![r][t].pc = "failed"]
            /\ UNCHANGED budget
    /\ UNCHANGED <<papers, stop, run, late, records>>

(* ... and counts when the wait is over.  The request then succeeds or     *)
(* does not.  A check that raises loses what it had found.                 *)
Count(r, t) ==
    /\ Pool(r) /\ thread[r][t].pc = "wait"
    /\ budget' = [budget EXCEPT ![r].used = @ + 1, ![r].inside = None]
    /\ late' = [late EXCEPT ![r] = IF stop THEN @ + 1 ELSE @]
    /\ \E status \in {"queued", "failed"} :
        thread' = [thread EXCEPT ![r][t].pc = status, ![r][t].left = @ - 1]
    /\ UNCHANGED <<papers, stop, run, records>>

Done(r, t) ==
    /\ Pool(r) /\ thread[r][t].pc = "queued" /\ thread[r][t].left = 0
    /\ thread' = [thread EXCEPT ![r][t].pc = "completed"]
    /\ UNCHANGED <<papers, stop, run, budget, late, records>>

Next ==
    \/ \E s \in Scopes : Edit(s)
    \/ Sign \/ Reread \/ Replace \/ StopAll
    \/ \E r \in Runs :
        \/ \E s \in Scopes : Begin(r, s)
        \/ TakeLock(r) \/ AppendFails(r) \/ Write(r) \/ Conclude(r) \/ Kill(r)
        \/ \E t \in Tasks : run[r].scope # None /\ t \in Plan[run[r].scope] /\ (Collect(r, t) \/ Admit(r, t) \/ Count(r, t) \/ Done(r, t))

Spec == Init /\ [][Next]_vars
---------------------------------------------------------------------------
(* A run tests a scope somebody signed, although the file can be edited    *)
(* between the two reads of authorize and between authorize and run.       *)
RunsWhatWasSigned == \A r \in Runs : run[r].scope # None => run[r].scope \in signed

(* The threads of a run together stay inside its budget, and after STOP    *)
(* appears they count one more request at most, the one that is waiting    *)
(* for the rate limit, also when the main thread has failed and its pool   *)
(* goes on (consume_request, assert_running, run_engagement).              *)
RequestsBounded == \A r \in Runs : budget[r].used <= MaxRequests /\ late[r] <= 1
=============================================================================
