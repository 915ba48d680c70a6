---------------------------- MODULE EvidenceStore ----------------------------
(***************************************************************************)
(* Evidence of a workspace: a database row and an encrypted object on disk *)
(* for each upload, the verdict of the malware scanner, the engagement     *)
(* asset that is analyzed, and the sweep that removes what is past its     *)
(* retention.                                                              *)
(*                                                                         *)
(* The object and the row cannot change together.  An upload stores the    *)
(* object before its transaction commits, a sweep deletes the objects      *)
(* before its transaction commits, and a reader tests the row before it    *)
(* opens the object; each of them can fail in between.  An update writes   *)
(* only the columns that differ from what the request read.                *)
(***************************************************************************)
EXTENDS Integers, FiniteSets

CONSTANTS Ids,       \* storage keys, one upload each
          Procs,     \* requests that can be in flight at once
          Scanner,   \* EVIDENCE_SCANNER_MODE: "clamav" or "disabled"
          Days,      \* bound: the evidence_days a policy can ask for
          MaxTime,   \* bound: the clock stops here
          None

EvidenceAssumption ==
    /\ Scanner \in {"clamav", "disabled"}
    /\ Days \subseteq Nat
    /\ MaxTime \in Nat

VARIABLES now,      \* utcnow()
          policy,   \* the retention_policies row
          object,   \* the objects on disk
          row,      \* committed evidence rows, None when there is none
          asset,    \* analysis_status of the engagement asset of a row, None when there is none
          task,     \* status of the evidence.analyze task of an asset
          txn,      \* the request each process is serving
          judged,   \* history: what a scan or a reviewer has called clean
          served    \* history: what has been decrypted for a reader

data == <<row, asset, task>>
vars == <<now, policy, object, data, txn, judged, served>>

Idle == [op |-> "none", id |-> None, scan |-> "none", rows |-> {}, hold |-> FALSE, days |-> 0]

Init ==
    /\ now = 0
    /\ policy \in [days : Days, hold : BOOLEAN]
    /\ object = {}
    /\ row = [e \in Ids |-> None]
    /\ asset = [e \in Ids |-> None]
    /\ task = [e \in Ids |-> "none"]
    /\ txn = [p \in Procs |-> Idle]
    /\ judged = {}
    /\ served = {}

Begin(p, t) == txn[p] = Idle /\ txn' = [txn EXCEPT ![p] = t]
End(p) == txn' = [txn EXCEPT ![p] = Idle]

Tick == now < MaxTime /\ now' = now + 1 /\ UNCHANGED <<policy, object, data, txn, judged, served>>

(* set_retention: a new policy is for later uploads only.                  *)
SetRetention(days, hold) ==
    /\ policy' = [days |-> days, hold |-> hold]
    /\ UNCHANGED <<now, object, data, txn, judged, served>>
---------------------------------------------------------------------------
(* ClamAVScanner.scan_bytes: what clamd answered, as a verdict.  No answer *)
(* in time, an oversized one and one it does not recognize are all         *)
(* ScannerUnavailable.                                                     *)
Responses == {"OK", "FOUND", "timeout", "oversized", "garbled"}
Verdict(r) == CASE r = "OK" -> "clean" [] r = "FOUND" -> "rejected" [] OTHER -> "unavailable"

(* apply_evidence_scan at the ingress: disabled or unavailable leaves the  *)
(* upload quarantined.                                                     *)
IngressScan(r) ==
    IF Scanner = "disabled" \/ Verdict(r) = "unavailable" THEN "quarantined" ELSE Verdict(r)

AssetStatus(scan) == CASE scan = "clean" -> "ready" [] scan = "rejected" -> "rejected" [] OTHER -> "quarantined"

(* upload_evidence: EvidenceStore.put writes and renames the object.  The  *)
(* policy was read just before.                                            *)
UploadPut(p, e) ==
    /\ row[e] = None /\ e \notin object
    /\ \A q \in Procs : txn[q].id # e
    /\ Begin(p, [Idle EXCEPT !.op = "upload", !.id = e, !.hold = policy.hold, !.days = policy.days])
    /\ object' = object \cup {e}
    /\ UNCHANGED <<now, policy, data, judged, served>>

(* create_evidence: the row of a stored object, kept for the days and with *)
(* the hold the policy asked for.                                          *)
CreateEvidence(t, scan) == [scan |-> scan, hold |-> t.hold, until |-> now + t.days]

(* The row, the verdict and the asset are committed together.              *)
UploadCommit(p, r, attached) ==
    LET e == txn[p].id
        scan == IngressScan(r)
    IN  /\ txn[p].op = "upload"
        /\ row' = [row EXCEPT ![e] = CreateEvidence(txn[p], scan)]
        /\ asset' = [asset EXCEPT ![e] = IF attached THEN AssetStatus(scan) ELSE None]
        /\ judged' = IF scan = "clean" THEN judged \cup {e} ELSE judged
        /\ End(p)
        /\ UNCHANGED <<now, policy, object, task, served>>
---------------------------------------------------------------------------
(* record_scan reads the row and, with a scanner, the object, and only     *)
(* then waits for the verdict.                                             *)
ScanBegin(p, e) ==
    /\ row[e] # None
    /\ Scanner = "clamav" => e \in object
    /\ Begin(p, [Idle EXCEPT !.op = "scan", !.id = e, !.scan = row[e].scan])
    /\ UNCHANGED <<now, policy, object, data, judged, served>>

(* A verdict equal to what was read writes nothing to the row; a different *)
(* one is refused when the row is gone.  The asset is read after the       *)
(* verdict, so it is always written.                                       *)
ScanCommit(p, verdict) ==
    LET e == txn[p].id
        write == verdict # txn[p].scan
    IN  /\ txn[p].op = "scan"
        /\ verdict \in {"clean", "rejected"}
        /\ write => row[e] # None
        /\ row' = IF write THEN [row EXCEPT ![e].scan = verdict] ELSE row
        /\ asset' = IF asset[e] # None THEN [asset EXCEPT ![e] = AssetStatus(verdict)] ELSE asset
        /\ judged' = IF verdict = "clean" THEN judged \cup {e} ELSE judged
        /\ End(p)
        /\ UNCHANGED <<now, policy, object, task, served>>

(* An unavailable scanner: apply_evidence_scan sets "quarantined", the     *)
(* handler answers 503, and the exception rolls the assignment back.       *)
ScanUnavailable(p) ==
    /\ txn[p].op = "scan" /\ Scanner = "clamav"
    /\ End(p)
    /\ UNCHANGED <<now, policy, object, data, judged, served>>
---------------------------------------------------------------------------
(* analyze_engagement_asset queues a task for clean evidence.  Bound: one  *)
(* analysis of an asset at a time.                                         *)
Analyze(e) ==
    /\ asset[e] # None /\ row[e].scan = "clean"
    /\ task[e] \in {"none", "finished"}
    /\ task' = [task EXCEPT ![e] = "queued"]
    /\ asset' = [asset EXCEPT ![e] = "queued"]
    /\ UNCHANGED <<now, policy, object, row, txn, judged, served>>

LeaseAnalysis(e) ==
    /\ task[e] = "queued"
    /\ task' = [task EXCEPT ![e] = "running"]
    /\ UNCHANGED <<now, policy, object, row, asset, txn, judged, served>>

(* sync_asset_analysis_result: the asset takes the outcome of the task,    *)
(* whatever a scan has said in the meantime.                               *)
FinishAnalysis(e, status) ==
    /\ task[e] = "running"
    /\ task' = [task EXCEPT ![e] = "finished"]
    /\ asset' = IF asset[e] # None
                THEN [asset EXCEPT ![e] = IF status = "succeeded" THEN "completed" ELSE "failed"] ELSE asset
    /\ UNCHANGED <<now, policy, object, row, txn, judged, served>>

(* Slip: only a rejection closes the evidence.                             *)
MayDownloadUnlessRejected(e) == row[e] # None /\ row[e].scan # "rejected"

(* download_evidence for a person: the row has to be clean.                *)
MayDownload(e) == row[e] # None /\ row[e].scan = "clean"

(* connector_task_evidence: a running task of the asset, and a clean row.  *)
MayRead(e) == task[e] = "running" /\ asset[e] # None /\ row[e] # None /\ row[e].scan = "clean"

ReadBegin(p, e) ==
    /\ MayDownload(e) \/ MayRead(e)
    /\ Begin(p, [Idle EXCEPT !.op = "read", !.id = e])
    /\ UNCHANGED <<now, policy, object, data, judged, served>>

(* EvidenceStore.get: a missing object is an error, and nothing is sent.   *)
ReadObject(p) ==
    /\ txn[p].op = "read"
    /\ served' = IF txn[p].id \in object THEN served \cup {txn[p].id} ELSE served
    /\ End(p)
    /\ UNCHANGED <<now, policy, object, data, judged>>
---------------------------------------------------------------------------
(* Slip: the policy's hold is asked, not the row's.                        *)
SweepablePolicyHold == {e \in Ids : row[e] # None /\ ~policy.hold /\ row[e].until < now}

(* retention_sweep: the rows past retention_until that are not on hold.    *)
Sweepable == {e \in Ids : row[e] # None /\ ~row[e].hold /\ row[e].until < now}

SweepObjects(p) ==
    /\ Sweepable # {}
    /\ Begin(p, [Idle EXCEPT !.op = "sweep", !.rows = Sweepable])
    /\ object' = object \ Sweepable
    /\ UNCHANGED <<now, policy, data, judged, served>>

(* Deleting a row cascades to its asset.                                   *)
SweepCommit(p) ==
    /\ txn[p].op = "sweep"
    /\ row' = [e \in Ids |-> IF e \in txn[p].rows THEN None ELSE row[e]]
    /\ asset' = [e \in Ids |-> IF e \in txn[p].rows THEN None ELSE asset[e]]
    /\ End(p)
    /\ UNCHANGED <<now, policy, object, task, judged, served>>

(* A request fails after its effect on the disk: an audit number taken by  *)
(* another request, a lost connection, a killed process.  The rows are     *)
(* rolled back, the objects are not.                                       *)
Fail(p) ==
    /\ txn[p] # Idle
    /\ End(p)
    /\ UNCHANGED <<now, policy, object, data, judged, served>>
---------------------------------------------------------------------------
Next ==
    \/ Tick
    \/ \E days \in Days, hold \in BOOLEAN : SetRetention(days, hold)
    \/ \E e \in Ids :
        \/ Analyze(e) \/ LeaseAnalysis(e)
        \/ \E status \in {"succeeded", "failed"} : FinishAnalysis(e, status)
    \/ \E p \in Procs :
        \/ \E e \in Ids : UploadPut(p, e) \/ ScanBegin(p, e) \/ ReadBegin(p, e)
        \/ \E r \in Responses, attached \in BOOLEAN : UploadCommit(p, r, attached)
        \/ \E verdict \in {"clean", "rejected"} : ScanCommit(p, verdict)
        \/ ScanUnavailable(p) \/ ReadObject(p)
        \/ SweepObjects(p) \/ SweepCommit(p) \/ Fail(p)

Spec == Init /\ [][Next]_vars
---------------------------------------------------------------------------
TypeOK ==
    /\ object \subseteq Ids
    /\ \A e \in Ids : row[e] # None => row[e].scan \in {"quarantined", "clean", "rejected"}
    /\ \A e \in Ids : asset[e] \in {None, "quarantined", "ready", "rejected", "queued", "completed", "failed"}
    /\ \A e \in Ids : task[e] \in {"none", "queued", "running", "finished"}

(* Evidence that is on legal hold or still inside its retention can be     *)
(* read: its row never stands without its object, whichever uploads,       *)
(* sweeps and policy changes overlap or fail half way (create_evidence,    *)
(* retention_sweep).                                                       *)
RetainedIsReadable ==
    \A e \in Ids : row[e] # None /\ (row[e].hold \/ row[e].until >= now) => e \in object

(* No bytes leave the store that no scan and no reviewer ever called       *)
(* clean, although the row is tested before the object is opened and the   *)
(* scanner can be down at any point (download_evidence,                    *)
(* connector_task_evidence, apply_evidence_scan).                          *)
ServedWasClean == served \subseteq judged
=============================================================================
