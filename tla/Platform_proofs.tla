--------------------------- MODULE Platform_proofs ---------------------------
(***************************************************************************)
(* What the parts of the platform promise, for every set of uploads,       *)
(* reports, invitations, policies and requests in flight.                  *)
(***************************************************************************)
EXTENDS Platform, Work, FiniteSetTheorems, TLAPS

----------------------------------------------------------------------------
(* Evidence: types                                                         *)

EvidenceRow == [scan : {"quarantined", "clean", "rejected"}, hold : BOOLEAN, until : Nat]

EvidenceTxn ==
    [op : {"none", "upload", "scan", "read", "sweep"}, id : Ids \cup {None},
     scan : {"none", "quarantined", "clean", "rejected"}, rows : SUBSET Ids,
     hold : BOOLEAN, days : Nat]

EvidenceTypeOK ==
    /\ now \in Nat
    /\ policy \in [days : Nat, hold : BOOLEAN]
    /\ object \in SUBSET Ids
    /\ row \in [Ids -> EvidenceRow \cup {None}]
    /\ etxn \in [Procs -> EvidenceTxn]
    /\ \A p \in Procs : etxn[p].op \in {"upload", "scan", "read"} => etxn[p].id \in Ids

(* An upload under way has stored its object and no row yet, and no two of *)
(* them share a key; a row that must be readable has its object.           *)
Uploads ==
    /\ \A p \in Procs : etxn[p].op = "upload" =>
          etxn[p].id \in object /\ row[etxn[p].id] = None
    /\ \A p, q \in Procs : etxn[p].op = "upload" /\ etxn[q].op = "upload" /\ p # q =>
          etxn[p].id # etxn[q].id
    /\ RetainedIsReadable

(* What is clean, is being read or has been served was judged clean.       *)
Judged ==
    /\ \A e \in Ids : row[e] # None /\ row[e].scan = "clean" => e \in judged
    /\ \A p \in Procs : etxn[p].op = "read" => etxn[p].id \in judged
    /\ served \subseteq judged

EvidenceInv == EvidenceTypeOK /\ Uploads /\ Judged

LEMMA InitEvidence == E!Init => EvidenceInv
<1> SUFFICES ASSUME E!Init PROVE EvidenceInv
  OBVIOUS
<1> USE DEF E!Init
<1>1. E!Idle \in EvidenceTxn /\ E!Idle.op = "none"
  BY DEF E!Idle, EvidenceTxn
<1>2. EvidenceTypeOK
  BY <1>1, PlatformAssumption DEF EvidenceTypeOK, E!EvidenceAssumption
<1>3. Uploads
  BY <1>1 DEF Uploads, RetainedIsReadable, E!RetainedIsReadable
<1>4. Judged
  BY <1>1 DEF Judged
<1> QED
  BY <1>2, <1>3, <1>4 DEF EvidenceInv

(* What a request remembers while it is served.                            *)
LEMMA TxnBegins ==
    ASSUME etxn \in [Procs -> EvidenceTxn], NEW p \in Procs, NEW t \in EvidenceTxn, E!Begin(p, t)
    PROVE  /\ etxn' \in [Procs -> EvidenceTxn] /\ etxn[p] = E!Idle
           /\ \A q \in Procs : etxn'[q] = IF q = p THEN t ELSE etxn[q]
  BY DEF E!Begin

LEMMA TxnEnds ==
    ASSUME etxn \in [Procs -> EvidenceTxn], NEW p \in Procs, E!End(p)
    PROVE  /\ etxn' \in [Procs -> EvidenceTxn]
           /\ \A q \in Procs : etxn'[q] = IF q = p THEN E!Idle ELSE etxn[q]
           /\ E!Idle.op = "none"
<1>1. E!Idle \in EvidenceTxn /\ E!Idle.op = "none"
  BY DEF E!Idle, EvidenceTxn
<1> QED
  BY <1>1 DEF E!End

(* The requests that can begin.                                            *)
LEMMA EvidenceRequests ==
    ASSUME EvidenceTypeOK, NEW e \in Ids
    PROVE  /\ LET t == [E!Idle EXCEPT !.op = "upload", !.id = e, !.hold = policy.hold, !.days = policy.days]
              IN  t \in EvidenceTxn /\ t.op = "upload" /\ t.id = e
           /\ row[e] # None =>
                LET t == [E!Idle EXCEPT !.op = "scan", !.id = e, !.scan = row[e].scan]
                IN  t \in EvidenceTxn /\ t.op = "scan" /\ t.id = e
           /\ LET t == [E!Idle EXCEPT !.op = "read", !.id = e]
              IN  t \in EvidenceTxn /\ t.op = "read" /\ t.id = e
           /\ LET t == [E!Idle EXCEPT !.op = "sweep", !.rows = E!Sweepable]
              IN  t \in EvidenceTxn /\ t.op = "sweep"
<1>1. /\ policy.hold \in BOOLEAN /\ policy.days \in Nat
      /\ row[e] # None => row[e].scan \in {"quarantined", "clean", "rejected"}
  BY DEF EvidenceTypeOK, EvidenceRow
<1>2. E!Sweepable \in SUBSET Ids
  BY DEF E!Sweepable
<1>3. E!Idle = [op |-> "none", id |-> None, scan |-> "none", rows |-> {}, hold |-> FALSE, days |-> 0]
  BY DEF E!Idle
<1> QED
  BY <1>1, <1>2, <1>3 DEF EvidenceTxn

(* A request that begins leaves rows, verdicts and the clock alone.        *)
LEMMA EvidenceBegins ==
    ASSUME EvidenceInv, NEW p \in Procs, NEW t \in EvidenceTxn, E!Begin(p, t),
           t.op \in {"upload", "scan", "read", "sweep"},
           t.op \in {"upload", "scan", "read"} => t.id \in Ids,
           t.op = "upload" =>
              /\ row[t.id] = None /\ t.id \in object' /\ object \subseteq object'
              /\ \A q \in Procs : etxn[q].id # t.id,
           t.op = "read" => t.id \in judged,
           t.op # "upload" => object' = object \/ object' = object \ E!Sweepable,
           object' \in SUBSET Ids, UNCHANGED <<now, policy, row, judged, served>>
    PROVE  EvidenceInv'
<1> USE DEF EvidenceInv
<1>1. /\ etxn' \in [Procs -> EvidenceTxn] /\ etxn[p] = E!Idle
      /\ \A q \in Procs : etxn'[q] = IF q = p THEN t ELSE etxn[q]
  BY TxnBegins DEF EvidenceTypeOK
<1>2. EvidenceTypeOK'
  BY <1>1 DEF EvidenceTypeOK
<1>3. \A e \in Ids : row[e] = None /\ e \in object => e \in object'
  BY DEF E!Sweepable
<1>4. RetainedIsReadable'
  BY DEF Uploads, RetainedIsReadable, E!RetainedIsReadable, E!Sweepable, EvidenceTypeOK, EvidenceRow
<1>5. \A q \in Procs : etxn'[q].op = "upload" => etxn'[q].id \in object' /\ row'[etxn'[q].id] = None
  BY <1>1, <1>3 DEF Uploads, EvidenceTypeOK
<1>6. \A q, r \in Procs : etxn'[q].op = "upload" /\ etxn'[r].op = "upload" /\ q # r =>
          etxn'[q].id # etxn'[r].id
  BY <1>1 DEF Uploads
<1>7. Judged'
  BY <1>1 DEF Judged
<1> QED
  BY <1>2, <1>4, <1>5, <1>6, <1>7 DEF Uploads

(* A request that ends: what it writes has to keep the rows readable and   *)
(* what is clean judged.                                                   *)
LEMMA EvidenceEnds ==
    ASSUME EvidenceInv, NEW p \in Procs, E!End(p),
           row' \in [Ids -> EvidenceRow \cup {None}],
           \A e \in Ids : row[e] = None /\ row'[e] # None => etxn[p].op = "upload" /\ e = etxn[p].id,
           RetainedIsReadable', judged \subseteq judged',
           \A e \in Ids : row'[e] # None /\ row'[e].scan = "clean" => e \in judged',
           served' \subseteq judged',
           UNCHANGED <<now, policy, object>>
    PROVE  EvidenceInv'
<1> USE DEF EvidenceInv
<1>1. /\ etxn' \in [Procs -> EvidenceTxn] /\ E!Idle.op = "none"
      /\ \A q \in Procs : etxn'[q] = IF q = p THEN E!Idle ELSE etxn[q]
  BY TxnEnds DEF EvidenceTypeOK
<1>2. EvidenceTypeOK'
  BY <1>1 DEF EvidenceTypeOK
<1>3. \A q \in Procs : etxn'[q].op = "upload" => etxn'[q].id \in object' /\ row'[etxn'[q].id] = None
  BY <1>1 DEF Uploads, EvidenceTypeOK
<1>4. \A q, r \in Procs : etxn'[q].op = "upload" /\ etxn'[r].op = "upload" /\ q # r =>
          etxn'[q].id # etxn'[r].id
  BY <1>1 DEF Uploads
<1>5. Judged'
  BY <1>1 DEF Judged
<1> QED
  BY <1>2, <1>3, <1>4, <1>5 DEF Uploads

(* What a commit of an upload or of a verdict does to the rows.            *)
LEMMA UploadRow ==
    ASSUME EvidenceInv, NEW p \in Procs, NEW r \in E!Responses, NEW attached \in BOOLEAN,
           E!UploadCommit(p, r, attached)
    PROVE  /\ etxn[p].id \in Ids /\ row[etxn[p].id] = None
           /\ row' \in [Ids -> EvidenceRow \cup {None}]
           /\ row'[etxn[p].id].scan = "clean" => etxn[p].id \in judged'
           /\ \A e \in Ids : e # etxn[p].id => row'[e] = row[e]
<1> DEFINE x == E!CreateEvidence(etxn[p], E!IngressScan(r))
<1>1. /\ etxn[p] \in EvidenceTxn /\ etxn[p].id \in Ids /\ now \in Nat
      /\ row[etxn[p].id] = None /\ row \in [Ids -> EvidenceRow \cup {None}]
  BY DEF E!UploadCommit, EvidenceInv, EvidenceTypeOK, Uploads
<1>2. E!IngressScan(r) \in {"quarantined", "clean", "rejected"}
  BY DEF E!IngressScan, E!Verdict, E!Responses
<1>3. now + etxn[p].days \in Nat /\ etxn[p].hold \in BOOLEAN
  BY <1>1 DEF EvidenceTxn
<1>4. x \in EvidenceRow /\ x.scan = E!IngressScan(r)
  BY <1>2, <1>3 DEF E!CreateEvidence, EvidenceRow
<1>5. row' = [row EXCEPT ![etxn[p].id] = x]
  BY DEF E!UploadCommit
<1>6. E!IngressScan(r) = "clean" => etxn[p].id \in judged'
  BY DEF E!UploadCommit
<1> HIDE DEF x
<1> QED
  BY <1>1, <1>4, <1>5, <1>6

LEMMA VerdictRow ==
    ASSUME EvidenceInv, NEW p \in Procs, NEW verdict \in {"clean", "rejected"},
           E!ScanCommit(p, verdict)
    PROVE  /\ row' \in [Ids -> EvidenceRow \cup {None}]
           /\ \A e \in Ids : row[e] = None => row'[e] = None
           /\ \A e \in Ids : row[e] # None =>
                /\ row'[e] = row[e] \/ (e = etxn[p].id /\ row'[e].scan = verdict)
                /\ row'[e].hold = row[e].hold /\ row'[e].until = row[e].until
           /\ verdict = "clean" => etxn[p].id \in judged'
<1>1. /\ etxn[p].id \in Ids /\ row \in [Ids -> EvidenceRow \cup {None}]
  BY DEF E!ScanCommit, EvidenceInv, EvidenceTypeOK
<1>2. \/ row' = row
      \/ row[etxn[p].id] # None /\ row' = [row EXCEPT ![etxn[p].id].scan = verdict]
  BY DEF E!ScanCommit
<1>3. verdict = "clean" => etxn[p].id \in judged'
  BY DEF E!ScanCommit
<1>4. CASE row' = row
  BY <1>1, <1>3, <1>4
<1>5. CASE row[etxn[p].id] # None /\ row' = [row EXCEPT ![etxn[p].id].scan = verdict]
  <2> DEFINE x == [row[etxn[p].id] EXCEPT !.scan = verdict]
  <2>1. row[etxn[p].id] \in EvidenceRow
    BY <1>1, <1>5
  <2>2. /\ x \in EvidenceRow /\ x.scan = verdict
        /\ x.hold = row[etxn[p].id].hold /\ x.until = row[etxn[p].id].until
    BY <2>1 DEF EvidenceRow
  <2>3. row' = [row EXCEPT ![etxn[p].id] = x]
    BY <1>5
  <2> HIDE DEF x
  <2> QED
    BY <1>1, <1>3, <1>5, <2>2, <2>3
<1> QED
  BY <1>2, <1>4, <1>5

LEMMA NextEvidence == EvidenceInv /\ [E!Next]_E!vars => EvidenceInv'
<1> SUFFICES ASSUME EvidenceInv, [E!Next]_E!vars PROVE EvidenceInv'
  OBVIOUS
<1> USE DEF E!data
<1>1. CASE E!Tick
  BY <1>1 DEF E!Tick, EvidenceInv, EvidenceTypeOK, Uploads, Judged, RetainedIsReadable,
              E!RetainedIsReadable, EvidenceRow
<1>2. ASSUME NEW days \in Days, NEW hold \in BOOLEAN, E!SetRetention(days, hold)
      PROVE  EvidenceInv'
  <2>1. policy' \in [days : Nat, hold : BOOLEAN]
    BY <1>2, PlatformAssumption DEF E!SetRetention, E!EvidenceAssumption
  <2> QED
    BY <1>2, <2>1 DEF E!SetRetention, EvidenceInv, EvidenceTypeOK, Uploads, Judged,
                      RetainedIsReadable, E!RetainedIsReadable
<1>3. ASSUME NEW e \in Ids, NEW status \in {"succeeded", "failed"},
             E!Analyze(e) \/ E!LeaseAnalysis(e) \/ E!FinishAnalysis(e, status)
      PROVE  EvidenceInv'
  BY <1>3 DEF E!Analyze, E!LeaseAnalysis, E!FinishAnalysis, EvidenceInv, EvidenceTypeOK, Uploads,
              Judged, RetainedIsReadable, E!RetainedIsReadable
<1>4. ASSUME NEW p \in Procs, NEW e \in Ids, E!UploadPut(p, e) PROVE EvidenceInv'
  <2> DEFINE t == [E!Idle EXCEPT !.op = "upload", !.id = e, !.hold = policy.hold, !.days = policy.days]
  <2>1. t \in EvidenceTxn /\ t.op = "upload" /\ t.id = e
    BY EvidenceRequests DEF EvidenceInv
  <2>2. /\ row[e] = None /\ \A q \in Procs : etxn[q].id # e
        /\ E!Begin(p, t) /\ object' = object \cup {e}
        /\ UNCHANGED <<now, policy, row, judged, served>>
    BY <1>4 DEF E!UploadPut
  <2>3. object' \in SUBSET Ids
    BY <2>2 DEF EvidenceInv, EvidenceTypeOK
  <2> HIDE DEF t
  <2> QED
    BY <2>1, <2>2, <2>3, EvidenceBegins
<1>5. ASSUME NEW p \in Procs, NEW e \in Ids, E!ScanBegin(p, e) PROVE EvidenceInv'
  <2> DEFINE t == [E!Idle EXCEPT !.op = "scan", !.id = e, !.scan = row[e].scan]
  <2>1. t \in EvidenceTxn /\ t.op = "scan" /\ t.id = e
    BY <1>5, EvidenceRequests DEF EvidenceInv, E!ScanBegin
  <2>2. E!Begin(p, t) /\ UNCHANGED <<now, policy, object, row, judged, served>>
    BY <1>5 DEF E!ScanBegin
  <2>3. object' \in SUBSET Ids
    BY <2>2 DEF EvidenceInv, EvidenceTypeOK
  <2> HIDE DEF t
  <2> QED
    BY <2>1, <2>2, <2>3, EvidenceBegins
<1>6. ASSUME NEW p \in Procs, NEW e \in Ids, E!ReadBegin(p, e) PROVE EvidenceInv'
  <2> DEFINE t == [E!Idle EXCEPT !.op = "read", !.id = e]
  <2>1. t \in EvidenceTxn /\ t.op = "read" /\ t.id = e
    BY EvidenceRequests DEF EvidenceInv
  <2>2. E!Begin(p, t) /\ UNCHANGED <<now, policy, object, row, judged, served>>
    BY <1>6 DEF E!ReadBegin
  <2>3. e \in judged /\ object' \in SUBSET Ids
    BY <1>6, <2>2 DEF EvidenceInv, EvidenceTypeOK, Judged, E!ReadBegin, E!MayDownload, E!MayRead
  <2> HIDE DEF t
  <2> QED
    BY <2>1, <2>2, <2>3, EvidenceBegins
<1>7. ASSUME NEW p \in Procs, E!SweepObjects(p) PROVE EvidenceInv'
  <2> DEFINE t == [E!Idle EXCEPT !.op = "sweep", !.rows = E!Sweepable]
  <2>1. t \in EvidenceTxn /\ t.op = "sweep"
    <3>1. PICK e \in Ids : TRUE
      BY <1>7 DEF E!SweepObjects, E!Sweepable
    <3> QED
      BY <3>1, EvidenceRequests DEF EvidenceInv
  <2>2. /\ E!Begin(p, t) /\ object' = object \ E!Sweepable
        /\ UNCHANGED <<now, policy, row, judged, served>>
    BY <1>7 DEF E!SweepObjects
  <2>3. object' \in SUBSET Ids
    BY <2>2 DEF EvidenceInv, EvidenceTypeOK
  <2> HIDE DEF t
  <2> QED
    BY <2>1, <2>2, <2>3, EvidenceBegins
<1>8. ASSUME NEW p \in Procs, NEW r \in E!Responses, NEW attached \in BOOLEAN,
             E!UploadCommit(p, r, attached)
      PROVE  EvidenceInv'
  <2>1. /\ etxn[p].op = "upload" /\ E!End(p) /\ judged \subseteq judged'
        /\ UNCHANGED <<now, policy, object, served>>
    BY <1>8 DEF E!UploadCommit
  <2>2. etxn[p].id \in object
    BY <2>1 DEF EvidenceInv, Uploads
  <2>3. RetainedIsReadable'
    BY <1>8, <2>1, <2>2, UploadRow DEF EvidenceInv, Uploads, RetainedIsReadable, E!RetainedIsReadable
  <2>4. \A e \in Ids : row'[e] # None /\ row'[e].scan = "clean" => e \in judged'
    BY <1>8, <2>1, UploadRow DEF EvidenceInv, Judged
  <2>5. served' \subseteq judged'
    BY <2>1 DEF EvidenceInv, Judged
  <2> QED
    BY <1>8, <2>1, <2>3, <2>4, <2>5, UploadRow, EvidenceEnds
<1>9. ASSUME NEW p \in Procs, NEW verdict \in {"clean", "rejected"}, E!ScanCommit(p, verdict)
      PROVE  EvidenceInv'
  <2>1. E!End(p) /\ judged \subseteq judged' /\ UNCHANGED <<now, policy, object, served>>
    BY <1>9 DEF E!ScanCommit
  <2>2. RetainedIsReadable'
    BY <1>9, <2>1, VerdictRow DEF EvidenceInv, Uploads, RetainedIsReadable, E!RetainedIsReadable
  <2>3. \A e \in Ids : row'[e] # None /\ row'[e].scan = "clean" => e \in judged'
    BY <1>9, <2>1, VerdictRow DEF EvidenceInv, Judged
  <2>4. served' \subseteq judged'
    BY <2>1 DEF EvidenceInv, Judged
  <2> QED
    BY <1>9, <2>1, <2>2, <2>3, <2>4, VerdictRow, EvidenceEnds
<1>10. ASSUME NEW p \in Procs, E!ScanUnavailable(p) \/ E!Fail(p) \/ E!ReadObject(p)
       PROVE  EvidenceInv'
  <2>1. E!End(p) /\ UNCHANGED <<now, policy, object, row, judged>>
    BY <1>10 DEF E!ScanUnavailable, E!Fail, E!ReadObject
  <2>2. served' \subseteq judged'
    BY <1>10 DEF E!ScanUnavailable, E!Fail, E!ReadObject, EvidenceInv, Judged
  <2>3. RetainedIsReadable' /\ row' \in [Ids -> EvidenceRow \cup {None}]
    BY <2>1 DEF EvidenceInv, EvidenceTypeOK, Uploads, RetainedIsReadable, E!RetainedIsReadable
  <2>4. \A e \in Ids : row'[e] # None /\ row'[e].scan = "clean" => e \in judged'
    BY <2>1 DEF EvidenceInv, Judged
  <2> QED
    BY <2>1, <2>2, <2>3, <2>4, EvidenceEnds
<1>11. ASSUME NEW p \in Procs, E!SweepCommit(p) PROVE EvidenceInv'
  <2>1. E!End(p) /\ UNCHANGED <<now, policy, object, judged, served>>
    BY <1>11 DEF E!SweepCommit
  <2>2. /\ row' \in [Ids -> EvidenceRow \cup {None}]
        /\ \A e \in Ids : row'[e] # None => row'[e] = row[e]
    BY <1>11 DEF E!SweepCommit, EvidenceInv, EvidenceTypeOK
  <2>3. RetainedIsReadable'
    BY <2>1, <2>2 DEF EvidenceInv, Uploads, RetainedIsReadable, E!RetainedIsReadable
  <2>4. /\ \A e \in Ids : row'[e] # None /\ row'[e].scan = "clean" => e \in judged'
        /\ served' \subseteq judged'
    BY <2>1, <2>2 DEF EvidenceInv, Judged
  <2> QED
    BY <2>1, <2>2, <2>3, <2>4, EvidenceEnds
<1>12. CASE UNCHANGED E!vars
  BY <1>12 DEF E!vars, EvidenceInv, EvidenceTypeOK, Uploads, Judged, RetainedIsReadable,
               E!RetainedIsReadable
<1> QED
  BY <1>1, <1>2, <1>3, <1>4, <1>5, <1>6, <1>7, <1>8, <1>9, <1>10, <1>11, <1>12 DEF E!Next

LEMMA EvidenceSafe == E!Spec => []EvidenceInv
  BY InitEvidence, NextEvidence, PTL DEF E!Spec

(* What is on legal hold or still inside its retention can be read: its    *)
(* row never stands without its object, whichever uploads, sweeps and      *)
(* policy changes overlap or fail half way (create_evidence,               *)
(* retention_sweep).                                                       *)
THEOREM EvidenceRetained == E!Spec => []RetainedIsReadable
<1>1. EvidenceInv => RetainedIsReadable
  BY DEF EvidenceInv, Uploads
<1> QED
  BY <1>1, EvidenceSafe, PTL

(* No bytes leave the store that no scan and no reviewer ever called clean *)
(* (download_evidence, connector_task_evidence, apply_evidence_scan).      *)
THEOREM EvidenceServed == E!Spec => []ServedWasClean
<1>1. EvidenceInv => ServedWasClean
  BY DEF EvidenceInv, Judged, ServedWasClean, E!ServedWasClean
<1> QED
  BY <1>1, EvidenceSafe, PTL
----------------------------------------------------------------------------
(* Reports                                                                 *)

Status == {"open", "acknowledged", "resolved"}

(* What carries a prohibited label is acted on as asked, and flagged.      *)
Honest(v) == v.sensitive => v.action = v.asked /\ v.flagged

(* What is judged and not yet stored is an honest verdict, and so is what  *)
(* is stored; what was flagged is on record as a violation.                *)
Verdicts ==
    /\ rules \in R!Policy
    /\ usage \in [Keys -> R!Verdict \cup {None}]
    /\ violation \in [Keys -> Status \cup {None}]
    /\ rtxn = [p \in Procs |-> rtxn[p]]
    /\ \A p \in Procs : rtxn[p].op = "usage" => rtxn[p].verdict \in R!Verdict /\ Honest(rtxn[p].verdict)
    /\ \A k \in Keys : usage[k] # None => Honest(usage[k]) /\ (usage[k].flagged => violation[k] # None)

(* A key counts when its row is stored, and rows are never deleted.        *)
Stored == accepted = [k \in Keys |-> IF usage[k] = None THEN 0 ELSE 1]

ReportInv == Verdicts /\ Stored

LEMMA ReportConstants ==
    /\ Policies \subseteq R!Policy
    /\ None \notin R!Verdict /\ None \notin Status
  BY PlatformAssumption DEF R!ReportAssumption, Status

(* What a verdict is, whatever policy it was given under.                  *)
LEMMA JudgeIsHonest ==
    ASSUME NEW pol \in R!Policy, NEW disposition, NEW d, NEW sensitive \in BOOLEAN
    PROVE  LET v == R!Judge(pol, disposition, d, sensitive) IN v \in R!Verdict /\ Honest(v)
<1> DEFINE rule == R!Rule(pol, disposition, d, sensitive)
           v == R!Judge(pol, disposition, d, sensitive)
<1>1. pol.default \in R!Reactions /\ pol.sensitive \in R!Reactions
  BY DEF R!Policy
<1>2. sensitive => rule = "sensitive-data"
  BY DEF R!Rule
<1>3. R!Action(pol, rule) \in R!Reactions /\ (sensitive => R!Action(pol, rule) = pol.sensitive)
  BY <1>1, <1>2 DEF R!Action, R!Reactions
<1>4. v = [action |-> R!Action(pol, rule), sensitive |-> sensitive, asked |-> pol.sensitive,
           flagged |-> rule # "approved-usage" /\ (disposition # "approved" \/ sensitive)]
  BY DEF R!Judge
<1> HIDE DEF rule
<1>5. v \in R!Verdict
  BY <1>1, <1>3, <1>4 DEF R!Verdict
<1> HIDE DEF v
<1>6. v.flagged = (rule # "approved-usage" /\ (disposition # "approved" \/ sensitive))
  BY <1>4
<1>7. v.sensitive = sensitive /\ v.asked = pol.sensitive /\ v.action = R!Action(pol, rule)
  BY <1>4
<1>8. v.sensitive => v.flagged /\ v.action = v.asked
  BY <1>2, <1>3, <1>6, <1>7
<1> QED
  BY <1>5, <1>8 DEF Honest, v

LEMMA InitReports == R!Init => ReportInv
  BY ReportConstants DEF R!Init, R!Idle, ReportInv, Verdicts, Stored

(* A request that begins or ends and stores no usage.                      *)
LEMMA ReportSteps ==
    ASSUME ReportInv, NEW p \in Procs, NEW t, rtxn' = [rtxn EXCEPT ![p] = t],
           t.op = "usage" => t.verdict \in R!Verdict /\ Honest(t.verdict),
           UNCHANGED <<rules, usage, violation, accepted>>
    PROVE  ReportInv'
<1>1. /\ rtxn' = [q \in Procs |-> rtxn'[q]]
      /\ \A q \in Procs : rtxn'[q] = IF q = p THEN t ELSE rtxn[q]
  BY DEF ReportInv, Verdicts
<1>2. \A q \in Procs : rtxn'[q].op = "usage" => rtxn'[q].verdict \in R!Verdict /\ Honest(rtxn'[q].verdict)
  BY <1>1 DEF ReportInv, Verdicts
<1> QED
  BY <1>1, <1>2 DEF ReportInv, Verdicts, Stored, Honest

(* A batch is stored: its new keys are fresh, they share one verdict, and  *)
(* a violation is opened for each of them if it was flagged.               *)
LEMMA UsageStored ==
    ASSUME ReportInv, NEW p \in Procs, R!UsageCommit(p)
    PROVE  LET new == R!BatchKeys(rtxn[p]) \ rtxn[p].seen
           IN  /\ \A k \in Keys : /\ k \in new => usage[k] = None
                                  /\ usage'[k] = IF k \in new THEN rtxn[p].verdict ELSE usage[k]
                                  /\ k \in new => usage'[k] # None
                                  /\ accepted'[k] = accepted[k] + (IF k \in new THEN 1 ELSE 0)
               /\ accepted' = [k \in Keys |-> accepted'[k]]
               /\ ReportInv'
<1> DEFINE t == rtxn[p]
           new == R!BatchKeys(t) \ t.seen
<1>1. t.verdict \in R!Verdict /\ Honest(t.verdict) /\ t.verdict # None
  BY ReportConstants DEF ReportInv, Verdicts, R!UsageCommit
<1>2. \A k \in new : usage[k] = None
  BY DEF R!UsageCommit, R!UsageKeysFree
<1>3. /\ usage' = [k \in Keys |-> IF k \in new THEN t.verdict ELSE usage[k]]
      /\ violation' = [k \in Keys |-> IF k \in new /\ t.verdict.flagged THEN "open" ELSE violation[k]]
      /\ accepted' = [k \in Keys |-> accepted[k] + (IF k \in new THEN 1 ELSE 0)]
      /\ rtxn' = [rtxn EXCEPT ![p] = R!Idle] /\ rules' = rules
  BY DEF R!UsageCommit
<1> HIDE DEF new
<1>4. /\ rtxn' = [q \in Procs |-> rtxn'[q]]
      /\ \A q \in Procs : rtxn'[q] = IF q = p THEN R!Idle ELSE rtxn[q]
      /\ R!Idle.op = "none"
  BY <1>3 DEF ReportInv, Verdicts, R!Idle
<1>5. usage' \in [Keys -> R!Verdict \cup {None}] /\ violation' \in [Keys -> Status \cup {None}]
  BY <1>1, <1>3 DEF ReportInv, Verdicts, Status
<1>6. \A q \in Procs : rtxn'[q].op = "usage" => rtxn'[q].verdict \in R!Verdict /\ Honest(rtxn'[q].verdict)
  BY <1>4 DEF ReportInv, Verdicts
<1>7. ASSUME NEW k \in Keys, usage'[k] # None
      PROVE  Honest(usage'[k]) /\ (usage'[k].flagged => violation'[k] # None)
  <2>1. CASE k \in new
    BY <1>1, <1>3, <2>1, ReportConstants DEF Status
  <2>2. CASE k \notin new
    BY <1>3, <1>7, <2>2 DEF ReportInv, Verdicts
  <2> QED
    BY <2>1, <2>2
<1>8. Verdicts'
  BY <1>3, <1>4, <1>5, <1>6, <1>7 DEF ReportInv, Verdicts, Honest
<1>9. \A k \in Keys : accepted'[k] = IF usage'[k] = None THEN 0 ELSE 1
  BY <1>1, <1>2, <1>3 DEF ReportInv, Stored
<1>10. Stored'
  BY <1>3, <1>9 DEF Stored
<1> QED
  BY <1>1, <1>2, <1>3, <1>8, <1>10 DEF ReportInv, new

LEMMA NextReports == ReportInv /\ [R!Next]_R!vars => ReportInv'
<1> SUFFICES ASSUME ReportInv, [R!Next]_R!vars PROVE ReportInv'
  OBVIOUS
<1>1. ASSUME NEW new \in Policies, R!UpdatePolicy(new) PROVE ReportInv'
  BY <1>1, ReportConstants DEF R!UpdatePolicy, ReportInv, Verdicts, Stored, Honest
<1>2. ASSUME NEW a \in Assets, NEW disposition, R!DecideAsset(a, disposition) PROVE ReportInv'
  BY <1>2 DEF R!DecideAsset, ReportInv, Verdicts, Stored, Honest
<1>3. ASSUME NEW k \in Keys, NEW status \in {"acknowledged", "resolved"}, R!DecideViolation(k, status)
      PROVE  ReportInv'
  <2>1. /\ violation' \in [Keys -> Status \cup {None}]
        /\ \A j \in Keys : violation[j] # None => violation'[j] # None
    BY <1>3, ReportConstants DEF R!DecideViolation, ReportInv, Verdicts, Status
  <2> QED
    BY <1>3, <2>1 DEF R!DecideViolation, ReportInv, Verdicts, Stored, Honest
<1>4. ASSUME NEW k \in Keys, R!SweepTelemetry(k) PROVE ReportInv'
  BY <1>4 DEF R!SweepTelemetry, ReportInv, Verdicts, Stored, Honest
<1>5. ASSUME NEW p \in Procs, NEW a \in Assets, NEW vendor \in BOOLEAN, NEW d, R!AssetsBegin(p, a, vendor, d)
      PROVE  ReportInv'
  <2> DEFINE t == [R!Idle EXCEPT !.op = "assets", !.asset = a, !.read = aiasset[a],
                                 !.verdict = R!AssetDisposition(rules, vendor, d)]
  <2>1. t.op = "assets"
    BY DEF R!Idle
  <2>2. rtxn' = [rtxn EXCEPT ![p] = t] /\ UNCHANGED <<rules, usage, violation, accepted>>
    BY <1>5 DEF R!AssetsBegin
  <2> HIDE DEF t
  <2> QED
    BY <2>1, <2>2, ReportSteps
<1>6. ASSUME NEW p \in Procs, NEW batch, NEW a \in Assets, NEW d \in Domains, NEW sensitive \in BOOLEAN,
             R!UsageBegin(p, batch, a, d, sensitive)
      PROVE  ReportInv'
  <2> DEFINE v == R!Judge(rules, aiasset[a], d, sensitive)
             t == [R!Idle EXCEPT !.op = "usage", !.batch = batch, !.verdict = v,
                                 !.seen = {k \in Keys : usage[k] # None}]
  <2>1. v \in R!Verdict /\ Honest(v)
    BY JudgeIsHonest DEF ReportInv, Verdicts
  <2>2. rtxn' = [rtxn EXCEPT ![p] = t] /\ UNCHANGED <<rules, usage, violation, accepted>>
    BY <1>6 DEF R!UsageBegin
  <2> HIDE DEF v
  <2>3. t.verdict = v
    BY DEF R!Idle
  <2> HIDE DEF t
  <2> QED
    BY <2>1, <2>2, <2>3, ReportSteps
<1>7. ASSUME NEW p \in Procs, NEW batch, R!EventsBegin(p, batch) PROVE ReportInv'
  <2> DEFINE t == [R!Idle EXCEPT !.op = "events", !.batch = batch, !.seen = telemetry]
  <2>1. t.op = "events"
    BY DEF R!Idle
  <2>2. rtxn' = [rtxn EXCEPT ![p] = t] /\ UNCHANGED <<rules, usage, violation, accepted>>
    BY <1>7 DEF R!EventsBegin
  <2> HIDE DEF t
  <2> QED
    BY <2>1, <2>2, ReportSteps
<1>8. ASSUME NEW p \in Procs, R!AssetsCommit(p) \/ R!EventsCommit(p) \/ R!Refuse(p) PROVE ReportInv'
  <2>1. R!Idle.op = "none"
    BY DEF R!Idle
  <2>2. rtxn' = [rtxn EXCEPT ![p] = R!Idle] /\ UNCHANGED <<rules, usage, violation, accepted>>
    BY <1>8 DEF R!AssetsCommit, R!EventsCommit, R!Refuse
  <2> QED
    BY <2>1, <2>2, ReportSteps
<1>9. ASSUME NEW p \in Procs, R!UsageCommit(p) PROVE ReportInv'
  BY <1>9, UsageStored
<1>10. CASE UNCHANGED R!vars
  BY <1>10 DEF R!vars, ReportInv, Verdicts, Stored, Honest
<1> QED
  BY <1>1, <1>2, <1>3, <1>4, <1>5, <1>6, <1>7, <1>8, <1>9, <1>10 DEF R!Next

LEMMA ReportsSafe == R!Spec => []ReportInv
  BY InitReports, NextReports, PTL DEF R!Spec

(* Usage that carries a prohibited label is acted on as its policy says    *)
(* for sensitive data and is on record as a violation, whatever batches,   *)
(* decisions and changes of policy overlap (ingest_usage).                 *)
THEOREM SensitiveFlagged == R!Spec => []SensitiveUseFlagged
<1>1. ReportInv => SensitiveUseFlagged
  BY DEF ReportInv, Verdicts, Honest, SensitiveUseFlagged, R!SensitiveUseFlagged
<1> QED
  BY <1>1, ReportsSafe, PTL

(* A usage report counts once, however often it is sent and with whatever  *)
(* other batch it overlaps: the reports implement SingleUse (ingest_usage).*)
THEOREM UsageCounted == R!Spec => UsageCountedOnce
<1>1. R!Init => R!Once!Init
  BY DEF R!Init, R!Once!Init
<1>2. ASSUME ReportInv, [R!Next]_R!vars PROVE [R!Once!Next]_accepted
  <2>1. ASSUME NEW p \in Procs, R!UsageCommit(p) PROVE R!Once!Next
    <3> DEFINE new == R!BatchKeys(rtxn[p]) \ rtxn[p].seen
               S == Keys \cap new
    <3>1. /\ \A k \in Keys : /\ k \in new => usage[k] = None
                             /\ accepted'[k] = accepted[k] + (IF k \in new THEN 1 ELSE 0)
          /\ accepted' = [k \in Keys |-> accepted'[k]]
      BY <1>2, <2>1, UsageStored
    <3> HIDE DEF new
    <3>2. \A k \in Keys : accepted[k] \in {0, 1} /\ (usage[k] = None => accepted[k] = 0)
      BY <1>2 DEF ReportInv, Stored
    <3>3. \A k \in Keys : accepted'[k] = IF k \in S THEN 1 ELSE accepted[k]
      BY <3>1, <3>2
    <3>4. R!Once!Spend(S)
      BY <3>1, <3>2, <3>3 DEF R!Once!Spend
    <3> QED
      BY <3>4 DEF R!Once!Next
  <2>2. (\A p \in Procs : ~R!UsageCommit(p)) => UNCHANGED accepted
    BY <1>2 DEF R!Next, R!vars, R!UpdatePolicy, R!DecideAsset, R!DecideViolation, R!SweepTelemetry,
                R!AssetsBegin, R!UsageBegin, R!EventsBegin, R!AssetsCommit, R!EventsCommit, R!Refuse
  <2> QED
    BY <2>1, <2>2
<1>3. ReportInv /\ [R!Next]_R!vars => [R!Once!Next]_accepted
  BY <1>2
<1> QED
  BY <1>1, <1>3, ReportsSafe, PTL DEF R!Spec, UsageCountedOnce, R!UsageCountedOnce, R!Once!Spec
----------------------------------------------------------------------------
(* Membership                                                              *)

(* Whoever is accepting an invitation has it to himself, and it is still   *)
(* pending; what was accepted was accepted once.                           *)
Acceptances ==
    /\ clock \in Nat
    /\ invitation \in [Invitations -> M!Invitation \cup {None}]
    /\ mtxn = [p \in Procs |-> mtxn[p]]
    /\ \A p \in Procs : mtxn[p] # M!Idle =>
          /\ mtxn[p].id \in Invitations
          /\ invitation[mtxn[p].id] # None /\ invitation[mtxn[p].id].status = "pending"
    /\ \A p, q \in Procs : mtxn[p] # M!Idle /\ mtxn[q] # M!Idle /\ p # q => mtxn[p].id # mtxn[q].id

IsAccepted(i) == invitation[i] # None /\ invitation[i].status = "accepted"

MembershipInv == Acceptances /\ admitted = [i \in Invitations |-> IF IsAccepted(i) THEN 1 ELSE 0]

LEMMA InitMembership == M!Init => MembershipInv
  BY DEF M!Init, MembershipInv, Acceptances, IsAccepted

LEMMA MembershipConstants ==
    /\ None \notin M!Invitation /\ Hours \subseteq Nat
    /\ \A v \in M!Invitation : [v EXCEPT !.status = "accepted"] \in M!Invitation
  BY PlatformAssumption DEF M!MembershipAssumption, M!Invitation

(* A new invitation is pending, whoever it is for.                         *)
LEMMA InvitationCreated ==
    ASSUME MembershipInv, NEW by \in Emails, NEW i \in Invitations, NEW e \in Emails,
           NEW role \in M!Roles, NEW hours \in Hours, M!CreateInvitation(by, i, e, role, hours)
    PROVE  MembershipInv'
<1> DEFINE new == [email |-> e, role |-> role, status |-> "pending", expires |-> clock + hours]
<1> USE DEF MembershipInv, Acceptances
<1>1. clock + hours \in Nat
  BY MembershipConstants
<1>2. new \in M!Invitation /\ new # None /\ new.status = "pending"
  BY <1>1, MembershipConstants DEF M!Invitation
<1>3. invitation[i] = None /\ invitation' = [invitation EXCEPT ![i] = new]
      /\ UNCHANGED <<clock, mtxn, admitted>>
  BY DEF M!CreateInvitation
<1> HIDE DEF new
<1>4. /\ invitation' \in [Invitations -> M!Invitation \cup {None}]
      /\ \A j \in Invitations : invitation'[j] = IF j = i THEN new ELSE invitation[j]
  BY <1>2, <1>3
<1>5. \A j \in Invitations : IsAccepted(j)' = IsAccepted(j)
  BY <1>2, <1>3, <1>4 DEF IsAccepted
<1>6. Acceptances'
  BY <1>2, <1>3, <1>4
<1> QED
  BY <1>3, <1>5, <1>6

(* A request that accepts: it takes the row nobody else holds.             *)
LEMMA AcceptanceBegins ==
    ASSUME MembershipInv, NEW p \in Procs, NEW i \in Invitations, NEW e \in Emails, M!AcceptBegin(p, i, e)
    PROVE  MembershipInv'
<1> DEFINE t == [id |-> i, email |-> e]
<1> USE DEF MembershipInv, Acceptances
<1>1. /\ \A q \in Procs : mtxn[q].id # i
      /\ invitation[i] # None /\ invitation[i].status = "pending"
      /\ mtxn' = [mtxn EXCEPT ![p] = t] /\ t.id = i
      /\ UNCHANGED <<clock, invitation, admitted>>
  BY DEF M!AcceptBegin, M!Locked
<1> HIDE DEF t
<1>2. /\ mtxn' = [q \in Procs |-> mtxn'[q]]
      /\ \A q \in Procs : mtxn'[q] = IF q = p THEN t ELSE mtxn[q]
  BY <1>1
<1>3. Acceptances'
  BY <1>1, <1>2
<1> QED
  BY <1>1, <1>3 DEF IsAccepted

(* A request that ends, whatever it did to the invitation it held.         *)
LEMMA AcceptanceEnds ==
    ASSUME MembershipInv, NEW p \in Procs, mtxn[p] # M!Idle, mtxn' = [mtxn EXCEPT ![p] = M!Idle],
           clock' = clock, invitation' \in [Invitations -> M!Invitation \cup {None}],
           \A i \in Invitations \ {mtxn[p].id} : invitation'[i] = invitation[i]
    PROVE  Acceptances'
<1> USE DEF MembershipInv, Acceptances
<1>1. /\ mtxn' = [q \in Procs |-> mtxn'[q]]
      /\ \A q \in Procs : mtxn'[q] = IF q = p THEN M!Idle ELSE mtxn[q]
  OBVIOUS
<1>2. \A q \in Procs : mtxn'[q] # M!Idle => q # p /\ mtxn'[q] = mtxn[q] /\ mtxn[q].id # mtxn[p].id
  BY <1>1
<1> QED
  BY <1>1, <1>2

(* The invitation that is accepted was not before, and no other changes.   *)
LEMMA AcceptanceCommits ==
    ASSUME MembershipInv, NEW p \in Procs, M!AcceptCommit(p)
    PROVE  LET i == mtxn[p].id
           IN  /\ i \in Invitations /\ admitted[i] = 0
               /\ admitted' = [admitted EXCEPT ![i] = 1]
               /\ MembershipInv'
<1> DEFINE i == mtxn[p].id
<1> USE DEF MembershipInv
<1>1. /\ i \in Invitations /\ invitation[i] # None /\ invitation[i].status = "pending"
      /\ mtxn[p] # M!Idle
  BY DEF M!AcceptCommit, Acceptances
<1>2. /\ invitation' = [invitation EXCEPT ![i].status = "accepted"]
      /\ admitted' = [admitted EXCEPT ![i] = @ + 1]
      /\ mtxn' = [mtxn EXCEPT ![p] = M!Idle] /\ UNCHANGED clock
  BY DEF M!AcceptCommit
<1> HIDE DEF i
<1>3. admitted[i] = 0 /\ admitted' = [admitted EXCEPT ![i] = 1]
  <2>1. ~IsAccepted(i)
    BY <1>1 DEF IsAccepted
  <2>2. admitted[i] = 0
    BY <1>1, <2>1
  <2>3. admitted[i] + 1 = 1 /\ admitted' = [admitted EXCEPT ![i] = admitted[i] + 1]
    BY <1>2, <2>2
  <2> QED
    BY <2>2, <2>3
<1>4. [invitation[i] EXCEPT !.status = "accepted"] \in M!Invitation
  BY <1>1, MembershipConstants DEF Acceptances
<1>5. /\ invitation' \in [Invitations -> M!Invitation \cup {None}]
      /\ invitation'[i] \in M!Invitation
      /\ \A j \in Invitations \ {i} : invitation'[j] = invitation[j]
  BY <1>1, <1>2, <1>4 DEF Acceptances
<1>6. invitation'[i].status = "accepted"
  BY <1>1, <1>2, <1>4 DEF Acceptances, M!Invitation
<1>7. Acceptances'
  BY <1>1, <1>2, <1>5, AcceptanceEnds DEF i
<1>8. \A j \in Invitations : IsAccepted(j)' = (j = i \/ IsAccepted(j))
  BY <1>5, <1>6, MembershipConstants DEF IsAccepted
<1>9. admitted' = [j \in Invitations |-> IF IsAccepted(j)' THEN 1 ELSE 0]
  BY <1>3, <1>8
<1> QED
  BY <1>1, <1>3, <1>7, <1>9 DEF i

LEMMA NextMembership == MembershipInv /\ [M!Next]_M!vars => MembershipInv'
<1> SUFFICES ASSUME MembershipInv, [M!Next]_M!vars PROVE MembershipInv'
  OBVIOUS
<1>1. CASE M!Tick
  BY <1>1 DEF M!Tick, MembershipInv, Acceptances, IsAccepted
<1>2. ASSUME NEW p \in Procs, M!AcceptFails(p) PROVE MembershipInv'
  <2>1. Acceptances'
    BY <1>2, AcceptanceEnds DEF M!AcceptFails, MembershipInv, Acceptances
  <2> QED
    BY <1>2, <2>1 DEF M!AcceptFails, MembershipInv, IsAccepted
<1>3. CASE UNCHANGED M!vars
  BY <1>3 DEF M!vars, MembershipInv, Acceptances, IsAccepted
<1> QED
  BY <1>1, <1>2, <1>3, InvitationCreated, AcceptanceBegins, AcceptanceCommits DEF M!Next, M!Serve

LEMMA MembershipSafe == M!Spec => []MembershipInv
  BY InitMembership, NextMembership, PTL DEF M!Spec

(* An invitation is good for one acceptance, however many requests present *)
(* its token at once: the invitations implement SingleUse                  *)
(* (accept_invitation).                                                    *)
THEOREM InvitationUsed == M!Spec => InvitationUsedOnce
<1>1. M!Init => M!Once!Init
  BY DEF M!Init, M!Once!Init
<1>2. ASSUME MembershipInv, [M!Next]_M!vars PROVE [M!Once!Next]_admitted
  <2>1. ASSUME NEW p \in Procs, M!AcceptCommit(p) PROVE M!Once!Next
    <3>1. PICK i \in Invitations : admitted[i] = 0 /\ admitted' = [admitted EXCEPT ![i] = 1]
      BY <1>2, <2>1, AcceptanceCommits
    <3>2. M!Once!Spend({i})
      BY <1>2, <3>1 DEF M!Once!Spend, MembershipInv
    <3> QED
      BY <3>2 DEF M!Once!Next
  <2>2. (\A p \in Procs : ~M!AcceptCommit(p)) => UNCHANGED admitted
    BY <1>2 DEF M!Next, M!Serve, M!vars, M!Tick, M!CreateInvitation, M!AcceptBegin, M!AcceptFails
  <2> QED
    BY <2>1, <2>2
<1>3. MembershipInv /\ [M!Next]_M!vars => [M!Once!Next]_admitted
  BY <1>2
<1> QED
  BY <1>1, <1>3, MembershipSafe, PTL DEF M!Spec, InvitationUsedOnce, M!InvitationUsedOnce, M!Once!Spec
----------------------------------------------------------------------------
(* Assessments: types                                                      *)

TaskStatus == {"awaiting_approval", "queued", "running", "rejected", "blocked", "succeeded", "failed"}
RunStatus == {"awaiting_approval", "queued", "running", "rejected", "completed", "failed"}

RunRow == [number : Nat, status : RunStatus]
TaskRow == [status : TaskStatus, until : Nat]

Request ==
    [op : {"none", "launch", "decide", "lease", "complete"}, pc : {"idle", "loaded", "locked", "inserted"},
     fresh : BOOLEAN, admit : BOOLEAN, run : Nat, rows : SUBSET Nat,
     outcome : {"none", "queued", "rejected", "running", "blocked"}]

AssessmentTypeOK ==
    /\ time \in Nat /\ open \in BOOLEAN
    /\ engagement \in A!Engagement \cup {None}
    /\ runs \in Seq(RunRow) /\ tasks \in Seq(TaskRow)
    /\ lock \in [{"org", "engagement"} -> Procs \cup {None}]
    /\ serving \in [Procs -> Request]

(* What a request that has locked the row of a task knows of its status,   *)
(* until it commits or is rolled back.                                     *)
Before(op) ==
    IF op = "decide" THEN {"awaiting_approval"}
    ELSE IF op = "lease" THEN {"queued", "running"} ELSE {"running"}

After(op) == IF op = "decide" THEN {"queued", "rejected"} ELSE {"running", "blocked"}

OnTask == {"decide", "lease", "complete"}

(* A request r of p.  A launch past its lock holds the engagement, as h    *)
(* tells, and has the next number; the others hold the rows they will      *)
(* write.  The engagement is e, its runs are rs, their tasks ts.           *)
Sound(p, r, h, e, rs, ts) ==
    /\ r.op = "launch" =>
          /\ e # None
          /\ r.pc \in {"locked", "inserted"} => h = p /\ r.run = Len(rs) + 1
    /\ r.op \in OnTask =>
          /\ r.run \in r.rows /\ r.rows \subseteq DOMAIN ts
          /\ \A k \in r.rows : ts[k].status \in Before(r.op)
          /\ r.op = "lease" \/ r.rows = {r.run}
          /\ r.op # "complete" => r.outcome \in After(r.op)
    /\ r.op \notin OnTask => r.rows = {}

Requests ==
    /\ runs # <<>> => engagement # None
    /\ \A p \in Procs : Sound(p, serving[p], lock.engagement, engagement, runs, tasks)
    /\ \A p, q \in Procs : p # q => serving[p].rows \cap serving[q].rows = {}

AssessmentInv == AssessmentTypeOK /\ Requests /\ RunMatchesTask /\ StatusEarned

----------------------------------------------------------------------------
(* Assessments: how rows change                                            *)

LEMMA AssessmentConstants ==
    /\ LeaseTime \in Nat /\ Lifetimes \subseteq Nat \cup {None}
    /\ None \notin Procs /\ None \notin A!Engagement
  BY WorkAssumption DEF A!AssessmentAssumption

(* StatusEarned, status by status.                                         *)
Some(statuses, rs) == \E k \in DOMAIN rs : rs[k].status \in statuses

Earned(status, rs) ==
    /\ status = "ready" => rs = <<>>
    /\ status = "scheduled" => rs # <<>> /\ rs[Len(rs)].status \in {"awaiting_approval", "queued"}
    /\ status = "running" => Some({"running"}, rs)
    /\ status = "review" => Some({"completed"}, rs)
    /\ status = "attention" => Some({"failed", "rejected"}, rs)

LEMMA EarnedStatus ==
    ASSUME engagement \in A!Engagement \cup {None}
    PROVE  StatusEarned <=> (engagement # None => Earned(engagement.status, runs))
<1>1. CASE engagement = None
  BY <1>1 DEF StatusEarned, A!StatusEarned
<1>2. CASE engagement # None
  <2>1. engagement.status \in {"ready", "scheduled", "running", "review", "attention"}
    BY <1>2 DEF A!Engagement
  <2> QED
    BY <1>2, <2>1 DEF StatusEarned, A!StatusEarned, Earned, Some
<1> QED
  BY <1>1, <1>2

(* RunMatchesTask, status by status.                                       *)
Follows(run, task_) ==
    run \in IF task_ \in {"queued", "blocked"} THEN {"queued", "running"}
            ELSE IF task_ = "succeeded" THEN {"completed"} ELSE {task_}

LEMMA MatchingRuns ==
    RunMatchesTask <=>
        /\ DOMAIN runs = DOMAIN tasks
        /\ \A k \in DOMAIN runs : runs[k].number = k /\ Follows(runs[k].status, tasks[k].status)
  BY DEF RunMatchesTask, A!RunMatchesTask, Follows

(* What an audit event does to the requests in flight.                     *)
LEMMA AuditedRequests ==
    ASSUME NEW t \in [Procs -> Request]
    PROVE  /\ A!Audited(t) \in [Procs -> Request]
           /\ \A q \in Procs : LET r == A!Audited(t)[q]
                               IN  /\ r.op = t[q].op /\ r.pc = t[q].pc /\ r.run = t[q].run
                                   /\ r.rows = t[q].rows /\ r.outcome = t[q].outcome
<1> SUFFICES ASSUME NEW q \in Procs
             PROVE  LET r == A!Audited(t)[q]
                    IN  /\ r \in Request /\ r.op = t[q].op /\ r.pc = t[q].pc /\ r.run = t[q].run
                        /\ r.rows = t[q].rows /\ r.outcome = t[q].outcome
  BY DEF A!Audited
<1>1. t[q] \in Request
  OBVIOUS
<1>2. /\ [t[q] EXCEPT !.fresh = FALSE] \in Request
      /\ LET r == [t[q] EXCEPT !.fresh = FALSE]
         IN  /\ r.op = t[q].op /\ r.pc = t[q].pc /\ r.run = t[q].run
             /\ r.rows = t[q].rows /\ r.outcome = t[q].outcome
  BY <1>1 DEF Request
<1>3. A!Audited(t)[q] \in {t[q], [t[q] EXCEPT !.fresh = FALSE]}
  BY DEF A!Audited
<1> QED
  BY <1>1, <1>2, <1>3

LEMMA IdleRequest == A!Idle \in Request /\ A!Idle.op = "none" /\ A!Idle.rows = {} /\ A!Idle.pc = "idle"
  BY DEF A!Idle, Request

LEMMA InitAssessments == A!Init => AssessmentInv
<1> SUFFICES ASSUME A!Init PROVE AssessmentInv
  OBVIOUS
<1>1. AssessmentTypeOK
  BY IdleRequest DEF A!Init, AssessmentTypeOK
<1>2. Requests
  BY IdleRequest DEF A!Init, Requests, Sound, OnTask
<1>3. RunMatchesTask /\ StatusEarned
  BY DEF A!Init, RunMatchesTask, A!RunMatchesTask, StatusEarned, A!StatusEarned
<1> QED
  BY <1>1, <1>2, <1>3 DEF AssessmentInv

(* A request that moves and leaves the rows alone.                         *)
LEMMA RequestMoves ==
    ASSUME AssessmentInv, NEW p \in Procs, NEW r \in Request, serving' = [serving EXCEPT ![p] = r],
           UNCHANGED <<time, engagement, runs, tasks, open>>,
           lock' \in [{"org", "engagement"} -> Procs \cup {None}],
           \A q \in Procs \ {p} : lock.engagement = q => lock'.engagement = q,
           Sound(p, r, lock'.engagement, engagement, runs, tasks),
           \A q \in Procs \ {p} : r.rows \cap serving[q].rows = {}
    PROVE  AssessmentInv'
<1> USE DEF AssessmentInv
<1>1. /\ serving' \in [Procs -> Request]
      /\ \A q \in Procs : serving'[q] = IF q = p THEN r ELSE serving[q]
  BY DEF AssessmentTypeOK
<1>2. AssessmentTypeOK'
  BY <1>1 DEF AssessmentTypeOK
<1>3. ASSUME NEW q \in Procs PROVE Sound(q, serving'[q], lock'.engagement, engagement, runs, tasks)
  <2>1. CASE q = p
    BY <1>1, <2>1
  <2>2. CASE q # p
    BY <1>1, <2>2 DEF Requests, Sound
  <2> QED
    BY <2>1, <2>2
<1>4. Requests'
  BY <1>1, <1>3 DEF Requests
<1>5. RunMatchesTask' /\ StatusEarned'
  BY DEF RunMatchesTask, A!RunMatchesTask, StatusEarned, A!StatusEarned
<1> QED
  BY <1>2, <1>4, <1>5

(* Releasing what p holds takes no lock from anybody else.                 *)
LEMMA Released ==
    ASSUME AssessmentInv, NEW p \in Procs
    PROVE  /\ A!ReleaseAll(p) \in [{"org", "engagement"} -> Procs \cup {None}]
           /\ \A q \in Procs \ {p} : lock.engagement = q => A!ReleaseAll(p).engagement = q
  BY DEF AssessmentInv, AssessmentTypeOK, A!ReleaseAll

(* A request that ends without a trace.                                    *)
LEMMA RequestEnds ==
    ASSUME AssessmentInv, NEW p \in Procs, serving' = [serving EXCEPT ![p] = A!Idle],
           lock' = A!ReleaseAll(p), UNCHANGED <<time, engagement, runs, tasks, open>>
    PROVE  AssessmentInv'
<1>1. Sound(p, A!Idle, lock'.engagement, engagement, runs, tasks)
  BY IdleRequest DEF Sound, OnTask
<1>2. \A q \in Procs \ {p} : A!Idle.rows \cap serving[q].rows = {}
  BY IdleRequest
<1>3. /\ lock' \in [{"org", "engagement"} -> Procs \cup {None}]
      /\ \A q \in Procs \ {p} : lock.engagement = q => lock'.engagement = q
  BY Released
<1>4. A!Idle \in Request
  BY IdleRequest
<1> QED
  BY <1>1, <1>2, <1>3, <1>4, RequestMoves

(* A request on a task begins: the rows it locks were free.                *)
LEMMA RequestBegins ==
    ASSUME AssessmentInv, NEW p \in Procs, NEW op \in OnTask, NEW k, NEW locked,
           NEW outcome \in {"none", "queued", "rejected", "running", "blocked"},
           A!Begin(p, op, k, locked, outcome),
           k \in locked, locked \subseteq DOMAIN tasks,
           \A j \in locked : tasks[j].status \in Before(op) /\ A!RowFree(j),
           op = "lease" \/ locked = {k}, op # "complete" => outcome \in After(op)
    PROVE  AssessmentInv'
<1> DEFINE r == [A!Idle EXCEPT !.op = op, !.pc = "loaded", !.run = k, !.rows = locked, !.outcome = outcome]
<1>1. DOMAIN tasks \subseteq Nat
  BY DEF AssessmentInv, AssessmentTypeOK
<1>2. r \in Request /\ r.op = op /\ r.run = k /\ r.rows = locked /\ r.outcome = outcome
  BY <1>1 DEF A!Idle, Request, OnTask
<1>3. serving' = [serving EXCEPT ![p] = r] /\ UNCHANGED <<time, engagement, runs, tasks, lock, open>>
  BY DEF A!Begin, A!rows
<1> HIDE DEF r
<1>4. Sound(p, r, lock'.engagement, engagement, runs, tasks)
  BY <1>2, <1>3 DEF Sound, OnTask
<1>5. \A q \in Procs \ {p} : r.rows \cap serving[q].rows = {}
  BY <1>2 DEF A!RowFree
<1> QED
  BY <1>2, <1>3, <1>4, <1>5, RequestMoves DEF AssessmentInv, AssessmentTypeOK

----------------------------------------------------------------------------
(* Assessments: the requests that leave the rows alone                     *)

LEMMA Beginnings ==
    ASSUME AssessmentInv, NEW p \in Procs,
           \/ A!LaunchBegin(p) \/ A!LeaseBegin(p)
           \/ \E k \in DOMAIN tasks : A!DecideBegin(p, k) \/ A!CompleteBegin(p, k)
    PROVE  AssessmentInv'
<1>1. CASE A!LaunchBegin(p)
  <2> DEFINE r == [A!Idle EXCEPT !.op = "launch", !.pc = "loaded", !.admit = open]
  <2>1. engagement # None /\ serving' = [serving EXCEPT ![p] = r]
        /\ UNCHANGED <<time, engagement, runs, tasks, lock, open>>
    BY <1>1 DEF A!LaunchBegin, A!rows
  <2>2. r \in Request /\ r.op = "launch" /\ r.pc = "loaded" /\ r.rows = {}
    BY DEF A!Idle, Request, AssessmentInv, AssessmentTypeOK
  <2> HIDE DEF r
  <2>3. Sound(p, r, lock'.engagement, engagement, runs, tasks)
    BY <2>1, <2>2 DEF Sound, OnTask
  <2>4. \A q \in Procs \ {p} : r.rows \cap serving[q].rows = {}
    BY <2>2
  <2> QED
    BY <2>1, <2>2, <2>3, <2>4, RequestMoves DEF AssessmentInv, AssessmentTypeOK
<1>2. ASSUME NEW k \in DOMAIN tasks, A!DecideBegin(p, k) PROVE AssessmentInv'
  <2>1. PICK outcome \in {"queued", "rejected"} : A!Begin(p, "decide", k, {k}, outcome)
    BY <1>2 DEF A!DecideBegin
  <2>2. tasks[k].status \in Before("decide") /\ A!RowFree(k)
    BY <1>2 DEF A!DecideBegin, Before
  <2>3. "decide" \in OnTask /\ outcome \in After("decide")
        /\ outcome \in {"none", "queued", "rejected", "running", "blocked"}
    BY DEF OnTask, After
  <2> QED
    BY <2>1, <2>2, <2>3, RequestBegins
<1>3. ASSUME NEW k \in DOMAIN tasks, A!CompleteBegin(p, k) PROVE AssessmentInv'
  <2>1. /\ A!Begin(p, "complete", k, {k}, "none")
        /\ tasks[k].status \in Before("complete") /\ A!RowFree(k) /\ "complete" \in OnTask
    BY <1>3 DEF A!CompleteBegin, Before, OnTask
  <2> QED
    BY <2>1, RequestBegins
<1>4. CASE A!LeaseBegin(p)
  <2> DEFINE expired == {k \in DOMAIN tasks : A!Lapsed(k)}
  <2>1. \A k \in expired : tasks[k].status = "running" /\ A!RowFree(k)
    BY <1>4 DEF A!LeaseBegin, A!Lapsed
  <2>2. PICK k \in DOMAIN tasks, outcome \in {"running", "blocked"} :
               /\ A!RowFree(k) /\ (k \in expired \/ tasks[k].status = "queued")
               /\ A!Begin(p, "lease", k, expired \cup {k}, outcome)
    BY <1>4 DEF A!LeaseBegin
  <2> DEFINE locked == expired \cup {k}
  <2>3. locked \subseteq DOMAIN tasks /\ k \in locked
    OBVIOUS
  <2>4. \A j \in locked : tasks[j].status \in Before("lease") /\ A!RowFree(j)
    BY <2>1, <2>2 DEF Before
  <2>5. "lease" \in OnTask /\ outcome \in After("lease")
        /\ outcome \in {"none", "queued", "rejected", "running", "blocked"}
    BY DEF OnTask, After
  <2>6. A!Begin(p, "lease", k, locked, outcome)
    BY <2>2
  <2> HIDE DEF locked
  <2> QED
    BY <2>3, <2>4, <2>5, <2>6, RequestBegins
<1> QED
  BY <1>1, <1>2, <1>3, <1>4

LEMMA Locking ==
    ASSUME AssessmentInv, NEW p \in Procs, A!LaunchLock(p) \/ A!LaunchInsert(p) \/ A!Audit(p)
    PROVE  AssessmentInv'
<1>1. serving[p] \in Request /\ Sound(p, serving[p], lock.engagement, engagement, runs, tasks)
  BY DEF AssessmentInv, AssessmentTypeOK, Requests
<1>2. lock \in [{"org", "engagement"} -> Procs \cup {None}] /\ serving \in [Procs -> Request]
      /\ Len(runs) + 1 \in Nat
  BY DEF AssessmentInv, AssessmentTypeOK
<1>3. CASE A!LaunchLock(p)
  <2> DEFINE r == [serving[p] EXCEPT !.pc = "locked", !.run = Len(runs) + 1]
  <2>1. lock.engagement = None /\ lock' = [lock EXCEPT !.engagement = p]
        /\ UNCHANGED <<time, engagement, runs, tasks, open>> /\ serving[p].op = "launch"
    BY <1>3 DEF A!LaunchLock, A!Free, A!rows
  <2>2. serving' = [serving EXCEPT ![p] = r]
    BY <1>2, <1>3 DEF A!LaunchLock
  <2>3. /\ r \in Request /\ r.op = serving[p].op /\ r.pc = "locked" /\ r.run = Len(runs) + 1
        /\ r.rows = serving[p].rows
    BY <1>1, <1>2 DEF Request
  <2> HIDE DEF r
  <2>4. lock' \in [{"org", "engagement"} -> Procs \cup {None}] /\ lock'.engagement = p
        /\ \A q \in Procs \ {p} : lock.engagement = q => lock'.engagement = q
    BY <1>2, <2>1, AssessmentConstants
  <2>5. Sound(p, r, lock'.engagement, engagement, runs, tasks)
    BY <1>1, <2>1, <2>3, <2>4 DEF Sound, OnTask
  <2>6. \A q \in Procs \ {p} : r.rows \cap serving[q].rows = {}
    BY <2>3 DEF AssessmentInv, Requests
  <2> QED
    BY <2>1, <2>2, <2>3, <2>4, <2>5, <2>6, RequestMoves
<1>4. CASE A!LaunchInsert(p) \/ A!Audit(p)
  <2> DEFINE r == [serving[p] EXCEPT !.pc = "inserted"]
  <2>1. lock' = [lock EXCEPT !.org = p] /\ UNCHANGED <<time, engagement, runs, tasks, open>>
        /\ (serving[p].op = "launch" => serving[p].pc = "locked")
    BY <1>4 DEF A!LaunchInsert, A!Audit, A!rows
  <2>2. serving' = [serving EXCEPT ![p] = r]
    BY <1>2, <1>4 DEF A!LaunchInsert, A!Audit
  <2>3. /\ r \in Request /\ r.op = serving[p].op /\ r.pc = "inserted" /\ r.run = serving[p].run
        /\ r.rows = serving[p].rows /\ r.outcome = serving[p].outcome
    BY <1>1, <1>2 DEF Request
  <2> HIDE DEF r
  <2>4. lock' \in [{"org", "engagement"} -> Procs \cup {None}] /\ lock'.engagement = lock.engagement
    BY <1>2, <2>1
  <2>5. Sound(p, r, lock'.engagement, engagement, runs, tasks)
    BY <1>1, <2>1, <2>3, <2>4 DEF Sound, OnTask
  <2>6. \A q \in Procs \ {p} : r.rows \cap serving[q].rows = {}
    BY <2>3 DEF AssessmentInv, Requests
  <2> QED
    BY <2>1, <2>2, <2>3, <2>4, <2>5, <2>6, RequestMoves
<1> QED
  BY <1>3, <1>4

(* A step that changes the clock, or opens the engagement.                 *)
LEMMA Unrelated ==
    ASSUME AssessmentInv, A!Tick \/ \E targets \in Targets, lifetime \in Lifetimes : A!CreateEngagement(targets, lifetime)
    PROVE  AssessmentInv'
<1>1. CASE A!Tick
  <2>1. time + 1 \in Nat /\ time' = time + 1 /\ UNCHANGED <<engagement, runs, tasks, open, lock, serving>>
    BY <1>1 DEF A!Tick, A!rows, AssessmentInv, AssessmentTypeOK
  <2>2. AssessmentTypeOK' /\ Requests'
    BY <2>1 DEF AssessmentInv, AssessmentTypeOK, Requests
  <2>3. RunMatchesTask' /\ StatusEarned'
    BY <2>1 DEF AssessmentInv, RunMatchesTask, A!RunMatchesTask, StatusEarned, A!StatusEarned
  <2> QED
    BY <2>2, <2>3 DEF AssessmentInv
<1>2. ASSUME NEW targets \in Targets, NEW lifetime \in Lifetimes, A!CreateEngagement(targets, lifetime)
      PROVE  AssessmentInv'
  <2>1. /\ engagement = None /\ UNCHANGED <<time, runs, tasks, lock, open>> /\ serving' = A!Audited(serving)
        /\ engagement' = [status |-> "ready", expires |-> IF lifetime = None THEN None ELSE time + lifetime]
    BY <1>2 DEF A!CreateEngagement
  <2>2. lifetime # None => time + lifetime \in Nat
    BY AssessmentConstants DEF AssessmentInv, AssessmentTypeOK
  <2>3. engagement' \in A!Engagement /\ engagement' # None /\ engagement'.status = "ready"
    BY <2>1, <2>2, AssessmentConstants DEF A!Engagement
  <2>4. runs = <<>>
    BY <2>1 DEF AssessmentInv, Requests
  <2>5. /\ serving' \in [Procs -> Request]
        /\ \A q \in Procs : /\ serving'[q].op = serving[q].op /\ serving'[q].pc = serving[q].pc
                            /\ serving'[q].run = serving[q].run /\ serving'[q].rows = serving[q].rows
                            /\ serving'[q].outcome = serving[q].outcome
    BY <2>1, AuditedRequests DEF AssessmentInv, AssessmentTypeOK
  <2>6. AssessmentTypeOK'
    BY <2>1, <2>3, <2>5 DEF AssessmentInv, AssessmentTypeOK
  <2>7. \A q \in Procs : Sound(q, serving'[q], lock'.engagement, engagement', runs', tasks')
    BY <2>1, <2>3, <2>5 DEF AssessmentInv, Requests, Sound
  <2>8. Requests'
    BY <2>3, <2>5, <2>7 DEF AssessmentInv, Requests
  <2>9. RunMatchesTask'
    BY <2>1 DEF AssessmentInv, RunMatchesTask, A!RunMatchesTask
  <2>10. StatusEarned'
    BY <2>1, <2>3, <2>4 DEF StatusEarned, A!StatusEarned
  <2> QED
    BY <2>6, <2>8, <2>9, <2>10 DEF AssessmentInv
<1> QED
  BY <1>1, <1>2

----------------------------------------------------------------------------
(* Assessments: the requests that write rows                               *)

(* Requests in flight after p has committed, and so audited, its own.      *)
LEMMA CommitEnds ==
    ASSUME AssessmentInv, NEW p \in Procs, serving' = A!Audited([serving EXCEPT ![p] = A!Idle])
    PROVE  /\ serving' \in [Procs -> Request]
           /\ serving'[p].op = "none" /\ serving'[p].rows = {}
           /\ \A q \in Procs \ {p} :
                 /\ serving'[q].op = serving[q].op /\ serving'[q].pc = serving[q].pc
                 /\ serving'[q].run = serving[q].run /\ serving'[q].rows = serving[q].rows
                 /\ serving'[q].outcome = serving[q].outcome
           /\ \A q, r \in Procs : q # r => serving'[q].rows \cap serving'[r].rows = {}
<1> DEFINE t == [serving EXCEPT ![p] = A!Idle]
<1>1. /\ t \in [Procs -> Request] /\ t[p] = A!Idle
      /\ \A q \in Procs \ {p} : t[q] = serving[q]
  BY IdleRequest DEF AssessmentInv, AssessmentTypeOK
<1> HIDE DEF t
<1>2. /\ A!Audited(t) \in [Procs -> Request]
      /\ \A q \in Procs : /\ A!Audited(t)[q].op = t[q].op /\ A!Audited(t)[q].pc = t[q].pc
                          /\ A!Audited(t)[q].run = t[q].run /\ A!Audited(t)[q].rows = t[q].rows
                          /\ A!Audited(t)[q].outcome = t[q].outcome
  BY <1>1, AuditedRequests
<1>3. serving' = A!Audited(t)
  BY DEF t
<1>4. ASSUME NEW q \in Procs, NEW r \in Procs, q # r PROVE serving'[q].rows \cap serving'[r].rows = {}
  <2>1. serving'[q].rows = t[q].rows /\ serving'[r].rows = t[r].rows
    BY <1>2, <1>3
  <2>2. CASE q = p \/ r = p
    BY <1>1, <2>1, <2>2, IdleRequest
  <2>3. CASE q # p /\ r # p
    BY <1>1, <1>4, <2>1, <2>3 DEF AssessmentInv, Requests
  <2> QED
    BY <2>2, <2>3
<1> QED
  BY <1>1, <1>2, <1>3, <1>4, IdleRequest

(* A launch adds the run and the task with the next number; no other       *)
(* launch was past its lock.                                               *)
LEMMA LaunchCommits ==
    ASSUME AssessmentInv, NEW p \in Procs, A!LaunchCommit(p)
    PROVE  AssessmentInv'
<1> DEFINE run == [number |-> serving[p].run, status |-> "awaiting_approval"]
           row_ == [status |-> "awaiting_approval", until |-> 0]
<1>1. /\ runs \in Seq(RunRow) /\ tasks \in Seq(TaskRow) /\ Len(tasks) = Len(runs)
      /\ engagement \in A!Engagement \cup {None} /\ serving[p] \in Request
      /\ \A q \in Procs : Sound(q, serving[q], lock.engagement, engagement, runs, tasks)
  BY DEF AssessmentInv, AssessmentTypeOK, Requests, RunMatchesTask, A!RunMatchesTask
<1>2. /\ serving[p].op = "launch" /\ serving[p].pc = "inserted"
      /\ runs' = Append(runs, run) /\ tasks' = Append(tasks, row_)
      /\ engagement' = [engagement EXCEPT !.status = "scheduled"]
      /\ lock' = A!ReleaseAll(p) /\ UNCHANGED <<time, open>>
      /\ serving' = A!Audited([serving EXCEPT ![p] = A!Idle])
  BY DEF A!LaunchCommit
<1>3. engagement # None /\ lock.engagement = p /\ serving[p].run = Len(runs) + 1
  BY <1>1, <1>2 DEF Sound
<1>4. run \in RunRow /\ row_ \in TaskRow /\ run.number = Len(runs) + 1
      /\ run.status = "awaiting_approval" /\ row_.status = "awaiting_approval"
  BY <1>1, <1>3 DEF RunRow, TaskRow, RunStatus, TaskStatus, Request
<1> HIDE DEF run, row_
<1>5. /\ runs' \in Seq(RunRow) /\ tasks' \in Seq(TaskRow)
      /\ Len(runs') = Len(runs) + 1 /\ Len(tasks') = Len(runs) + 1
      /\ \A k \in DOMAIN tasks : k \in DOMAIN tasks' /\ tasks'[k] = tasks[k] /\ runs'[k] = runs[k]
      /\ tasks'[Len(runs) + 1] = row_ /\ runs'[Len(runs) + 1] = run
      /\ DOMAIN runs' = DOMAIN tasks' /\ DOMAIN runs' = DOMAIN runs \cup {Len(runs) + 1}
      /\ DOMAIN runs = DOMAIN tasks
  BY <1>1, <1>2, <1>4
<1>6. engagement' \in A!Engagement /\ engagement' # None /\ engagement'.status = "scheduled"
  BY <1>1, <1>2, <1>3, AssessmentConstants DEF A!Engagement
<1>7. AssessmentTypeOK'
  BY <1>2, <1>5, <1>6, CommitEnds, Released DEF AssessmentInv, AssessmentTypeOK
<1>8. ASSUME NEW q \in Procs
      PROVE  Sound(q, serving'[q], lock'.engagement, engagement', runs', tasks')
  <2>1. CASE q = p
    BY <1>2, <2>1, CommitEnds DEF Sound, OnTask
  <2>2. CASE q # p
    <3>1. ~(serving[q].op = "launch" /\ serving[q].pc \in {"locked", "inserted"})
      BY <1>1, <1>3, <2>2 DEF Sound
    <3>2. Sound(q, serving[q], lock'.engagement, engagement', runs', tasks')
      BY <1>1, <1>5, <1>6, <3>1 DEF Sound
    <3>3. /\ serving'[q].op = serving[q].op /\ serving'[q].pc = serving[q].pc
          /\ serving'[q].run = serving[q].run /\ serving'[q].rows = serving[q].rows
          /\ serving'[q].outcome = serving[q].outcome
      BY <1>2, <2>2, CommitEnds
    <3> QED
      BY <3>2, <3>3 DEF Sound
  <2> QED
    BY <2>1, <2>2
<1>9. \A q, r \in Procs : q # r => serving'[q].rows \cap serving'[r].rows = {}
  BY <1>2, CommitEnds
<1>10. Requests'
  BY <1>6, <1>8, <1>9 DEF Requests
<1>11. \A k \in DOMAIN runs' : runs'[k].number = k /\ Follows(runs'[k].status, tasks'[k].status)
  BY <1>4, <1>5, MatchingRuns DEF AssessmentInv, Follows
<1>12. RunMatchesTask'
  BY <1>5, <1>11 DEF RunMatchesTask, A!RunMatchesTask, Follows
<1>13. StatusEarned'
  BY <1>1, <1>4, <1>5, <1>6 DEF StatusEarned, A!StatusEarned
<1> QED
  BY <1>7, <1>10, <1>12, <1>13 DEF AssessmentInv

(* The safety level stops queued and running tasks that nobody is serving. *)
LEMMA SafetyChanges ==
    ASSUME AssessmentInv, NEW level \in BOOLEAN, A!ChangeSafety(level)
    PROVE  AssessmentInv'
<1> DEFINE stopped(j) == ~level /\ tasks[j].status \in {"queued", "running"}
<1>1. /\ tasks \in Seq(TaskRow) /\ DOMAIN runs = DOMAIN tasks
      /\ serving \in [Procs -> Request]
  BY DEF AssessmentInv, AssessmentTypeOK, RunMatchesTask, A!RunMatchesTask
<1>2. /\ \A j \in DOMAIN tasks : A!RowFree(j)
      /\ open' = level /\ UNCHANGED <<time, engagement, runs, lock>>
      /\ tasks' = [j \in DOMAIN tasks |-> IF stopped(j) THEN A!Settled("blocked") ELSE tasks[j]]
      /\ serving' = A!Audited(serving)
  BY DEF A!ChangeSafety
<1>3. A!Settled("blocked") \in TaskRow /\ A!Settled("blocked").status = "blocked"
  BY DEF A!Settled, TaskRow, TaskStatus
<1>4. /\ DOMAIN tasks' = DOMAIN tasks
      /\ \A j \in DOMAIN tasks : tasks'[j] = IF stopped(j) THEN A!Settled("blocked") ELSE tasks[j]
  BY <1>2
<1>5. tasks' \in [1 .. Len(tasks) -> TaskRow]
  BY <1>1, <1>2, <1>3
<1>6. tasks' \in Seq(TaskRow)
  BY <1>1, <1>5
<1>7. /\ serving' \in [Procs -> Request]
      /\ \A q \in Procs : /\ serving'[q].op = serving[q].op /\ serving'[q].pc = serving[q].pc
                          /\ serving'[q].run = serving[q].run /\ serving'[q].rows = serving[q].rows
                          /\ serving'[q].outcome = serving[q].outcome
  BY <1>1, <1>2, AuditedRequests
<1>8. AssessmentTypeOK'
  BY <1>2, <1>6, <1>7 DEF AssessmentInv, AssessmentTypeOK
<1>9. \A q \in Procs : serving[q].op \notin OnTask
  BY <1>2 DEF AssessmentInv, Requests, Sound, A!RowFree
<1>10. \A q \in Procs : Sound(q, serving'[q], lock'.engagement, engagement', runs', tasks')
  BY <1>2, <1>7, <1>9 DEF AssessmentInv, Requests, Sound
<1>11. Requests'
  BY <1>2, <1>7, <1>10 DEF AssessmentInv, Requests
<1>12. \A k \in DOMAIN runs : runs[k].number = k /\ Follows(runs[k].status, tasks'[k].status)
  BY <1>1, <1>3, <1>4, MatchingRuns DEF AssessmentInv, Follows
<1>13. RunMatchesTask'
  BY <1>1, <1>2, <1>4, <1>12 DEF RunMatchesTask, A!RunMatchesTask, Follows
<1>14. StatusEarned'
  BY <1>2 DEF AssessmentInv, StatusEarned, A!StatusEarned
<1> QED
  BY <1>8, <1>11, <1>13, <1>14 DEF AssessmentInv

(* What the request p writes when it commits with an outcome.              *)
LEMMA CommitWrites ==
    ASSUME AssessmentInv, NEW p \in Procs, NEW outcome \in A!Outcomes(p), A!Commit(p, outcome)
    PROVE  LET k == serving[p].run
               locked == serving[p].rows
           IN  /\ serving[p].op \in OnTask /\ engagement # None
               /\ k \in DOMAIN tasks /\ k \in locked /\ locked \subseteq DOMAIN tasks
               /\ \A j \in locked : tasks[j].status \in Before(serving[p].op)
               /\ serving[p].op = "lease" \/ locked = {k}
               /\ outcome \in IF serving[p].op = "complete" THEN {"succeeded", "failed"} ELSE After(serving[p].op)
               /\ tasks' \in Seq(TaskRow) /\ DOMAIN tasks' = DOMAIN tasks
               /\ \A j \in DOMAIN tasks :
                     /\ j = k => tasks'[j].status = outcome
                     /\ j # k /\ j \in locked => tasks'[j].status = "queued"
                     /\ j \notin locked => tasks'[j] = tasks[j]
<1> DEFINE k == serving[p].run
           locked == serving[p].rows
           op == serving[p].op
<1>1. /\ op \in OnTask
      /\ tasks' = [j \in DOMAIN tasks |->
                     IF j = k THEN IF outcome = "running" THEN A!Lease(time + LeaseTime) ELSE A!Settled(outcome)
                     ELSE IF j \in locked THEN A!Settled("queued") ELSE tasks[j]]
  BY DEF A!Commit, OnTask
<1>2. Sound(p, serving[p], lock.engagement, engagement, runs, tasks) /\ tasks \in Seq(TaskRow)
      /\ (runs # <<>> => engagement # None) /\ DOMAIN runs = DOMAIN tasks
  BY DEF AssessmentInv, AssessmentTypeOK, Requests, RunMatchesTask, A!RunMatchesTask
<1>3. /\ k \in DOMAIN tasks /\ k \in locked /\ locked \subseteq DOMAIN tasks
      /\ \A j \in locked : tasks[j].status \in Before(op)
      /\ op = "lease" \/ locked = {k}
      /\ op # "complete" => serving[p].outcome \in After(op)
  BY <1>1, <1>2 DEF Sound
<1>4. outcome \in IF op = "complete" THEN {"succeeded", "failed"} ELSE After(op)
  BY <1>3 DEF A!Outcomes
<1>5. outcome \in TaskStatus
  BY <1>4 DEF After, TaskStatus
<1>6. time + LeaseTime \in Nat
  BY AssessmentConstants DEF AssessmentInv, AssessmentTypeOK
<1>7. /\ A!Lease(time + LeaseTime) \in TaskRow /\ A!Lease(time + LeaseTime).status = "running"
      /\ A!Settled(outcome) \in TaskRow /\ A!Settled(outcome).status = outcome
      /\ A!Settled("queued") \in TaskRow /\ A!Settled("queued").status = "queued"
  BY <1>5, <1>6 DEF A!Lease, A!Settled, TaskRow, TaskStatus
<1> HIDE DEF k, locked, op
<1>8. tasks' \in [1 .. Len(tasks) -> TaskRow] /\ DOMAIN tasks' = DOMAIN tasks
  BY <1>1, <1>2, <1>7
<1>9. tasks' \in Seq(TaskRow)
  BY <1>2, <1>8
<1>10. \A j \in DOMAIN tasks :
          /\ j = k => tasks'[j].status = outcome
          /\ j # k /\ j \in locked => tasks'[j].status = "queued"
          /\ j \notin locked => tasks'[j] = tasks[j]
  BY <1>1, <1>3, <1>7
<1>11. engagement # None
  BY <1>2, <1>3
<1> QED
  BY <1>1, <1>3, <1>4, <1>8, <1>9, <1>10, <1>11 DEF k, locked, op

(* The run follows its task: only the status of the run of p changes.      *)
LEMMA CommitFollows ==
    ASSUME AssessmentInv, NEW p \in Procs, NEW outcome \in A!Outcomes(p), A!Commit(p, outcome)
    PROVE  LET k == serving[p].run
           IN  /\ runs' \in Seq(RunRow) /\ DOMAIN runs' = DOMAIN runs /\ k \in DOMAIN runs
               /\ runs'[k].status = A!RunStatus(k, outcome)
               /\ \A j \in DOMAIN runs : j # k => runs'[j] = runs[j]
               /\ runs[k].status \in IF serving[p].op = "decide" THEN {"awaiting_approval"}
                                     ELSE IF serving[p].op = "lease" THEN {"queued", "running"} ELSE {"running"}
               /\ RunMatchesTask'
<1> DEFINE k == serving[p].run
           locked == serving[p].rows
           op == serving[p].op
<1>1. /\ op \in OnTask /\ k \in DOMAIN tasks /\ k \in locked /\ locked \subseteq DOMAIN tasks
      /\ \A j \in locked : tasks[j].status \in Before(op)
      /\ op = "lease" \/ locked = {k}
      /\ outcome \in IF op = "complete" THEN {"succeeded", "failed"} ELSE After(op)
      /\ DOMAIN tasks' = DOMAIN tasks
      /\ \A j \in DOMAIN tasks :
            /\ j = k => tasks'[j].status = outcome
            /\ j # k /\ j \in locked => tasks'[j].status = "queued"
            /\ j \notin locked => tasks'[j] = tasks[j]
  BY CommitWrites
<1>2. runs' = [runs EXCEPT ![k].status = A!RunStatus(k, outcome)]
  BY DEF A!Commit
<1>3. /\ runs \in Seq(RunRow) /\ DOMAIN runs = DOMAIN tasks
      /\ \A j \in DOMAIN runs : runs[j].number = j /\ Follows(runs[j].status, tasks[j].status)
  BY MatchingRuns DEF AssessmentInv, AssessmentTypeOK
<1> HIDE DEF k, locked, op
<1>4. runs[k] \in RunRow /\ runs[k].status \in RunStatus
  <2>1. runs[k] \in RunRow
    BY <1>1, <1>3
  <2> QED
    BY <2>1 DEF RunRow
<1>5. A!RunStatus(k, outcome) \in RunStatus
  BY <1>1, <1>4 DEF A!RunStatus, RunStatus, After, OnTask
<1>6. /\ [runs[k] EXCEPT !.status = A!RunStatus(k, outcome)] \in RunRow
      /\ LET r == [runs[k] EXCEPT !.status = A!RunStatus(k, outcome)]
         IN  r.number = runs[k].number /\ r.status = A!RunStatus(k, outcome)
  BY <1>4, <1>5 DEF RunRow
<1>7. /\ runs' \in Seq(RunRow) /\ DOMAIN runs' = DOMAIN runs
      /\ \A j \in DOMAIN runs : j # k => runs'[j] = runs[j]
      /\ runs'[k] = [runs[k] EXCEPT !.status = A!RunStatus(k, outcome)]
  BY <1>1, <1>2, <1>3, <1>6
<1>8. runs[k].status \in IF op = "decide" THEN {"awaiting_approval"}
                         ELSE IF op = "lease" THEN {"queued", "running"} ELSE {"running"}
  BY <1>1, <1>3 DEF Before, Follows, OnTask
<1>9. Follows(A!RunStatus(k, outcome), outcome)
  BY <1>1, <1>8 DEF A!RunStatus, Follows, After, OnTask
<1>10. \A j \in DOMAIN runs : runs'[j].number = j
  BY <1>3, <1>6, <1>7
<1>11. ASSUME NEW j \in DOMAIN runs PROVE Follows(runs'[j].status, tasks'[j].status)
  <2>1. CASE j = k
    <3>1. runs'[j].status = A!RunStatus(k, outcome) /\ tasks'[j].status = outcome
      BY <1>1, <1>3, <1>6, <1>7, <2>1
    <3> QED
      BY <1>9, <3>1
  <2>2. CASE j # k /\ j \in locked
    <3>1. op = "lease" /\ tasks[j].status \in {"queued", "running"}
      BY <1>1, <2>2 DEF Before
    <3> QED
      BY <1>1, <1>3, <1>7, <2>2, <3>1 DEF Follows
  <2>3. CASE j \notin locked
    BY <1>1, <1>3, <1>7, <2>3
  <2> QED
    BY <2>1, <2>2, <2>3
<1>12. RunMatchesTask'
  BY <1>1, <1>3, <1>7, <1>10, <1>11 DEF RunMatchesTask, A!RunMatchesTask, Follows
<1> QED
  BY <1>1, <1>3, <1>6, <1>7, <1>8, <1>12 DEF k, op

(* The engagement says what the run of p has become, or says what it said  *)
(* and the run that earned it is as it was.                                *)
LEMMA CommitEarns ==
    ASSUME AssessmentInv, NEW p \in Procs, NEW outcome \in A!Outcomes(p), A!Commit(p, outcome)
    PROVE  engagement' \in A!Engagement /\ engagement' # None /\ StatusEarned'
<1> DEFINE k == serving[p].run
           op == serving[p].op
           new == A!EngagementStatus(outcome)
<1>1. /\ op \in OnTask /\ engagement # None
      /\ outcome \in IF op = "complete" THEN {"succeeded", "failed"} ELSE After(op)
  BY CommitWrites
<1>2. /\ runs' \in Seq(RunRow) /\ DOMAIN runs' = DOMAIN runs /\ k \in DOMAIN runs
      /\ runs'[k].status = A!RunStatus(k, outcome)
      /\ \A j \in DOMAIN runs : j # k => runs'[j] = runs[j]
      /\ runs[k].status \in IF op = "decide" THEN {"awaiting_approval"}
                            ELSE IF op = "lease" THEN {"queued", "running"} ELSE {"running"}
  BY CommitFollows
<1>3. engagement' = [engagement EXCEPT !.status = new]
  BY DEF A!Commit
<1>4. /\ engagement \in A!Engagement /\ runs \in Seq(RunRow)
      /\ Earned(engagement.status, runs)
  BY <1>1, EarnedStatus DEF AssessmentInv, AssessmentTypeOK
<1> HIDE DEF k, op
<1>5. new \in {"ready", "scheduled", "running", "review", "attention"}
  BY <1>1, <1>4 DEF A!EngagementStatus, A!Engagement, After
<1> HIDE DEF new
<1>6. engagement' \in A!Engagement /\ engagement'.status = new
  BY <1>3, <1>4, <1>5 DEF A!Engagement
<1>7. engagement' # None
  BY <1>6, AssessmentConstants
<1>8. Len(runs') = Len(runs) /\ (runs' # <<>>) /\ (runs # <<>>) /\ Len(runs) \in DOMAIN runs
  BY <1>2, <1>4
<1>9. Earned(new, runs')
  <2>1. CASE outcome = "running"
    <3>1. new = "running" /\ runs'[k].status = "running"
      BY <1>2, <2>1 DEF new, A!EngagementStatus, A!RunStatus
    <3> QED
      BY <1>2, <3>1 DEF Earned, Some
  <2>2. CASE outcome = "succeeded"
    <3>1. new = "review" /\ runs'[k].status = "completed"
      BY <1>2, <2>2 DEF new, A!EngagementStatus, A!RunStatus
    <3> QED
      BY <1>2, <3>1 DEF Earned, Some
  <2>3. CASE outcome \in {"failed", "rejected"}
    <3>1. new = "attention" /\ runs'[k].status = outcome
      BY <1>2, <2>3 DEF new, A!EngagementStatus, A!RunStatus
    <3> QED
      BY <1>2, <2>3, <3>1 DEF Earned, Some
  <2>4. CASE outcome = "blocked"
    <3>1. new = engagement.status /\ runs'[k].status = runs[k].status
      BY <1>2, <2>4 DEF new, A!EngagementStatus, A!RunStatus
    <3>2. \A j \in DOMAIN runs : runs'[j].status = runs[j].status
      BY <1>2, <3>1
    <3> QED
      BY <1>2, <1>4, <1>8, <3>1, <3>2 DEF Earned, Some
  <2>5. CASE outcome = "queued"
    <3>1. /\ new = engagement.status /\ runs'[k].status = "queued"
          /\ runs[k].status = "awaiting_approval"
      BY <1>1, <1>2, <2>5 DEF new, A!EngagementStatus, A!RunStatus, After
    <3>2. \A j \in DOMAIN runs : j = k \/ runs'[j].status = runs[j].status
      BY <1>2
    <3> QED
      BY <1>2, <1>4, <1>8, <3>1, <3>2 DEF Earned, Some
  <2> QED
    BY <1>1, <2>1, <2>2, <2>3, <2>4, <2>5 DEF After
<1>10. StatusEarned'
  BY <1>2, <1>6, <1>9 DEF StatusEarned, A!StatusEarned, Earned, Some, A!Engagement
<1> QED
  BY <1>6, <1>7, <1>10

LEMMA Commits ==
    ASSUME AssessmentInv, NEW p \in Procs, NEW outcome \in A!Outcomes(p), A!Commit(p, outcome)
    PROVE  AssessmentInv'
<1>1. /\ serving[p].op \in OnTask
      /\ tasks' \in Seq(TaskRow) /\ DOMAIN tasks' = DOMAIN tasks
      /\ \A j \in DOMAIN tasks : j \notin serving[p].rows => tasks'[j] = tasks[j]
  BY CommitWrites
<1>2. runs' \in Seq(RunRow) /\ DOMAIN runs' = DOMAIN runs /\ RunMatchesTask'
  BY CommitFollows
<1>3. engagement' \in A!Engagement /\ engagement' # None /\ StatusEarned'
  BY CommitEarns
<1>4. serving' = A!Audited([serving EXCEPT ![p] = A!Idle]) /\ lock' = A!ReleaseAll(p) /\ UNCHANGED <<time, open>>
  BY DEF A!Commit
<1>5. /\ serving' \in [Procs -> Request]
      /\ serving'[p].op = "none" /\ serving'[p].rows = {}
      /\ \A q \in Procs \ {p} :
            /\ serving'[q].op = serving[q].op /\ serving'[q].pc = serving[q].pc
            /\ serving'[q].run = serving[q].run /\ serving'[q].rows = serving[q].rows
            /\ serving'[q].outcome = serving[q].outcome
      /\ \A q, r \in Procs : q # r => serving'[q].rows \cap serving'[r].rows = {}
  BY <1>4, CommitEnds
<1>6. /\ lock' \in [{"org", "engagement"} -> Procs \cup {None}]
      /\ \A q \in Procs \ {p} : lock.engagement = q => lock'.engagement = q
  BY <1>4, Released
<1>7. AssessmentTypeOK'
  BY <1>1, <1>2, <1>3, <1>4, <1>5, <1>6 DEF AssessmentInv, AssessmentTypeOK
<1>8. Len(runs') = Len(runs)
  BY <1>2 DEF AssessmentInv, AssessmentTypeOK
<1>9. ASSUME NEW q \in Procs
      PROVE  Sound(q, serving'[q], lock'.engagement, engagement', runs', tasks')
  <2>1. CASE q = p
    BY <1>5, <2>1 DEF Sound, OnTask
  <2>2. CASE q # p
    <3>1. Sound(q, serving[q], lock.engagement, engagement, runs, tasks)
      BY DEF AssessmentInv, Requests
    <3>2. serving[q].op \in OnTask => \A j \in serving[q].rows : j \in DOMAIN tasks /\ tasks'[j] = tasks[j]
      BY <1>1, <2>2, <3>1 DEF AssessmentInv, Requests, Sound
    <3>3. Sound(q, serving[q], lock'.engagement, engagement', runs', tasks')
      BY <1>1, <1>3, <1>6, <1>8, <2>2, <3>1, <3>2 DEF Sound
    <3> QED
      BY <1>5, <2>2, <3>3 DEF Sound
  <2> QED
    BY <2>1, <2>2
<1>10. Requests'
  BY <1>3, <1>5, <1>9 DEF Requests
<1> QED
  BY <1>2, <1>3, <1>7, <1>10 DEF AssessmentInv

LEMMA NextAssessments == AssessmentInv /\ [A!Next]_A!vars => AssessmentInv'
<1> SUFFICES ASSUME AssessmentInv, [A!Next]_A!vars PROVE AssessmentInv'
  OBVIOUS
<1>1. CASE A!Tick
  BY <1>1, Unrelated
<1>2. CASE A!Arrive
  BY <1>2, Unrelated, Beginnings, SafetyChanges DEF A!Arrive
<1>3. ASSUME NEW p \in Procs, A!Serve(p) PROVE AssessmentInv'
  <2>1. CASE A!LaunchRefused(p) \/ A!Collide(p) \/ A!RollBack(p)
    BY <2>1, RequestEnds DEF A!LaunchRefused, A!Collide, A!RollBack, A!rows
  <2> QED
    BY <1>3, <2>1, Locking, LaunchCommits, Commits DEF A!Serve
<1>4. CASE UNCHANGED A!vars
  BY <1>4 DEF A!vars, A!rows, AssessmentInv, AssessmentTypeOK, Requests, RunMatchesTask, A!RunMatchesTask,
              StatusEarned, A!StatusEarned
<1> QED
  BY <1>1, <1>2, <1>3, <1>4 DEF A!Next

LEMMA AssessmentsSafe == A!Spec => []AssessmentInv
  BY InitAssessments, NextAssessments, PTL DEF A!Spec

(* Runs and their tasks never disagree: launch, decision, lease and        *)
(* completion carry every change of the one over to the other, whatever    *)
(* collides, is rolled back, lapses or is stopped (launch_engagement,      *)
(* task_decision, task_lease, sync_assessment_result).                     *)
THEOREM RunsMatchTasks == A!Spec => []RunMatchesTask
<1>1. AssessmentInv => RunMatchesTask
  BY DEF AssessmentInv
<1> QED
  BY <1>1, AssessmentsSafe, PTL

(* What an engagement says of itself is earned by one of its runs,         *)
(* although five requests write its status in any order                    *)
(* (launch_engagement, task_decision, task_lease, sync_assessment_result). *)
THEOREM StatusIsEarned == A!Spec => []StatusEarned
<1>1. AssessmentInv => StatusEarned
  BY DEF AssessmentInv
<1> QED
  BY <1>1, AssessmentsSafe, PTL
----------------------------------------------------------------------------
(* The worker: its rows                                                    *)

(* Records, whatever is in their fields.                                   *)
IsJob(r) == r = [f \in {"status", "lease", "ticks", "result"} |-> r[f]]
IsWorker(r) == r = [f \in {"pc", "task", "lease", "left", "renew", "stray", "result"} |-> r[f]]

WorkerTypeOK ==
    /\ job = [t \in Tasks |-> job[t]]
    /\ \A t \in Tasks : IsJob(job[t])
    /\ worker = [w \in Workers |-> worker[w]]
    /\ \A w \in Workers : IsWorker(worker[w])

(* A result is counted when its task is finished, which happens once.      *)
CountedWhenFinished == counted = [t \in Tasks |-> IF job[t].status = "finished" THEN 1 ELSE 0]

Runs(r) == r.pc \in {"execute", "hang"} /\ Action[r.task] = "gate.run"

(* How long a worker has executed a gate without its lease, and how long   *)
(* it will until its next renewal, or until a lost one has timed out.      *)
Bounded(r) ==
    /\ r.stray \in 0 .. (RenewTicks + CallTicks) /\ r.renew \in Nat
    /\ Runs(r) => r.stray + r.renew <= (IF r.pc = "execute" THEN RenewTicks ELSE RenewTicks + CallTicks)

WorkerInv ==
    /\ WorkerTypeOK
    /\ CountedWhenFinished
    /\ \A w \in Workers : Bounded(worker[w])

LEMMA WorkerConstants ==
    /\ LeaseTicks \in Nat /\ RenewTicks \in Nat \ {0} /\ CallTicks \in Nat
    /\ RenewTicks + CallTicks \in Nat
  BY WorkAssumption DEF C!WorkerAssumption

LEMMA FreshWorker == IsWorker(C!Fresh) /\ C!Fresh.pc = "rest" /\ Bounded(C!Fresh)
  BY WorkerConstants DEF IsWorker, C!Fresh, Bounded, Runs

LEMMA InitWorker == C!Init => WorkerInv
<1> SUFFICES ASSUME C!Init PROVE WorkerInv
  OBVIOUS
<1>1. WorkerTypeOK
  BY FreshWorker DEF C!Init, WorkerTypeOK, IsJob
<1>2. CountedWhenFinished
  BY DEF C!Init, CountedWhenFinished
<1>3. \A w \in Workers : Bounded(worker[w])
  BY FreshWorker DEF C!Init
<1> QED
  BY <1>1, <1>2, <1>3 DEF WorkerInv

(* A step of the worker w that makes it r.                                 *)
LEMMA WorkerMoves ==
    ASSUME WorkerInv, NEW w \in Workers, NEW r, worker' = [worker EXCEPT ![w] = r], IsWorker(r), Bounded(r),
           job' = [t \in Tasks |-> job'[t]],
           \A t \in Tasks : IsJob(job'[t]),
           counted' = [t \in Tasks |-> IF job'[t].status = "finished" THEN 1 ELSE 0]
    PROVE  WorkerInv'
<1>1. /\ worker' = [v \in Workers |-> worker'[v]]
      /\ \A v \in Workers : worker'[v] = IF v = w THEN r ELSE worker[v]
  BY DEF WorkerInv, WorkerTypeOK
<1>2. WorkerTypeOK'
  BY <1>1 DEF WorkerInv, WorkerTypeOK
<1>3. CountedWhenFinished'
  BY DEF CountedWhenFinished
<1>4. \A v \in Workers : Bounded(worker'[v])
  BY <1>1 DEF WorkerInv
<1> QED
  BY <1>2, <1>3, <1>4 DEF WorkerInv, Bounded, Runs

----------------------------------------------------------------------------
(* The worker: its steps                                                   *)

(* What the server does with the tasks.                                    *)
LEMMA TasksRequeued ==
    ASSUME WorkerInv
    PROVE  /\ C!Requeued = [t \in Tasks |-> C!Requeued[t]]
           /\ \A t \in Tasks :
                 /\ IsJob(C!Requeued[t])
                 /\ (C!Requeued[t].status = "finished") = (job[t].status = "finished")
<1>1. C!Requeued = [t \in Tasks |-> IF job[t].status = "running" /\ job[t].ticks = 0
                                    THEN [job[t] EXCEPT !.status = "queued"] ELSE job[t]]
  BY DEF C!Requeued
<1> SUFFICES ASSUME NEW t \in Tasks
             PROVE  /\ IsJob(C!Requeued[t])
                    /\ (C!Requeued[t].status = "finished") = (job[t].status = "finished")
  BY <1>1
<1>2. IsJob(job[t])
  BY DEF WorkerInv, WorkerTypeOK
<1>3. LET r == [job[t] EXCEPT !.status = "queued"]
      IN  IsJob(r) /\ r.status = "queued"
  BY <1>2 DEF IsJob
<1> QED
  BY <1>1, <1>2, <1>3

LEMMA TaskHandedOut ==
    ASSUME WorkerInv, NEW t \in Tasks, C!Requeued[t].status = "queued", job' = C!HandOut(t)
    PROVE  /\ job' = [x \in Tasks |-> job'[x]]
           /\ \A x \in Tasks : /\ IsJob(job'[x])
                               /\ (job'[x].status = "finished") = (job[x].status = "finished")
<1> DEFINE r == [C!Requeued[t] EXCEPT !.status = "running", !.lease = C!Token(t), !.ticks = LeaseTicks]
<1>1. /\ C!Requeued = [x \in Tasks |-> C!Requeued[x]]
      /\ \A x \in Tasks :
            /\ IsJob(C!Requeued[x])
            /\ (C!Requeued[x].status = "finished") = (job[x].status = "finished")
  BY TasksRequeued
<1>2. job' = [C!Requeued EXCEPT ![t] = r]
  BY DEF C!HandOut
<1>3. IsJob(r) /\ r.status = "running"
  BY <1>1 DEF IsJob
<1> HIDE DEF r
<1>4. /\ job' = [x \in Tasks |-> job'[x]]
      /\ \A x \in Tasks : job'[x] = IF x = t THEN r ELSE C!Requeued[x]
  BY <1>1, <1>2
<1> QED
  BY <1>1, <1>3, <1>4

(* Nothing happens to the tasks.                                           *)
LEMMA TasksKept ==
    ASSUME WorkerInv, UNCHANGED <<job, counted>>
    PROVE  /\ job' = [t \in Tasks |-> job'[t]]
           /\ \A t \in Tasks : IsJob(job'[t])
           /\ counted' = [t \in Tasks |-> IF job'[t].status = "finished" THEN 1 ELSE 0]
  BY DEF WorkerInv, WorkerTypeOK, CountedWhenFinished

(* A lease is renewed: its task has all the time again.                    *)
LEMMA TaskRenewed ==
    ASSUME WorkerInv, NEW t, job' = [job EXCEPT ![t].ticks = LeaseTicks], UNCHANGED counted
    PROVE  /\ job' = [x \in Tasks |-> job'[x]]
           /\ \A x \in Tasks : IsJob(job'[x])
           /\ counted' = [x \in Tasks |-> IF job'[x].status = "finished" THEN 1 ELSE 0]
<1> DEFINE r == [job[t] EXCEPT !.ticks = LeaseTicks]
<1>1. /\ job = [x \in Tasks |-> job[x]]
      /\ \A x \in Tasks : IsJob(job[x])
      /\ counted = [x \in Tasks |-> IF job[x].status = "finished" THEN 1 ELSE 0]
  BY DEF WorkerInv, WorkerTypeOK, CountedWhenFinished
<1>2. t \in Tasks => IsJob(r) /\ r.status = job[t].status
  BY <1>1 DEF IsJob
<1>3. job' = [job EXCEPT ![t] = r]
  OBVIOUS
<1> HIDE DEF r
<1>4. /\ job' = [x \in Tasks |-> job'[x]]
      /\ \A x \in Tasks : job'[x] = IF x = t THEN r ELSE job[x]
  BY <1>1, <1>3
<1> QED
  BY <1>1, <1>2, <1>4

(* A result is recorded for a task that was running, or for none.          *)
LEMMA ResultRecorded ==
    ASSUME WorkerInv, NEW w \in Workers, C!Record(w)
    PROVE  /\ job' = [x \in Tasks |-> job'[x]]
           /\ \A x \in Tasks : IsJob(job'[x])
           /\ counted' = [x \in Tasks |-> IF job'[x].status = "finished" THEN 1 ELSE 0]
           /\ UNCHANGED counted \/ \E t \in Tasks : counted[t] = 0 /\ counted' = [counted EXCEPT ![t] = 1]
<1> DEFINE t == worker[w].task
           r == [job[t] EXCEPT !.status = "finished", !.ticks = 0, !.result = worker[w].result]
<1>1. /\ job = [x \in Tasks |-> job[x]]
      /\ \A x \in Tasks : IsJob(job[x])
      /\ counted = [x \in Tasks |-> IF job[x].status = "finished" THEN 1 ELSE 0]
  BY DEF WorkerInv, WorkerTypeOK, CountedWhenFinished
<1>2. CASE UNCHANGED <<job, counted>>
  BY <1>2, TasksKept
<1>3. ASSUME C!Accepts(w), t \in Tasks,
             job' = [job EXCEPT ![t] = r], counted' = [counted EXCEPT ![t] = @ + 1]
      PROVE  /\ job' = [x \in Tasks |-> job'[x]]
             /\ \A x \in Tasks : IsJob(job'[x])
             /\ counted' = [x \in Tasks |-> IF job'[x].status = "finished" THEN 1 ELSE 0]
             /\ counted[t] = 0 /\ counted' = [counted EXCEPT ![t] = 1]
  <2>1. job[t].status = "running"
    BY <1>3 DEF C!Accepts, C!MayComplete, C!Holds
  <2>2. IsJob(r) /\ r.status = "finished"
    BY <1>1, <1>3 DEF IsJob
  <2> HIDE DEF r, t
  <2>3. /\ job' = [x \in Tasks |-> job'[x]]
        /\ \A x \in Tasks : job'[x] = IF x = t THEN r ELSE job[x]
    BY <1>1, <1>3
  <2>4. \A x \in Tasks : IsJob(job'[x])
    BY <1>1, <2>2, <2>3
  <2>5. counted[t] = 0
    BY <1>1, <1>3, <2>1
  <2>6. counted[t] + 1 = 1 /\ counted' = [counted EXCEPT ![t] = counted[t] + 1]
    BY <1>3, <2>5
  <2>7. counted' = [counted EXCEPT ![t] = 1]
    BY <2>6
  <2>8. counted' = [x \in Tasks |-> IF x = t THEN 1 ELSE counted[x]]
    BY <1>1, <2>7
  <2>9. counted' = [x \in Tasks |-> IF job'[x].status = "finished" THEN 1 ELSE 0]
    BY <1>1, <2>2, <2>3, <2>8
  <2> QED
    BY <2>3, <2>4, <2>5, <2>7, <2>9
<1>4. C!Accepts(w) => job' = [job EXCEPT ![t] = r] /\ counted' = [counted EXCEPT ![t] = @ + 1]
  BY DEF C!Record
<1>5. t \notin Tasks /\ C!Accepts(w) => UNCHANGED <<job, counted>>
  BY <1>1, <1>4
<1>6. ~C!Accepts(w) => UNCHANGED <<job, counted>>
  BY DEF C!Record
<1> QED
  BY <1>2, <1>3, <1>4, <1>5, <1>6

(* A worker that stops executing a gate, or does not start to, keeps what  *)
(* it has strayed or starts anew.                                          *)
LEMMA WorkerRests ==
    ASSUME WorkerInv, NEW w \in Workers, NEW r, worker' = [worker EXCEPT ![w] = r], IsWorker(r),
           r.pc \notin {"execute", "hang"}, r.stray \in {0, worker[w].stray}, r.renew \in {0, worker[w].renew},
           job' = [t \in Tasks |-> job'[t]],
           \A t \in Tasks : IsJob(job'[t]),
           counted' = [t \in Tasks |-> IF job'[t].status = "finished" THEN 1 ELSE 0]
    PROVE  WorkerInv'
<1>1. Bounded(r)
  BY WorkerConstants DEF Bounded, Runs, WorkerInv
<1> QED
  BY <1>1, WorkerMoves

LEMMA Leasing == ASSUME WorkerInv, NEW w \in Workers, C!Lease(w) PROVE WorkerInv'
<1>1. PICK t \in Tasks :
         /\ C!Requeued[t].status = "queued" /\ job' = C!HandOut(t)
         /\ worker' = [worker EXCEPT ![w] = [pc |-> "execute", task |-> t, lease |-> C!Token(t),
                                             left |-> Duration[t], renew |-> RenewTicks, stray |-> 0,
                                             result |-> None]]
  BY DEF C!Lease
<1> DEFINE r == [pc |-> "execute", task |-> t, lease |-> C!Token(t), left |-> Duration[t],
                 renew |-> RenewTicks, stray |-> 0, result |-> None]
<1>2. IsWorker(r) /\ r.pc = "execute" /\ r.renew = RenewTicks /\ r.stray = 0
  BY DEF IsWorker
<1>3. worker' = [worker EXCEPT ![w] = r]
  BY <1>1
<1> HIDE DEF r
<1>4. /\ job' = [x \in Tasks |-> job'[x]]
      /\ \A x \in Tasks : /\ IsJob(job'[x])
                          /\ (job'[x].status = "finished") = (job[x].status = "finished")
  BY <1>1, TaskHandedOut
<1>5. counted' = [x \in Tasks |-> IF job'[x].status = "finished" THEN 1 ELSE 0]
  BY <1>4 DEF C!Lease, WorkerInv, CountedWhenFinished
<1>6. Bounded(r)
  BY <1>2, WorkerConstants DEF Bounded
<1> QED
  BY <1>2, <1>3, <1>4, <1>5, <1>6, WorkerMoves

LEMMA Sleeping ==
    ASSUME WorkerInv, NEW w \in Workers, C!NoTask(w) \/ C!LeaseLost(w) \/ C!Complete(w) \/ C!CompleteLost(w)
    PROVE  WorkerInv'
<1>1. LET r == [C!Fresh EXCEPT !.pc = "sleep", !.left = 1]
      IN  IsWorker(r) /\ r.pc = "sleep" /\ r.stray = 0 /\ r.renew = 0
  BY DEF IsWorker, C!Fresh
<1>2. \E r : /\ worker' = [worker EXCEPT ![w] = r] /\ IsWorker(r) /\ r.pc \notin {"execute", "hang"}
             /\ r.stray = 0 /\ r.renew = 0
  <2>1. C!Sleep(w) \/ worker' = [worker EXCEPT ![w] = C!Fresh]
    BY DEF C!NoTask, C!LeaseLost, C!Complete, C!CompleteLost
  <2>2. C!Fresh.stray = 0 /\ C!Fresh.renew = 0
    BY DEF C!Fresh
  <2> QED
    BY <1>1, <2>1, <2>2, FreshWorker DEF C!Sleep
<1>3. /\ job' = [x \in Tasks |-> job'[x]]
      /\ \A x \in Tasks : IsJob(job'[x])
      /\ counted' = [x \in Tasks |-> IF job'[x].status = "finished" THEN 1 ELSE 0]
  <2>1. CASE C!NoTask(w)
    <3>1. job' = C!Requeued /\ UNCHANGED counted
      BY <2>1 DEF C!NoTask
    <3> QED
      BY <3>1, TasksRequeued DEF WorkerInv, CountedWhenFinished
  <2>2. CASE C!LeaseLost(w)
    <3>1. PICK t \in Tasks : C!Requeued[t].status = "queued" /\ job' = C!HandOut(t)
      BY <2>2 DEF C!LeaseLost
    <3>2. UNCHANGED counted
      BY <2>2 DEF C!LeaseLost
    <3> QED
      BY <3>1, <3>2, TaskHandedOut DEF WorkerInv, CountedWhenFinished
  <2>3. CASE C!Complete(w) \/ C!CompleteLost(w)
    <3>1. C!Record(w) \/ UNCHANGED <<job, counted>>
      BY <2>3 DEF C!Complete, C!CompleteLost
    <3> QED
      BY <3>1, ResultRecorded, TasksKept
  <2> QED
    BY <2>1, <2>2, <2>3
<1> QED
  BY <1>2, <1>3, WorkerRests

(* Steps that leave the tasks alone.                                       *)
LEMMA WorkingAlone ==
    ASSUME WorkerInv, NEW w \in Workers,
           \/ C!Wake(w) \/ C!RenewRefused(w) \/ C!RenewTimesOut(w) \/ C!Finish(w) \/ C!Slow(w) \/ C!Kill(w)
    PROVE  WorkerInv'
<1>1. UNCHANGED <<job, counted>>
  BY DEF C!Wake, C!RenewRefused, C!RenewTimesOut, C!Finish, C!Slow, C!Kill
<1>2. IsWorker(worker[w])
  BY DEF WorkerInv, WorkerTypeOK
<1>3. CASE C!Wake(w) \/ C!Kill(w)
  <2>1. worker' = [worker EXCEPT ![w] = C!Fresh]
    BY <1>3 DEF C!Wake, C!Kill
  <2> QED
    BY <1>1, <2>1, FreshWorker, TasksKept, WorkerMoves
<1>4. CASE C!RenewRefused(w) \/ C!RenewTimesOut(w) \/ C!Finish(w)
  <2>1. PICK result : worker' = [worker EXCEPT ![w].pc = "complete", ![w].result = result]
    BY <1>4 DEF C!RenewRefused, C!RenewTimesOut, C!GiveUp, C!Finish
  <2> DEFINE r == [worker[w] EXCEPT !.pc = "complete", !.result = result]
  <2>2. IsWorker(r) /\ r.pc = "complete" /\ r.stray = worker[w].stray /\ r.renew = worker[w].renew
    BY <1>2 DEF IsWorker
  <2>3. worker' = [worker EXCEPT ![w] = r]
    BY <2>1 DEF WorkerInv, WorkerTypeOK
  <2> HIDE DEF r
  <2> QED
    BY <1>1, <2>2, <2>3, TasksKept, WorkerRests
<1>5. CASE C!Slow(w)
  <2> DEFINE r == [worker[w] EXCEPT !.left = @ + LeaseTicks]
  <2>1. worker' = [worker EXCEPT ![w] = r]
    BY <1>5 DEF C!Slow
  <2>2. /\ IsWorker(r) /\ r.pc = worker[w].pc /\ r.task = worker[w].task
        /\ r.renew = worker[w].renew /\ r.stray = worker[w].stray
    BY <1>2 DEF IsWorker
  <2> HIDE DEF r
  <2>3. Bounded(r)
    BY <2>2 DEF WorkerInv, Bounded, Runs
  <2> QED
    BY <1>1, <2>1, <2>2, <2>3, TasksKept, WorkerMoves
<1> QED
  BY <1>3, <1>4, <1>5

(* A gate whose lease is renewed has not strayed; one whose renewal is     *)
(* lost has strayed for an interval at most, and waits for the call.       *)
LEMMA Renewing ==
    ASSUME WorkerInv, NEW w \in Workers, C!Renew(w) \/ C!RenewLost(w)
    PROVE  WorkerInv'
<1> DEFINE t == worker[w].task
<1>1. IsWorker(worker[w]) /\ Bounded(worker[w])
  BY DEF WorkerInv, WorkerTypeOK
<1>2. C!MustRenew(w)
  BY DEF C!Renew, C!RenewLost
<1>3. UNCHANGED <<job, counted>> \/ (job' = [job EXCEPT ![t].ticks = LeaseTicks] /\ UNCHANGED counted)
  <2>1. CASE C!Renew(w)
    BY <2>1 DEF C!Renew
  <2>2. CASE C!RenewLost(w)
    <3>1. job' \in {job, IF C!Holds(t, worker[w].lease) THEN [job EXCEPT ![t].ticks = LeaseTicks] ELSE job}
      BY <2>2 DEF C!RenewLost
    <3>2. UNCHANGED counted
      BY <2>2 DEF C!RenewLost
    <3> QED
      BY <3>1, <3>2
  <2> QED
    BY <2>1, <2>2
<1>4. /\ job' = [x \in Tasks |-> job'[x]]
      /\ \A x \in Tasks : IsJob(job'[x])
      /\ counted' = [x \in Tasks |-> IF job'[x].status = "finished" THEN 1 ELSE 0]
  BY <1>3, TasksKept, TaskRenewed
<1>5. CASE C!Renew(w)
  <2> DEFINE r == [worker[w] EXCEPT !.renew = RenewTicks, !.stray = 0]
  <2>1. worker' = [worker EXCEPT ![w] = r]
    BY <1>5 DEF C!Renew, WorkerInv, WorkerTypeOK
  <2>2. IsWorker(r) /\ r.pc = "execute" /\ r.renew = RenewTicks /\ r.stray = 0
    BY <1>1, <1>2 DEF IsWorker, C!MustRenew, C!At
  <2> HIDE DEF r
  <2>3. Bounded(r)
    BY <2>2, WorkerConstants DEF Bounded
  <2> QED
    BY <1>4, <2>1, <2>2, <2>3, WorkerMoves
<1>6. CASE C!RenewLost(w)
  <2> DEFINE r == [worker[w] EXCEPT !.pc = "hang", !.renew = CallTicks]
  <2>1. worker' = [worker EXCEPT ![w] = r]
    BY <1>6 DEF C!RenewLost, WorkerInv, WorkerTypeOK
  <2>2. IsWorker(r) /\ r.pc = "hang" /\ r.renew = CallTicks /\ r.stray = worker[w].stray
    BY <1>1 DEF IsWorker
  <2> HIDE DEF r
  <2>3. worker[w].stray \in Nat /\ worker[w].stray <= RenewTicks
    BY <1>1, <1>2, WorkerConstants DEF Bounded, Runs, C!MustRenew, C!At
  <2>4. Bounded(r)
    BY <2>2, <2>3, WorkerConstants DEF Bounded
  <2> QED
    BY <1>4, <2>1, <2>2, <2>4, WorkerMoves
<1> QED
  BY <1>5, <1>6

(* What a gate strays in a tick is taken from the time it has left.        *)
LEMMA Ticking == ASSUME WorkerInv, C!Tick PROVE WorkerInv'
<1>1. /\ \A w \in Workers : C!Waiting(w)
      /\ job' = [t \in Tasks |-> [job[t] EXCEPT !.ticks = C!Down(@)]]
      /\ worker' = [w \in Workers |-> [worker[w] EXCEPT !.left = C!Down(@), !.renew = C!Down(@),
                                                      !.stray = C!Strayed(w)]]
      /\ UNCHANGED counted
  BY DEF C!Tick
<1>2. ASSUME NEW t \in Tasks PROVE IsJob(job'[t]) /\ job'[t].status = job[t].status
  <2>1. IsJob(job[t])
    BY DEF WorkerInv, WorkerTypeOK
  <2>2. job'[t] = [job[t] EXCEPT !.ticks = C!Down(job[t].ticks)]
    BY <1>1
  <2> QED
    BY <2>1, <2>2 DEF IsJob
<1>3. ASSUME NEW w \in Workers
      PROVE  /\ IsWorker(worker'[w]) /\ worker'[w].pc = worker[w].pc /\ worker'[w].task = worker[w].task
             /\ worker'[w].renew = C!Down(worker[w].renew) /\ worker'[w].stray = C!Strayed(w)
  <2>1. IsWorker(worker[w])
    BY DEF WorkerInv, WorkerTypeOK
  <2>2. worker'[w] = [worker[w] EXCEPT !.left = C!Down(worker[w].left), !.renew = C!Down(worker[w].renew),
                                       !.stray = C!Strayed(w)]
    BY <1>1
  <2> QED
    BY <2>1, <2>2 DEF IsWorker
<1>4. WorkerTypeOK'
  BY <1>1, <1>2, <1>3 DEF WorkerTypeOK
<1>5. CountedWhenFinished'
  BY <1>1, <1>2 DEF WorkerInv, CountedWhenFinished
<1>6. ASSUME NEW w \in Workers PROVE Bounded(worker'[w])
  <2>1. Bounded(worker[w]) /\ worker[w].renew \in Nat /\ worker[w].stray \in Nat
    BY WorkerConstants DEF WorkerInv, Bounded
  <2>2. Runs(worker'[w]) <=> Runs(worker[w])
    BY <1>3 DEF Runs
  <2>3. CASE ~Runs(worker[w])
    <3>1. C!Strayed(w) = 0
      BY <2>3 DEF Runs, C!Strayed, C!RunsGate, C!At
    <3> QED
      BY <1>3, <2>1, <2>2, <2>3, <3>1, WorkerConstants DEF Bounded, C!Down
  <2>4. CASE Runs(worker[w])
    <3>1. worker[w].renew > 0
      <4>1. C!Waiting(w) /\ ~C!At(w, "sleep")
        BY <1>1, <2>4 DEF Runs, C!At
      <4>2. worker[w].renew # 0
        BY <2>1, <2>4, <4>1 DEF Runs, C!Waiting, C!MustRenew, C!At
      <4> QED
        BY <2>1, <4>2
    <3>2. worker'[w].renew = worker[w].renew - 1
      BY <1>3, <2>1, <3>1 DEF C!Down
    <3>3. C!Strayed(w) \in {0, worker[w].stray + 1}
      BY DEF C!Strayed
    <3> QED
      BY <1>3, <2>1, <2>2, <2>4, <3>1, <3>2, <3>3, WorkerConstants DEF Bounded
  <2> QED
    BY <2>3, <2>4
<1> QED
  BY <1>4, <1>5, <1>6 DEF WorkerInv, Bounded, Runs

LEMMA Stopping == ASSUME WorkerInv, NEW t \in Tasks, C!Stop(t) PROVE WorkerInv'
<1> DEFINE r == [job[t] EXCEPT !.status = "blocked", !.ticks = 0]
<1>1. job = [x \in Tasks |-> job[x]] /\ \A x \in Tasks : IsJob(job[x])
  BY DEF WorkerInv, WorkerTypeOK
<1>2. /\ job' = [job EXCEPT ![t] = r] /\ job[t].status \in {"queued", "running"}
      /\ UNCHANGED <<worker, counted>>
  BY <1>1 DEF C!Stop
<1>3. IsJob(r) /\ r.status = "blocked"
  BY <1>1 DEF IsJob
<1> HIDE DEF r
<1>4. job' = [x \in Tasks |-> job'[x]] /\ \A x \in Tasks : job'[x] = IF x = t THEN r ELSE job[x]
  BY <1>1, <1>2
<1>5. WorkerTypeOK'
  BY <1>1, <1>2, <1>3, <1>4 DEF WorkerInv, WorkerTypeOK
<1>6. CountedWhenFinished'
  BY <1>2, <1>3, <1>4 DEF WorkerInv, CountedWhenFinished
<1> QED
  BY <1>2, <1>5, <1>6 DEF WorkerInv, Bounded, Runs

LEMMA NextWorker == WorkerInv /\ [C!Next]_C!vars => WorkerInv'
<1> SUFFICES ASSUME WorkerInv, [C!Next]_C!vars PROVE WorkerInv'
  OBVIOUS
<1>1. UNCHANGED <<job, worker, counted>> => WorkerInv'
  BY DEF WorkerInv, WorkerTypeOK, CountedWhenFinished, Bounded, Runs
<1>2. UNCHANGED C!vars \/ (\E t \in Tasks : C!OrphanEnds(t)) => WorkerInv'
  BY <1>1 DEF C!vars, C!OrphanEnds
<1> QED
  BY <1>2, Leasing, Sleeping, WorkingAlone, Renewing, Ticking, Stopping DEF C!Next, C!Work

LEMMA WorkerSafe == C!Spec => []WorkerInv
  BY InitWorker, NextWorker, PTL DEF C!Spec

(* A worker ends its gate within one renewal interval and one call of      *)
(* losing the lease, for any number of workers and tasks and any lengths   *)
(* of leases, renewals and calls, whichever calls are lost, tasks stopped, *)
(* workers killed and executions slow (run_gate, renew_task_lease).        *)
THEOREM GateEnds == C!Spec => []GateStopsWithoutLease
<1>1. WorkerInv => GateStopsWithoutLease
  BY WorkerConstants DEF WorkerInv, Bounded, GateStopsWithoutLease, C!GateStopsWithoutLease
<1> QED
  BY <1>1, WorkerSafe, PTL

(* A result counts once, although work is repeated after a lost completion *)
(* and by a second worker: the worker and the server implement SingleUse   *)
(* (complete_task).                                                        *)
THEOREM ResultCounted == C!Spec => ResultCountedOnce
<1>1. C!Init => C!Once!Init
  BY DEF C!Init, C!Once!Init
<1>2. ASSUME WorkerInv, [C!Next]_C!vars PROVE [C!Once!Next]_counted
  <2>1. ASSUME NEW t \in Tasks, counted[t] = 0, counted' = [counted EXCEPT ![t] = 1] PROVE C!Once!Next
    <3>1. C!Once!Spend({t})
      BY <1>2, <2>1 DEF C!Once!Spend, WorkerInv, CountedWhenFinished
    <3> QED
      BY <3>1 DEF C!Once!Next
  <2>2. ASSUME NEW w \in Workers, C!Record(w) PROVE [C!Once!Next]_counted
    BY <1>2, <2>1, <2>2, ResultRecorded
  <2>3. CASE UNCHANGED counted
    BY <2>3
  <2> QED
    BY <1>2, <2>2, <2>3
    DEF C!Next, C!vars, C!Tick, C!Stop, C!Work, C!Lease, C!NoTask, C!Wake, C!Renew, C!RenewRefused,
        C!RenewTimesOut, C!Finish, C!Complete, C!LeaseLost, C!RenewLost, C!CompleteLost, C!Slow, C!Kill,
        C!OrphanEnds
<1>3. WorkerInv /\ [C!Next]_C!vars => [C!Once!Next]_counted
  BY <1>2
<1> QED
  BY <1>1, <1>3, WorkerSafe, PTL DEF C!Spec, ResultCountedOnce, C!ResultCountedOnce, C!Once!Spec

----------------------------------------------------------------------------
(* The worker: what it reports                                             *)

(* A perfect score is that of a task that succeeded.                       *)
Tested(r) == r # None /\ r.score = 100 => r.status = "succeeded"

ResultInv ==
    /\ scope \in Scopes
    /\ \A t \in Tasks : Tested(job[t].result)
    /\ \A w \in Workers : Tested(worker[w].result)

LEMMA EdgeCardinality == \A S : C!Cardinality(S) = Cardinality(S)
BY DEF C!Cardinality, Cardinality

LEMMA EdgeFinite == \A S \in Scopes : IsFiniteSet(S)
<1>1. \A S : C!IsFiniteSet(S) <=> IsFiniteSet(S)
  BY DEF C!IsFiniteSet, IsFiniteSet
<1> QED
  BY <1>1, WorkAssumption DEF C!WorkerAssumption

LEMMA CostlyFindings ==
    ASSUME NEW a \in Nat, NEW b \in Nat, NEW c \in Nat, NEW d \in Nat
    PROVE  /\ 35 * a + 15 * b + 7 * c + 2 * d \in Nat
           /\ 35 * a + 15 * b + 7 * c + 2 * d = 0 => b = 0 /\ c = 0
<1>1. 35 * a \in Nat /\ 15 * b \in Nat /\ 7 * c \in Nat /\ 2 * d \in Nat
  OBVIOUS
<1>2. (15 * b = 0 => b = 0) /\ (7 * c = 0 => c = 0)
  OBVIOUS
<1>3. ASSUME NEW v \in Nat, NEW x \in Nat, NEW y \in Nat, NEW z \in Nat
      PROVE  v + x + y + z \in Nat /\ (v + x + y + z = 0 => x = 0 /\ y = 0)
  <2>1. v + x + y + z \in Nat
    OBVIOUS
  <2>2. v + x + y + z >= x /\ v + x + y + z >= y
    OBVIOUS
  <2> QED
    BY <2>1, <2>2
<1> QED
  BY <1>1, <1>2, <1>3

(* Inspections that cost nothing have found nothing, and those of a target *)
(* that was not tested have found something.                               *)
LEMMA AssessedTested ==
    ASSUME scope \in Scopes,
           NEW i \in [scope -> UNION {C!Inspections(k) : k \in scope}],
           \A k \in scope : i[k] \in C!Inspections(k)
    PROVE  Tested(C!Assessed(i))
<1> DEFINE of(severity) == {k \in scope : i[k].found = severity}
           number(severity) == C!Cardinality(of(severity))
           cost == 35 * number("critical") + 15 * number("high") + 7 * number("medium") + 2 * number("low")
           completed == {k \in scope : i[k].status = "completed"}
<1>1. /\ C!Assessed(i).score = IF cost > 100 THEN 0 ELSE 100 - cost
      /\ C!Assessed(i).status = IF completed = scope THEN "succeeded" ELSE "failed"
  BY DEF C!Assessed
<1>2. \A s : IsFiniteSet(of(s)) /\ number(s) \in Nat /\ (number(s) = 0 => of(s) = {})
  <2> SUFFICES ASSUME NEW s PROVE IsFiniteSet(of(s)) /\ number(s) \in Nat /\ (number(s) = 0 => of(s) = {})
    OBVIOUS
  <2>1. IsFiniteSet(of(s))
    BY EdgeFinite, FS_Subset
  <2>2. Cardinality(of(s)) \in Nat /\ (Cardinality(of(s)) = 0 => of(s) = {})
    BY <2>1, FS_CardinalityType, FS_EmptySet
  <2> QED
    BY <2>1, <2>2, EdgeCardinality
<1>3. \A k \in scope : i[k].status = "completed" \/ k \in of("high") \/ k \in of("medium")
  <2> SUFFICES ASSUME NEW k \in scope
               PROVE  i[k].status = "completed" \/ i[k].found \in {"high", "medium"}
    OBVIOUS
  <2>1. i[k] \in C!Inspections(k)
    OBVIOUS
  <2> QED
    BY <2>1 DEF C!Inspections, C!WebsiteInspections, C!RepositoryInspections
<1> HIDE DEF of, completed
<1>4. number("critical") \in Nat /\ number("high") \in Nat /\ number("medium") \in Nat /\ number("low") \in Nat
  BY <1>2
<1> HIDE DEF number
<1>5. cost \in Nat /\ (cost = 0 => number("high") = 0 /\ number("medium") = 0)
  BY <1>4, CostlyFindings
<1>6. cost = 0 => completed = scope
  BY <1>2, <1>3, <1>5 DEF completed, number
<1> HIDE DEF cost
<1>7. C!Assessed(i).score = 100 => cost = 0
  BY <1>1, <1>5
<1> QED
  BY <1>1, <1>6, <1>7 DEF Tested

LEMMA ResultTested ==
    ASSUME scope \in Scopes, NEW t, NEW r \in C!Results(t) PROVE Tested(r)
<1>1. None # 100
  BY WorkAssumption DEF C!WorkerAssumption
<1>2. Tested(C!Failed) /\ Tested([C!Failed EXCEPT !.status = "succeeded"])
  BY <1>1 DEF Tested, C!Failed
<1> QED
  BY <1>2, AssessedTested DEF C!Results

(* A step of the worker w keeps the results of the others.                 *)
LEMMA ResultKept ==
    ASSUME WorkerInv, ResultInv, scope' = scope, NEW w \in Workers,
           NEW r, worker' = [worker EXCEPT ![w] = r], Tested(r.result),
           \A t \in Tasks : job'[t].result \in {job[t].result, worker[w].result}
    PROVE  ResultInv'
<1>1. worker = [v \in Workers |-> worker[v]]
  BY DEF WorkerInv, WorkerTypeOK
<1>2. \A v \in Workers : worker'[v] = IF v = w THEN r ELSE worker[v]
  BY <1>1
<1> QED
  BY <1>2 DEF ResultInv

LEMMA ResultTyped ==
    ASSUME WorkerInv
    PROVE  /\ job = [t \in Tasks |-> job[t]] /\ \A t \in Tasks : IsJob(job[t])
           /\ worker = [w \in Workers |-> worker[w]] /\ \A w \in Workers : IsWorker(worker[w])
BY DEF WorkerInv, WorkerTypeOK

(* Handing a task out, and the sweep before, change no result.             *)
LEMMA ResultRequeued ==
    ASSUME WorkerInv
    PROVE  /\ \A t \in Tasks : C!Requeued[t].result = job[t].result
           /\ \A u \in Tasks, t \in Tasks : C!HandOut(u)[t].result = job[t].result
<1>1. /\ C!Requeued = [t \in Tasks |-> C!Requeued[t]]
      /\ \A t \in Tasks : C!Requeued[t].result = job[t].result /\ IsJob(C!Requeued[t])
  BY ResultTyped DEF C!Requeued, IsJob
<1>2. ASSUME NEW u \in Tasks, NEW t \in Tasks PROVE C!HandOut(u)[t].result = job[t].result
  <2> DEFINE r == [C!Requeued[u] EXCEPT !.status = "running", !.lease = C!Token(u), !.ticks = LeaseTicks]
  <2>1. C!HandOut(u) = [C!Requeued EXCEPT ![u] = r]
    BY DEF C!HandOut
  <2>2. r.result = job[u].result
    BY <1>1 DEF IsJob
  <2> QED
    BY <1>1, <2>1, <2>2
<1> QED
  BY <1>1, <1>2

LEMMA ResultRecords ==
    ASSUME WorkerInv, NEW w \in Workers, C!Record(w)
    PROVE  \A t \in Tasks : job'[t].result \in {job[t].result, worker[w].result}
<1> DEFINE u == worker[w].task
           r == [job[u] EXCEPT !.status = "finished", !.ticks = 0, !.result = worker[w].result]
<1>1. job' = job \/ job' = [job EXCEPT ![u] = r]
  BY DEF C!Record
<1>2. \A t \in Tasks : job'[t] = job[t] \/ (t = u /\ job'[t] = r)
  BY <1>1, ResultTyped
<1>3. u \in Tasks => r.result = worker[w].result
  BY ResultTyped DEF IsJob
<1> QED
  BY <1>2, <1>3

LEMMA NextResult == WorkerInv /\ ResultInv /\ [C!Next]_C!vars => ResultInv'
<1> SUFFICES ASSUME WorkerInv, ResultInv, [C!Next]_C!vars PROVE ResultInv'
  OBVIOUS
<1> USE DEF C!At
<1>1. scope' = scope
  BY DEF C!Next, C!vars
<1>2. /\ job = [t \in Tasks |-> job[t]] /\ \A t \in Tasks : IsJob(job[t])
      /\ worker = [w \in Workers |-> worker[w]] /\ \A w \in Workers : IsWorker(worker[w])
  BY ResultTyped
<1>3. Tested(C!Fresh.result) /\ Tested(None)
  BY DEF Tested, C!Fresh
<1>4. Tested(C!Failed)
  <2>1. None # 100
    BY WorkAssumption DEF C!WorkerAssumption
  <2> QED
    BY <2>1 DEF Tested, C!Failed
<1>5. ASSUME NEW w \in Workers, NEW r, worker' = [worker EXCEPT ![w] = r],
             Tested(r.result) \/ r.result = worker[w].result,
             UNCHANGED job \/ C!Record(w) \/ job' = C!Requeued \/ (\E t \in Tasks : job' = C!HandOut(t))
      PROVE  ResultInv'
  <2>1. Tested(r.result)
    BY <1>5 DEF ResultInv
  <2>2. \A t \in Tasks : job'[t].result \in {job[t].result, worker[w].result}
    BY <1>5, ResultRequeued, ResultRecords
  <2> QED
    BY <1>1, <1>5, <2>1, <2>2, ResultKept
<1>6. ASSUME NEW w \in Workers, C!Sleep(w) PROVE \E r : worker' = [worker EXCEPT ![w] = r] /\ r.result = None
  <2> DEFINE r == [C!Fresh EXCEPT !.pc = "sleep", !.left = 1]
  <2>1. r.result = None
    BY DEF C!Fresh
  <2> QED
    BY <1>6, <2>1 DEF C!Sleep
<1>7. ASSUME NEW w \in Workers, C!Lease(w) \/ C!NoTask(w) \/ C!LeaseLost(w) PROVE ResultInv'
  <2>1. CASE C!Lease(w)
    <3>1. PICK t \in Tasks :
            /\ job' = C!HandOut(t)
            /\ worker' = [worker EXCEPT ![w] = [pc |-> "execute", task |-> t, lease |-> C!Token(t),
                             left |-> Duration[t], renew |-> RenewTicks, stray |-> 0, result |-> None]]
      BY <2>1 DEF C!Lease
    <3> QED
      BY <1>3, <1>5, <3>1
  <2>2. CASE C!NoTask(w) \/ C!LeaseLost(w)
    <3>1. C!Sleep(w) /\ (job' = C!Requeued \/ \E t \in Tasks : job' = C!HandOut(t))
      BY <2>2 DEF C!NoTask, C!LeaseLost
    <3> QED
      BY <1>3, <1>5, <1>6, <3>1
  <2> QED
    BY <1>7, <2>1, <2>2
<1>8. ASSUME NEW w \in Workers, C!Wake(w) \/ C!Kill(w) PROVE ResultInv'
  BY <1>3, <1>5, <1>8 DEF C!Wake, C!Kill
<1>9. ASSUME NEW w \in Workers, C!RenewRefused(w) \/ C!RenewTimesOut(w) \/ C!Finish(w) PROVE ResultInv'
  <2>1. ASSUME NEW x, Tested(x), UNCHANGED job,
               worker' = [worker EXCEPT ![w].pc = "complete", ![w].result = x]
        PROVE  ResultInv'
    <3> DEFINE r == [worker[w] EXCEPT !.pc = "complete", !.result = x]
    <3>1. r.result = x
      BY <1>2 DEF IsWorker
    <3>2. worker' = [worker EXCEPT ![w] = r]
      BY <2>1
    <3> HIDE DEF r
    <3> QED
      BY <1>5, <2>1, <3>1, <3>2
  <2>2. CASE C!RenewRefused(w) \/ C!RenewTimesOut(w)
    BY <1>4, <2>1, <2>2 DEF C!RenewRefused, C!RenewTimesOut, C!GiveUp
  <2>3. CASE C!Finish(w)
    <3>1. PICK x \in C!Results(worker[w].task) :
            worker' = [worker EXCEPT ![w].pc = "complete", ![w].result = x]
      BY <2>3 DEF C!Finish
    <3>2. Tested(x) /\ UNCHANGED job
      BY <2>3, ResultTested DEF C!Finish, ResultInv
    <3> QED
      BY <2>1, <3>1, <3>2
  <2> QED
    BY <1>9, <2>2, <2>3
<1>10. ASSUME NEW w \in Workers, C!Complete(w) \/ C!CompleteLost(w) PROVE ResultInv'
  <2>1. UNCHANGED job \/ C!Record(w)
    BY <1>10 DEF C!Complete, C!CompleteLost
  <2>2. worker' = [worker EXCEPT ![w] = C!Fresh] \/ C!Sleep(w)
    BY <1>10 DEF C!Complete, C!CompleteLost
  <2> QED
    BY <1>3, <1>5, <1>6, <2>1, <2>2
<1>11. ASSUME NEW w \in Workers, C!Renew(w) \/ C!RenewLost(w) \/ C!Slow(w) PROVE ResultInv'
  <2>1. ASSUME NEW t \in Tasks PROVE [job EXCEPT ![worker[w].task].ticks = LeaseTicks][t].result = job[t].result
    BY <1>2 DEF IsJob
  <2>2. \A t \in Tasks : job'[t].result = job[t].result
    BY <1>11, <2>1 DEF C!Renew, C!RenewLost, C!Slow
  <2>3. PICK r : worker' = [worker EXCEPT ![w] = r] /\ r.result = worker[w].result
    <3>1. CASE C!Renew(w)
      <4> DEFINE r == [worker[w] EXCEPT !.renew = RenewTicks, !.stray = 0]
      <4>1. worker' = [worker EXCEPT ![w] = r] /\ r.result = worker[w].result
        BY <1>2, <3>1 DEF C!Renew, IsWorker
      <4> QED
        BY <4>1
    <3>2. CASE C!RenewLost(w)
      <4> DEFINE r == [worker[w] EXCEPT !.pc = "hang", !.renew = CallTicks]
      <4>1. worker' = [worker EXCEPT ![w] = r] /\ r.result = worker[w].result
        BY <1>2, <3>2 DEF C!RenewLost, IsWorker
      <4> QED
        BY <4>1
    <3>3. CASE C!Slow(w)
      <4> DEFINE r == [worker[w] EXCEPT !.left = @ + LeaseTicks]
      <4>1. worker' = [worker EXCEPT ![w] = r] /\ r.result = worker[w].result
        BY <1>2, <3>3 DEF C!Slow, IsWorker
      <4> QED
        BY <4>1
    <3> QED
      BY <1>11, <3>1, <3>2, <3>3
  <2>4. Tested(r.result)
    BY <2>3 DEF ResultInv
  <2> QED
    BY <1>1, <2>2, <2>3, <2>4, ResultKept
<1>12. CASE C!Tick
  <2>1. \A t \in Tasks : job'[t].result = job[t].result
    BY <1>2, <1>12 DEF C!Tick, IsJob
  <2>2. \A w \in Workers : worker'[w].result = worker[w].result
    BY <1>2, <1>12 DEF C!Tick, IsWorker
  <2> QED
    BY <1>1, <2>1, <2>2 DEF ResultInv
<1>13. ASSUME NEW u \in Tasks, C!Stop(u) PROVE ResultInv'
  <2>1. \A t \in Tasks : job'[t].result = job[t].result
    BY <1>2, <1>13 DEF C!Stop, IsJob
  <2>2. worker' = worker
    BY <1>13 DEF C!Stop
  <2> QED
    BY <1>1, <2>1, <2>2 DEF ResultInv
<1>14. CASE UNCHANGED C!vars \/ \E t \in Tasks : C!OrphanEnds(t)
  BY <1>1, <1>14 DEF C!vars, C!OrphanEnds, ResultInv
<1> QED
  BY <1>7, <1>8, <1>9, <1>10, <1>11, <1>12, <1>13, <1>14 DEF C!Next, C!Work

(* A perfect score on record is that of a task that succeeded: no target   *)
(* was left out, failed or could not be tested, for any scope of an        *)
(* engagement and whatever the inspections find (_execute_assessment).     *)
THEOREM PerfectIsTested == C!Spec => []PerfectMeansTested
<1>1. C!Init => ResultInv
  BY DEF C!Init, C!Fresh, ResultInv, Tested
<1>2. ResultInv => PerfectMeansTested
  BY DEF ResultInv, Tested, PerfectMeansTested, C!PerfectMeansTested
<1> QED
  BY <1>1, <1>2, WorkerSafe, NextResult, PTL DEF C!Spec
============================================================================
