--------------------------- MODULE Toolkits_proofs ---------------------------
(***************************************************************************)
(* What the tools of the teams promise, for every set of runs, checks,     *)
(* clients, events, processes, reports, claims and weights: the red team's *)
(* engine, the owner's console, the blue team's detection store, the       *)
(* hand-over of findings, the claim gate and the program's history.        *)
(*                                                                         *)
(* Each tool is an instance of its module whose parameters stay parameters *)
(* (Toolkits); what is assumed of them is ToolkitsAssumption.              *)
(***************************************************************************)
EXTENDS Toolkits, FiniteSetTheorems, WellFoundedInduction, TLAPS

----------------------------------------------------------------------------
(* The red team's engine                                                   *)

RedEvents == {"started", "check", "finished"}

RedThread == [pc : {"queued", "wait", "completed", "failed", "recorded"}, left : Int]

RedApprover ==
    [pc : {"rest", "signed", "read"}, scope : Scopes \cup {None}, data : Scopes \cup {None}]

RedRun == [pc : {"rest", "append", "write", "wait", "done", "failed", "killed"},
           scope : Scopes \cup {None}, event : RedEvents \cup {None}, tail : Nat]

RedBudget == [used : Nat, inside : Tasks \cup {None}]

RedRecord == [run : RunIds, event : RedEvents \cup {None}, previous : Nat]

RedTypeOK ==
    /\ file \in [scope : Scopes, receipt : Scopes \cup {None}]
    /\ approver \in RedApprover
    /\ approver.pc = "read" => approver.data \in Scopes
    /\ stop \in BOOLEAN
    /\ run \in [RunIds -> RedRun]
    /\ thread \in [RunIds -> [Tasks -> RedThread]]
    /\ budget \in [RunIds -> RedBudget]
    /\ ledger \in Seq(RedRecord)
    /\ signed \in SUBSET Scopes
    /\ late \in [RunIds -> Nat]

(* Every receipt comes from a signature, and every scope that is run from  *)
(* a receipt.                                                              *)
Receipts ==
    /\ file.receipt # None => file.receipt \in signed
    /\ approver.pc # "rest" => approver.scope \in signed
    /\ Red!RunsWhatWasSigned

(* A thread that waits for the rate limit is the one inside                *)
(* consume_request; its request is inside the budget before it counts, and *)
(* only such a request is still counted once STOP exists.                  *)
Admitted ==
    \A r \in RunIds :
        /\ \A t \in Tasks : thread[r][t].pc = "wait" => budget[r].inside = t
        /\ budget[r].used <= MaxRequests
        /\ budget[r].inside # None => budget[r].used < MaxRequests /\ late[r] = 0
        /\ ~stop => late[r] = 0
        /\ late[r] <= 1

RedInv == RedTypeOK /\ Receipts /\ Admitted

LEMMA InitRed == Red!EngineAssumption /\ Red!Init => RedInv
<1> SUFFICES ASSUME Red!EngineAssumption, Red!Init PROVE RedInv
  OBVIOUS
<1> USE DEF Red!EngineAssumption, Red!Init
<1>1. thread \in [RunIds -> [Tasks -> RedThread]]
  <2>1. \A t \in Tasks : [pc |-> "queued", left |-> Requests[t]] \in RedThread
    BY DEF RedThread
  <2> QED
    BY <2>1
<1>2. RedTypeOK
  <2>1. run \in [RunIds -> RedRun] /\ budget \in [RunIds -> RedBudget]
    BY DEF RedRun, RedBudget
  <2>2. file \in [scope : Scopes, receipt : Scopes \cup {None}]
    OBVIOUS
  <2>3. approver \in RedApprover /\ approver.pc = "rest"
    BY DEF Red!NoApprover, RedApprover
  <2>4. ledger \in Seq(RedRecord) /\ late \in [RunIds -> Nat] /\ signed \in SUBSET Scopes
    OBVIOUS
  <2>5. stop \in BOOLEAN
    OBVIOUS
  <2> QED
    BY <1>1, <2>1, <2>2, <2>3, <2>4, <2>5 DEF RedTypeOK
<1>3. Receipts
  BY DEF Red!NoApprover, Receipts, Red!RunsWhatWasSigned
<1>4. Admitted
  BY DEF Admitted
<1> QED
  BY <1>2, <1>3, <1>4 DEF RedInv

(* What the steps of one thread do to the threads of all runs.             *)
LEMMA CollectStep ==
    ASSUME RedTypeOK, NEW r \in RunIds, NEW t \in Tasks, Red!Collect(r, t)
    PROVE  /\ thread' \in [RunIds -> [Tasks -> RedThread]]
           /\ \A q \in RunIds, u \in Tasks : thread'[q][u].pc = "wait" => thread[q][u].pc = "wait"
<1> DEFINE x == [thread[r][t] EXCEPT !.pc = "recorded"]
<1>1. thread \in [RunIds -> [Tasks -> RedThread]]
  BY DEF RedTypeOK
<1>2. thread[r][t] \in RedThread
  BY <1>1
<1>3. x \in RedThread
  BY <1>2 DEF RedThread
<1>4. x.pc = "recorded"
  BY <1>2 DEF RedThread
<1>5. thread' = [thread EXCEPT ![r] = [@ EXCEPT ![t] = x]]
  BY DEF Red!Collect
<1> HIDE DEF x
<1> QED
  BY <1>1, <1>3, <1>4, <1>5

LEMMA DoneStep ==
    ASSUME RedTypeOK, NEW r \in RunIds, NEW t \in Tasks, Red!Done(r, t)
    PROVE  /\ thread' \in [RunIds -> [Tasks -> RedThread]]
           /\ \A q \in RunIds, u \in Tasks : thread'[q][u].pc = "wait" => thread[q][u].pc = "wait"
<1> DEFINE x == [thread[r][t] EXCEPT !.pc = "completed"]
<1>1. thread \in [RunIds -> [Tasks -> RedThread]]
  BY DEF RedTypeOK
<1>2. thread[r][t] \in RedThread
  BY <1>1
<1>3. x \in RedThread
  BY <1>2 DEF RedThread
<1>4. x.pc = "completed"
  BY <1>2 DEF RedThread
<1>5. thread' = [thread EXCEPT ![r] = [@ EXCEPT ![t] = x]]
  BY DEF Red!Done
<1> HIDE DEF x
<1> QED
  BY <1>1, <1>3, <1>4, <1>5

LEMMA AdmitStep ==
    ASSUME RedTypeOK, NEW r \in RunIds, NEW t \in Tasks, Red!Admit(r, t)
    PROVE  /\ thread' \in [RunIds -> [Tasks -> RedThread]]
           /\ budget[r].inside = None
           /\ \/ /\ ~stop /\ budget[r].used < MaxRequests
                 /\ budget' = [budget EXCEPT ![r].inside = t]
                 /\ \A q \in RunIds, u \in Tasks : thread'[q][u].pc = "wait" =>
                       thread[q][u].pc = "wait" \/ (q = r /\ u = t)
              \/ /\ budget' = budget
                 /\ \A q \in RunIds, u \in Tasks : thread'[q][u].pc = "wait" => thread[q][u].pc = "wait"
<1>1. thread \in [RunIds -> [Tasks -> RedThread]]
  BY DEF RedTypeOK
<1>2. thread[r][t] \in RedThread
  BY <1>1
<1>3. budget[r].inside = None
  BY DEF Red!Admit, Red!Turn
<1>4. CASE Red!Running /\ budget[r].used < MaxRequests
  <2> DEFINE x == [thread[r][t] EXCEPT !.pc = "wait"]
  <2>1. x \in RedThread
    BY <1>2 DEF RedThread
  <2>2. thread' = [thread EXCEPT ![r] = [@ EXCEPT ![t] = x]]
    BY <1>4 DEF Red!Admit
  <2>3. ~stop /\ budget' = [budget EXCEPT ![r].inside = t]
    BY <1>4 DEF Red!Admit, Red!Running
  <2> HIDE DEF x
  <2> QED
    BY <1>1, <1>3, <1>4, <2>1, <2>2, <2>3
<1>5. CASE ~(Red!Running /\ budget[r].used < MaxRequests)
  <2> DEFINE x == [thread[r][t] EXCEPT !.pc = "failed"]
  <2>1. x \in RedThread
    BY <1>2 DEF RedThread
  <2>2. x.pc = "failed"
    BY <1>2 DEF RedThread
  <2>3. thread' = [thread EXCEPT ![r] = [@ EXCEPT ![t] = x]]
    BY <1>5 DEF Red!Admit
  <2>4. budget' = budget
    BY <1>5 DEF Red!Admit
  <2> HIDE DEF x
  <2> QED
    BY <1>1, <1>3, <2>1, <2>2, <2>3, <2>4
<1> QED
  BY <1>4, <1>5

LEMMA CountStep ==
    ASSUME RedTypeOK, NEW r \in RunIds, NEW t \in Tasks, Red!Count(r, t)
    PROVE  /\ thread' \in [RunIds -> [Tasks -> RedThread]]
           /\ thread[r][t].pc = "wait" /\ thread'[r][t].pc # "wait"
           /\ \A q \in RunIds, u \in Tasks : thread'[q][u].pc = "wait" => thread[q][u].pc = "wait"
<1>1. thread \in [RunIds -> [Tasks -> RedThread]]
  BY DEF RedTypeOK
<1>2. PICK status \in {"queued", "failed"} :
        thread' = [thread EXCEPT ![r][t].pc = status, ![r][t].left = @ - 1]
  BY DEF Red!Count
<1>3. thread[r][t].pc = "wait"
  BY DEF Red!Count
<1>4. thread' \in [RunIds -> [Tasks -> RedThread]]
  BY <1>1, <1>2 DEF RedThread
<1>5. \A q \in RunIds, u \in Tasks :
        thread'[q][u].pc = IF q = r /\ u = t THEN status ELSE thread[q][u].pc
  BY <1>1, <1>2 DEF RedThread
<1> QED
  BY <1>3, <1>4, <1>5

(* What the steps of the main thread do to the runs.                      *)
LEMMA RunStep ==
    ASSUME RedTypeOK, NEW r \in RunIds,
           \/ Red!TakeLock(r) \/ Red!AppendFails(r) \/ Red!Write(r) \/ Red!Conclude(r)
           \/ Red!Kill(r) \/ \E t \in Tasks : Red!Collect(r, t)
    PROVE  /\ run' \in [RunIds -> RedRun]
           /\ \A q \in RunIds : run'[q].scope = run[q].scope
<1>1. run \in [RunIds -> RedRun]
  BY DEF RedTypeOK
<1>2. Len(ledger) \in Nat
  BY DEF RedTypeOK
<1>3. ASSUME NEW p \in {"write", "failed", "done", "wait", "append", "killed"},
             run' = [run EXCEPT ![r].pc = p]
      PROVE  run' \in [RunIds -> RedRun] /\ \A q \in RunIds : run'[q].scope = run[q].scope
  BY <1>1, <1>3 DEF RedRun
<1>4. ASSUME NEW n \in Nat, run' = [run EXCEPT ![r].pc = "write", ![r].tail = n]
      PROVE  run' \in [RunIds -> RedRun] /\ \A q \in RunIds : run'[q].scope = run[q].scope
  BY <1>1, <1>4 DEF RedRun
<1>5. ASSUME NEW e \in RedEvents, run' = [run EXCEPT ![r].pc = "append", ![r].event = e]
      PROVE  run' \in [RunIds -> RedRun] /\ \A q \in RunIds : run'[q].scope = run[q].scope
  BY <1>1, <1>5 DEF RedRun
<1>6. CASE Red!TakeLock(r)
  BY <1>2, <1>4, <1>6 DEF Red!TakeLock
<1>7. CASE Red!AppendFails(r) \/ Red!Write(r) \/ Red!Kill(r)
  BY <1>3, <1>7 DEF Red!AppendFails, Red!Write, Red!AfterRecord, Red!Kill
<1>8. CASE Red!Conclude(r) \/ \E t \in Tasks : Red!Collect(r, t)
  BY <1>5, <1>8 DEF Red!Conclude, Red!Collect, RedEvents
<1> QED
  BY <1>6, <1>7, <1>8
LEMMA NextRedTypeOK ==
    ASSUME Red!EngineAssumption, RedTypeOK, [Red!Next]_Red!vars
    PROVE  RedTypeOK'
<1> USE DEF Red!papers, Red!work, Red!records
<1>1. ASSUME NEW s \in Scopes, Red!Edit(s) PROVE RedTypeOK'
  BY <1>1 DEF Red!Edit, RedTypeOK
<1>2. CASE Red!Sign \/ Red!Reread \/ Red!Replace
  <2>1. /\ file' \in [scope : Scopes, receipt : Scopes \cup {None}]
        /\ approver' \in RedApprover /\ (approver'.pc = "read" => approver'.data \in Scopes)
        /\ signed' \in SUBSET Scopes
    <3>1. /\ file \in [scope : Scopes, receipt : Scopes \cup {None}]
          /\ approver \in RedApprover /\ (approver.pc = "read" => approver.data \in Scopes)
          /\ signed \in SUBSET Scopes
      BY DEF RedTypeOK
    <3>2. CASE Red!Sign
      BY <3>1, <3>2 DEF Red!Sign, RedApprover
    <3>3. CASE Red!Reread
      BY <3>1, <3>3 DEF Red!Reread, RedApprover
    <3>4. CASE Red!Replace
      BY <3>1, <3>4 DEF Red!Replace, Red!NoApprover, RedApprover
    <3> QED
      BY <1>2, <3>2, <3>3, <3>4
  <2> QED
    BY <1>2, <2>1 DEF Red!Sign, Red!Reread, Red!Replace, RedTypeOK
<1>3. CASE Red!StopAll
  BY <1>3 DEF Red!StopAll, RedTypeOK
<1>4. ASSUME NEW r \in RunIds, NEW s \in Scopes, Red!Begin(r, s) PROVE RedTypeOK'
  <2>1. run \in [RunIds -> RedRun] /\ file.scope \in Scopes
    BY DEF RedTypeOK
  <2>2. run' = [run EXCEPT ![r].pc = "append", ![r].scope = file.scope, ![r].event = "started"]
    BY <1>4 DEF Red!Begin
  <2>3. "started" \in RedEvents
    BY DEF RedEvents
  <2>4. [run[r] EXCEPT !.pc = "append", !.scope = file.scope, !.event = "started"] \in RedRun
    BY <2>1, <2>3 DEF RedRun
  <2>5. run' \in [RunIds -> RedRun]
    BY <2>1, <2>2, <2>4
  <2> QED
    BY <1>4, <2>5 DEF Red!Begin, RedTypeOK
<1>5. ASSUME NEW r \in RunIds,
             Red!TakeLock(r) \/ Red!AppendFails(r) \/ Red!Conclude(r) \/ Red!Kill(r)
      PROVE  RedTypeOK'
  <2>1. run' \in [RunIds -> RedRun]
    BY <1>5, RunStep
  <2> QED
    BY <1>5, <2>1 DEF Red!TakeLock, Red!AppendFails, Red!Conclude, Red!Kill, RedTypeOK
<1>6. ASSUME NEW r \in RunIds, Red!Write(r) PROVE RedTypeOK'
  <2>1. run' \in [RunIds -> RedRun]
    BY <1>6, RunStep
  <2>2. run[r] \in RedRun /\ ledger \in Seq(RedRecord)
    BY DEF RedTypeOK
  <2>3. [run |-> r, event |-> run[r].event, previous |-> run[r].tail] \in RedRecord
    BY <2>2 DEF RedRun, RedRecord
  <2>4. ledger' \in Seq(RedRecord)
    BY <1>6, <2>2, <2>3 DEF Red!Write
  <2> QED
    BY <1>6, <2>1, <2>4 DEF Red!Write, RedTypeOK
<1>7. ASSUME NEW r \in RunIds, NEW t \in Tasks, Red!Collect(r, t) PROVE RedTypeOK'
  <2>1. thread' \in [RunIds -> [Tasks -> RedThread]] /\ run' \in [RunIds -> RedRun]
    BY <1>7, CollectStep, RunStep
  <2> QED
    BY <1>7, <2>1 DEF Red!Collect, RedTypeOK
<1>8. ASSUME NEW r \in RunIds, NEW t \in Tasks, Red!Admit(r, t) PROVE RedTypeOK'
  <2>1. thread' \in [RunIds -> [Tasks -> RedThread]] /\ budget \in [RunIds -> RedBudget]
    BY <1>8, AdmitStep DEF RedTypeOK
  <2>2. budget' = budget \/ budget' = [budget EXCEPT ![r].inside = t]
    BY <1>8, AdmitStep
  <2>3. budget' \in [RunIds -> RedBudget]
    BY <2>1, <2>2 DEF RedBudget
  <2> QED
    BY <1>8, <2>1, <2>3 DEF Red!Admit, RedTypeOK
<1>9. ASSUME NEW r \in RunIds, NEW t \in Tasks, Red!Count(r, t) PROVE RedTypeOK'
  <2>1. /\ thread' \in [RunIds -> [Tasks -> RedThread]]
        /\ budget \in [RunIds -> RedBudget] /\ late \in [RunIds -> Nat]
    BY <1>9, CountStep DEF RedTypeOK
  <2>2. /\ budget' = [budget EXCEPT ![r].used = @ + 1, ![r].inside = None]
        /\ late' = [late EXCEPT ![r] = IF stop THEN @ + 1 ELSE @]
    BY <1>9 DEF Red!Count
  <2>3. [budget[r] EXCEPT !.used = @ + 1, !.inside = None] \in RedBudget
    <3>1. budget[r].used + 1 \in Nat
      BY <2>1 DEF RedBudget
    <3> QED
      BY <2>1, <3>1 DEF RedBudget
  <2>4. budget' \in [RunIds -> RedBudget] /\ late' \in [RunIds -> Nat]
    BY <2>1, <2>2, <2>3
  <2> QED
    BY <1>9, <2>1, <2>4 DEF Red!Count, RedTypeOK
<1>10. ASSUME NEW r \in RunIds, NEW t \in Tasks, Red!Done(r, t) PROVE RedTypeOK'
  <2>1. thread' \in [RunIds -> [Tasks -> RedThread]]
    BY <1>10, DoneStep
  <2> QED
    BY <1>10, <2>1 DEF Red!Done, RedTypeOK
<1>11. CASE UNCHANGED Red!vars
  BY <1>11 DEF Red!vars, RedTypeOK
<1> QED
  BY <1>1, <1>2, <1>3, <1>4, <1>5, <1>6, <1>7, <1>8, <1>9, <1>10, <1>11 DEF Red!Next

(* Signatures are only added, Replace is the one writer of a receipt and   *)
(* Begin the one that copies a scope into a run.                           *)
LEMMA NextReceipts ==
    ASSUME RedTypeOK, Receipts, [Red!Next]_Red!vars
    PROVE  Receipts'
<1> USE DEF Receipts, Red!RunsWhatWasSigned, Red!papers, Red!work, Red!records
<1>1. CASE \E s \in Scopes : Red!Edit(s)
  BY <1>1 DEF Red!Edit, RedTypeOK
<1>2. CASE Red!Sign
  BY <1>2 DEF Red!Sign
<1>3. CASE Red!Reread
  BY <1>3 DEF Red!Reread, RedTypeOK, RedApprover
<1>4. CASE Red!Replace
  BY <1>4 DEF Red!Replace, Red!NoApprover
<1>5. CASE Red!StopAll
  BY <1>5 DEF Red!StopAll
<1>6. ASSUME NEW r \in RunIds, NEW s \in Scopes, Red!Begin(r, s) PROVE Receipts'
  <2>1. file.scope \in signed /\ UNCHANGED <<file, approver, signed>>
    BY <1>6 DEF Red!Begin, Red!Covers
  <2>2. run \in [RunIds -> RedRun]
    BY DEF RedTypeOK
  <2>3. run' = [run EXCEPT ![r].pc = "append", ![r].scope = file.scope, ![r].event = "started"]
    BY <1>6 DEF Red!Begin
  <2>4. \A q \in RunIds : run'[q].scope = IF q = r THEN file.scope ELSE run[q].scope
    BY <2>2, <2>3 DEF RedRun
  <2> QED
    BY <2>1, <2>4
<1>7. ASSUME NEW r \in RunIds,
             \/ Red!TakeLock(r) \/ Red!AppendFails(r) \/ Red!Write(r) \/ Red!Conclude(r)
             \/ Red!Kill(r) \/ \E t \in Tasks : Red!Collect(r, t)
      PROVE  Receipts'
  <2>1. UNCHANGED <<file, approver, signed>>
    BY <1>7 DEF Red!TakeLock, Red!AppendFails, Red!Write, Red!Conclude, Red!Kill, Red!Collect
  <2>2. \A q \in RunIds : run'[q].scope = run[q].scope
    BY <1>7, RunStep
  <2> QED
    BY <2>1, <2>2
<1>8. ASSUME NEW r \in RunIds, NEW t \in Tasks,
             Red!Admit(r, t) \/ Red!Count(r, t) \/ Red!Done(r, t)
      PROVE  Receipts'
  BY <1>8 DEF Red!Admit, Red!Count, Red!Done
<1>9. CASE UNCHANGED Red!vars
  BY <1>9 DEF Red!vars
<1> QED
  BY <1>1, <1>2, <1>3, <1>4, <1>5, <1>6, <1>7, <1>8, <1>9 DEF Red!Next

(* Admit looks at STOP and the budget before the wait, Count counts after  *)
(* it, and nobody else is admitted in between.                             *)
LEMMA NextAdmitted ==
    ASSUME Red!EngineAssumption, RedTypeOK, Admitted, [Red!Next]_Red!vars
    PROVE  Admitted'
<1> USE DEF Admitted, Red!papers, Red!work, Red!records
<1>1. CASE (\E s \in Scopes : Red!Edit(s)) \/ Red!Sign \/ Red!Reread \/ Red!Replace
  BY <1>1 DEF Red!Edit, Red!Sign, Red!Reread, Red!Replace
<1>2. CASE Red!StopAll
  BY <1>2 DEF Red!StopAll
<1>3. ASSUME NEW r \in RunIds,
             \/ Red!TakeLock(r) \/ Red!AppendFails(r) \/ Red!Write(r) \/ Red!Conclude(r)
             \/ Red!Kill(r) \/ \E s \in Scopes : Red!Begin(r, s)
      PROVE  Admitted'
  BY <1>3 DEF Red!Begin, Red!TakeLock, Red!AppendFails, Red!Write, Red!Conclude, Red!Kill
<1>4. ASSUME NEW r \in RunIds, NEW t \in Tasks, Red!Collect(r, t) \/ Red!Done(r, t)
      PROVE  Admitted'
  <2>1. UNCHANGED <<stop, budget, late>>
    BY <1>4 DEF Red!Collect, Red!Done
  <2>2. \A q \in RunIds, u \in Tasks : thread'[q][u].pc = "wait" => thread[q][u].pc = "wait"
    BY <1>4, CollectStep, DoneStep
  <2> QED
    BY <2>1, <2>2
<1>5. ASSUME NEW r \in RunIds, NEW t \in Tasks, Red!Admit(r, t) PROVE Admitted'
  <2>1. UNCHANGED <<stop, late>>
    BY <1>5 DEF Red!Admit
  <2>2. budget \in [RunIds -> RedBudget] /\ None \notin Tasks
    BY DEF RedTypeOK, Red!EngineAssumption
  <2>3. CASE /\ ~stop /\ budget[r].used < MaxRequests /\ budget[r].inside = None
             /\ budget' = [budget EXCEPT ![r].inside = t]
             /\ \A q \in RunIds, u \in Tasks : thread'[q][u].pc = "wait" =>
                    thread[q][u].pc = "wait" \/ (q = r /\ u = t)
    <3>1. \A q \in RunIds : /\ budget'[q].used = budget[q].used
                         /\ budget'[q].inside = IF q = r THEN t ELSE budget[q].inside
      BY <2>2, <2>3 DEF RedBudget
    <3> QED
      BY <2>1, <2>2, <2>3, <3>1
  <2>4. CASE budget' = budget /\ \A q \in RunIds, u \in Tasks :
                thread'[q][u].pc = "wait" => thread[q][u].pc = "wait"
    BY <2>1, <2>4
  <2> QED
    BY <1>5, <2>3, <2>4, AdmitStep
<1>6. ASSUME NEW r \in RunIds, NEW t \in Tasks, Red!Count(r, t) PROVE Admitted'
  <2>1. /\ stop' = stop
        /\ budget' = [budget EXCEPT ![r].used = @ + 1, ![r].inside = None]
        /\ late' = [late EXCEPT ![r] = IF stop THEN @ + 1 ELSE @]
    BY <1>6 DEF Red!Count
  <2>2. /\ budget \in [RunIds -> RedBudget] /\ late \in [RunIds -> Nat]
        /\ MaxRequests \in Nat /\ None \notin Tasks
    BY DEF RedTypeOK, Red!EngineAssumption
  <2>3. /\ thread[r][t].pc = "wait" /\ thread'[r][t].pc # "wait"
        /\ \A q \in RunIds, u \in Tasks : thread'[q][u].pc = "wait" => thread[q][u].pc = "wait"
    BY <1>6, CountStep
  <2>4. budget[r].inside = t /\ budget[r].used < MaxRequests /\ late[r] = 0
    BY <2>2, <2>3
  <2>5. \A q \in RunIds :
            /\ budget'[q].used = IF q = r THEN budget[q].used + 1 ELSE budget[q].used
            /\ budget'[q].inside = IF q = r THEN None ELSE budget[q].inside
    BY <2>1, <2>2 DEF RedBudget
  <2>6. \A q \in RunIds : late'[q] = IF q = r /\ stop THEN late[q] + 1 ELSE late[q]
    BY <2>1, <2>2
  <2>7. budget[r].used \in Nat
    BY <2>2 DEF RedBudget
  <2> QED
    BY <2>1, <2>2, <2>3, <2>4, <2>5, <2>6, <2>7
<1>7. CASE UNCHANGED Red!vars
  BY <1>7 DEF Red!vars
<1> QED
  BY <1>1, <1>2, <1>3, <1>4, <1>5, <1>6, <1>7 DEF Red!Next

LEMMA RedSafe == Red!Spec => []RedInv
<1>1. Red!Init => RedInv
  BY InitRed, ToolkitsAssumption
<1>2. RedInv /\ [Red!Next]_Red!vars => RedInv'
  BY ToolkitsAssumption, NextRedTypeOK, NextReceipts, NextAdmitted DEF RedInv
<1> QED
  BY <1>1, <1>2, PTL DEF Red!Spec

(* A run tests a scope somebody signed, whatever is edited between the two *)
(* reads of authorize and between authorize and run (_authorize,           *)
(* validate_engagement, run_engagement).                                   *)
THEOREM RedRunsWhatWasSigned == Red!Spec => []RunsWhatWasSigned
<1>1. RedInv => RunsWhatWasSigned
  BY DEF RedInv, Receipts, RunsWhatWasSigned
<1> QED
  BY <1>1, RedSafe, PTL

(* The threads of a run stay inside its request budget together, and STOP  *)
(* lets the one request through that waits for the rate limit              *)
(* (consume_request).                                                      *)
THEOREM RedRequestsBounded == Red!Spec => []RequestsBounded
<1>1. RedInv => RequestsBounded
  BY DEF RedInv, Admitted, RequestsBounded, Red!RequestsBounded
<1> QED
  BY <1>1, RedSafe, PTL

----------------------------------------------------------------------------
(* The owner's console                                                     *)

ConsoleRun ==
    [gate : Gates \cup Assurance \cup {"all"},
     status : {"queued", "running", "passed", "failed"},
     pc : {"waiting", "start", "process", "append", "write", "forget", "done", "dead"}]

ConsoleRequest == [pc : {"rest", "append", "write"}, run : Nat]

ConsoleTypeOK ==
    /\ runs \in Seq(ConsoleRun)
    /\ request \in [Clients -> ConsoleRequest]
    /\ view = [v \in Viewers |-> view[v]]
    /\ tail \in [Clients \cup (1 .. MaxRuns) -> Nat]
    /\ audit \in Seq(Nat)

(* A run holds the slot until its process has ended, one run at a time,    *)
(* and a request under way is the one that made the run in the slot.       *)
Slots ==
    /\ \A i \in DOMAIN runs :
          runs[i].status \in Owner!Active <=> runs[i].pc \in {"waiting", "start", "process"}
    /\ \A i, j \in DOMAIN runs :
          runs[i].status \in Owner!Active /\ runs[j].status \in Owner!Active => i = j
    /\ \A c \in Clients : request[c].pc # "rest" =>
          request[c].run \in DOMAIN runs /\ runs[request[c].run].pc = "waiting"
    /\ \A c, d \in Clients : request[c].pc # "rest" /\ request[d].pc # "rest" => c = d

(* Who writes a record holds the lock, and the head it has read is still   *)
(* the head.                                                               *)
Writers ==
    /\ \A c \in Clients : request[c].pc = "write" => clock = c
    /\ \A i \in DOMAIN runs : runs[i].pc = "write" => clock = i
    /\ clock # None => tail[clock] = Len(audit)
    /\ Owner!Verifies

IsSnapshot(s) == s = [f \in {"rows", "listed", "verified"} |-> s[f]]

Ended(i, at) == i \in DOMAIN at /\ at[i].pc = "done"

(* What a snapshot shows as active has not ended, whatever the runs, at,   *)
(* have done since.                                                        *)
TrueOf(s, at) ==
    /\ IsSnapshot(s)
    /\ \A g \in Gates : s.rows[g].status \in Owner!Active => ~Ended(s.rows[g].run, at)
    /\ s.listed # <<>> =>
          /\ \A i \in DOMAIN s.listed[1] : s.listed[1][i] \in Owner!Active => ~Ended(i, at)
          /\ \A i, j \in DOMAIN s.listed[1] :
                s.listed[1][i] \in Owner!Active /\ s.listed[1][j] \in Owner!Active => i = j
    /\ s.verified

Shown ==
    /\ cache # None => cache.listed # <<>> /\ TrueOf(cache, runs)
    /\ snapLock # None => snapLock \in Viewers /\ TrueOf(view[snapLock], runs)

ConsoleInv == ConsoleTypeOK /\ Slots /\ Writers /\ Shown

(* What a process of the console starts from, on a ledger that verifies.   *)
LEMMA FreshConsole ==
    ASSUME runs = <<>>, request = [c \in Clients |-> Owner!Idle],
           cache = None, view = [v \in Viewers |-> None], snapLock = None,
           clock = None, tail = [a \in Owner!Actors |-> 0],
           audit \in Seq(Nat), Owner!Verifies
    PROVE  ConsoleInv
<1>1. \A c \in Clients : request[c].pc = "rest"
  BY DEF Owner!Idle
<1>2. runs \in Seq(ConsoleRun) /\ DOMAIN runs = {}
  OBVIOUS
<1>3. request \in [Clients -> ConsoleRequest]
  BY DEF Owner!Idle, ConsoleRequest
<1>4. ConsoleTypeOK
  BY <1>2, <1>3 DEF ConsoleTypeOK, Owner!Actors
<1>5. Slots
  BY <1>1, <1>2 DEF Slots
<1>6. Writers
  BY <1>1, <1>2 DEF Writers
<1> QED
  BY <1>4, <1>5, <1>6 DEF ConsoleInv, Shown

(* What a run's own step does to the list of runs.                         *)
LEMMA OneRun ==
    ASSUME ConsoleTypeOK, NEW i \in DOMAIN runs, NEW x \in ConsoleRun,
           runs' = [runs EXCEPT ![i] = x]
    PROVE  /\ runs' \in Seq(ConsoleRun)
           /\ DOMAIN runs' = DOMAIN runs
           /\ runs'[i] = x
           /\ \A j \in DOMAIN runs : j # i => runs'[j] = runs[j]
<1>1. runs \in Seq(ConsoleRun)
  BY DEF ConsoleTypeOK
<1> QED
  BY <1>1

(* A run that is not waiting for its record moves on.                      *)
LEMMA RunMoves ==
    ASSUME ConsoleTypeOK, Slots, request' = request,
           NEW i \in DOMAIN runs, NEW x \in ConsoleRun,
           runs[i].pc # "waiting",
           x.status \in Owner!Active <=> x.pc \in {"waiting", "start", "process"},
           x.status \in Owner!Active => runs[i].status \in Owner!Active,
           runs' = [runs EXCEPT ![i] = x]
    PROVE  Slots'
<1> USE OneRun
<1>1. \A j \in DOMAIN runs' :
          runs'[j].status \in Owner!Active <=> runs'[j].pc \in {"waiting", "start", "process"}
  BY DEF Slots
<1>2. \A j \in DOMAIN runs' : runs'[j].status \in Owner!Active => runs[j].status \in Owner!Active
  OBVIOUS
<1>3. \A j, k \in DOMAIN runs' :
          runs'[j].status \in Owner!Active /\ runs'[k].status \in Owner!Active => j = k
  BY <1>2 DEF Slots
<1>4. \A c \in Clients : request'[c].pc # "rest" =>
          request'[c].run \in DOMAIN runs' /\ runs'[request'[c].run].pc = "waiting"
  BY DEF Slots
<1>5. \A c, d \in Clients : request'[c].pc # "rest" /\ request'[d].pc # "rest" => c = d
  BY DEF Slots
<1> QED
  BY <1>1, <1>3, <1>4, <1>5 DEF Slots, Owner!Active

(* Snapshots stay true as long as no run ends.                             *)
LEMMA StaysTrue ==
    ASSUME NEW s, NEW before, NEW after, TrueOf(s, before),
           \A i : Ended(i, after) => Ended(i, before)
    PROVE  TrueOf(s, after)
  BY DEF TrueOf

LEMMA ShownStays ==
    ASSUME Shown, UNCHANGED <<cache, view, snapLock>>,
           \A i : Ended(i, runs') => Ended(i, runs)
    PROVE  Shown'
  BY StaysTrue DEF Shown

LEMMA ConsoleStill ==
    ASSUME ConsoleInv, UNCHANGED <<runs, request, cache, view, snapLock, clock, tail, audit>>
    PROVE  ConsoleInv'
<1>1. ConsoleTypeOK'
  BY DEF ConsoleInv, ConsoleTypeOK
<1>2. Slots'
  BY DEF ConsoleInv, Slots, Owner!Active
<1>3. Writers'
  BY DEF ConsoleInv, Writers, Owner!Verifies
<1>4. Shown'
  BY ShownStays DEF ConsoleInv
<1> QED
  BY <1>1, <1>2, <1>3, <1>4 DEF ConsoleInv

(* The head is read under the lock ...                                     *)
LEMMA TailRead ==
    ASSUME Owner!ConsoleAssumption, ConsoleTypeOK,
           NEW a \in Clients \cup (1 .. MaxRuns), Owner!ReadTail(a)
    PROVE  /\ clock = None /\ clock' = a /\ a # None
           /\ tail' \in [Clients \cup (1 .. MaxRuns) -> Nat] /\ tail'[a] = Len(audit)
<1>1. tail \in [Clients \cup (1 .. MaxRuns) -> Nat] /\ Len(audit) \in Nat
  BY DEF ConsoleTypeOK
<1>2. a # None
  BY DEF Owner!ConsoleAssumption
<1> QED
  BY <1>1, <1>2 DEF Owner!ReadTail, Owner!LockFree

(* ... and is the head when the record is written, or is not.              *)
LEMMA RecordWritten ==
    ASSUME Owner!ConsoleAssumption, ConsoleTypeOK, Writers,
           NEW a \in Clients \cup (1 .. MaxRuns), clock = a,
           Owner!WriteRecord(a) \/ Owner!WriteFails(a)
    PROVE  /\ clock' = None
           /\ tail' \in [Clients \cup (1 .. MaxRuns) -> Nat]
           /\ audit' \in Seq(Nat)
           /\ Owner!Verifies'
<1>1. tail \in [Clients \cup (1 .. MaxRuns) -> Nat] /\ audit \in Seq(Nat)
  BY DEF ConsoleTypeOK
<1>2. clock' = None /\ tail' = [tail EXCEPT ![a] = 0]
  BY DEF Owner!WriteRecord, Owner!WriteFails, Owner!Release
<1>3. a # None
  BY DEF Owner!ConsoleAssumption
<1>4. tail[a] = Len(audit)
  BY <1>3 DEF Writers
<1>5. audit' = audit \/ audit' = Append(audit, Len(audit))
  BY <1>4 DEF Owner!WriteRecord, Owner!WriteFails
<1>6. audit' \in Seq(Nat)
  BY <1>1, <1>5
<1>7. Owner!Verifies'
  <2>1. Owner!Verifies
    BY DEF Writers
  <2>2. CASE audit' = audit
    BY <2>1, <2>2 DEF Owner!Verifies
  <2>3. CASE audit' = Append(audit, Len(audit))
    <3>1. /\ Len(audit) \in Nat
          /\ DOMAIN audit = 1 .. Len(audit) /\ DOMAIN audit' = 1 .. (Len(audit) + 1)
          /\ audit'[Len(audit) + 1] = Len(audit)
          /\ \A i \in 1 .. Len(audit) : audit'[i] = audit[i]
      BY <1>1, <2>3
    <3>2. \A i \in 1 .. (Len(audit) + 1) : i \in 1 .. Len(audit) \/ i - 1 = Len(audit)
      BY <3>1
    <3> QED
      BY <2>1, <3>1, <3>2 DEF Owner!Verifies
  <2> QED
    BY <1>5, <2>2, <2>3
<1> QED
  BY <1>1, <1>2, <1>6, <1>7

LEMMA PostStep ==
    ASSUME Owner!ConsoleAssumption, ConsoleInv, NEW c \in Clients,
           NEW g \in Gates \cup Assurance \cup {"all"}, NEW b \in BOOLEAN, Owner!Post(c, g, b)
    PROVE  ConsoleInv'
<1> DEFINE x == [gate |-> g, status |-> "queued", pc |-> "waiting"]
           y == [pc |-> "append", run |-> Len(runs) + 1]
<1>1. UNCHANGED <<cache, view, snapLock, clock, tail, audit>>
  BY DEF Owner!Post, Owner!shown, Owner!records
<1>2. \/ UNCHANGED <<runs, request>>
      \/ /\ request[c] = Owner!Idle /\ Owner!SlotFree
         /\ runs' = Append(runs, x) /\ request' = [request EXCEPT ![c] = y]
  BY DEF Owner!Post
<1>3. CASE UNCHANGED <<runs, request>>
  BY <1>1, <1>3, ConsoleStill
<1>4. ASSUME request[c] = Owner!Idle, Owner!SlotFree,
             runs' = Append(runs, x), request' = [request EXCEPT ![c] = y]
      PROVE  ConsoleInv'
  <2>0. runs \in Seq(ConsoleRun) /\ request \in [Clients -> ConsoleRequest]
    BY DEF ConsoleInv, ConsoleTypeOK
  <2>1. x \in ConsoleRun /\ x.pc = "waiting" /\ x.status = "queued"
    BY DEF ConsoleRun
  <2>2. Len(runs) \in Nat /\ y \in ConsoleRequest /\ y.run = Len(runs) + 1 /\ y.pc = "append"
    BY <2>0 DEF ConsoleRequest
  <2> HIDE DEF x, y
  <2>3. /\ runs' \in Seq(ConsoleRun)
        /\ DOMAIN runs = 1 .. Len(runs) /\ DOMAIN runs' = 1 .. (Len(runs) + 1)
        /\ runs'[Len(runs) + 1] = x /\ \A i \in DOMAIN runs : runs'[i] = runs[i]
    BY <1>4, <2>0, <2>1
  <2>4. /\ Len(runs) + 1 \in DOMAIN runs' /\ Len(runs) + 1 \notin DOMAIN runs
        /\ \A i \in DOMAIN runs' : i \in DOMAIN runs \/ i = Len(runs) + 1
        /\ \A i \in DOMAIN runs : i \in DOMAIN runs'
    BY <2>2, <2>3
  <2>5. /\ request' \in [Clients -> ConsoleRequest] /\ request'[c] = y
        /\ \A d \in Clients : d # c => request'[d] = request[d]
    BY <1>4, <2>0, <2>2
  <2>6. \A i \in DOMAIN runs : runs[i].status \notin Owner!Active
    BY <1>4 DEF Owner!SlotFree
  <2>7. \A d \in Clients : request[d].pc = "rest"
    <3>1. \A d \in Clients : request[d].pc # "rest" =>
            request[d].run \in DOMAIN runs /\ runs[request[d].run].status \in Owner!Active
      BY DEF ConsoleInv, Slots
    <3> QED
      BY <2>6, <3>1
  <2>8. ConsoleTypeOK'
    BY <1>1, <2>3, <2>5 DEF ConsoleInv, ConsoleTypeOK
  <2>9. Slots'
    <3>1. \A i \in DOMAIN runs' :
            runs'[i].status \in Owner!Active <=> runs'[i].pc \in {"waiting", "start", "process"}
      BY <2>1, <2>3, <2>4 DEF ConsoleInv, Slots, Owner!Active
    <3>2. \A i \in DOMAIN runs' : runs'[i].status \in Owner!Active => i = Len(runs) + 1
      BY <2>3, <2>4, <2>6
    <3>3. \A d \in Clients : request'[d].pc # "rest" => d = c
      BY <2>5, <2>7
    <3>4. request'[c].run \in DOMAIN runs' /\ runs'[request'[c].run].pc = "waiting"
      BY <2>1, <2>2, <2>3, <2>4, <2>5
    <3>5. \A i, j \in DOMAIN runs' :
            runs'[i].status \in Owner!Active /\ runs'[j].status \in Owner!Active => i = j
      BY <3>2
    <3>6. \A d \in Clients : request'[d].pc # "rest" =>
            request'[d].run \in DOMAIN runs' /\ runs'[request'[d].run].pc = "waiting"
      BY <3>3, <3>4
    <3>7. \A d, e \in Clients : request'[d].pc # "rest" /\ request'[e].pc # "rest" => d = e
      BY <3>3
    <3> QED
      BY <3>1, <3>5, <3>6, <3>7 DEF Slots, Owner!Active
  <2>10. Writers'
    <3>1. \A d \in Clients : request'[d].pc # "write"
      BY <2>2, <2>5, <2>7
    <3>2. \A i \in DOMAIN runs' : runs'[i].pc = "write" => clock' = i
      BY <1>1, <2>1, <2>3, <2>4 DEF ConsoleInv, Writers
    <3> QED
      BY <1>1, <3>1, <3>2 DEF ConsoleInv, Writers, Owner!Verifies
  <2>11. Shown'
    <3>1. \A i : Ended(i, runs') => Ended(i, runs)
      BY <2>1, <2>3, <2>4 DEF Ended
    <3> QED
      BY <1>1, <3>1, ShownStays DEF ConsoleInv
  <2> QED
    BY <2>8, <2>9, <2>10, <2>11 DEF ConsoleInv
<1> QED
  BY <1>2, <1>3, <1>4

LEMMA RequestReadsStep ==
    ASSUME Owner!ConsoleAssumption, ConsoleInv, NEW c \in Clients, Owner!RequestReads(c)
    PROVE  ConsoleInv'
<1>0. request \in [Clients -> ConsoleRequest] /\ ConsoleTypeOK /\ Slots /\ Writers /\ Shown
  BY DEF ConsoleInv, ConsoleTypeOK
<1>1. /\ UNCHANGED <<runs, cache, view, snapLock, audit>>
      /\ request[c].pc = "append" /\ Owner!ReadTail(c)
      /\ request' = [request EXCEPT ![c].pc = "write"]
  BY DEF Owner!RequestReads, Owner!shown
<1>2. /\ clock = None /\ clock' = c /\ c # None
      /\ tail' \in [Clients \cup (1 .. MaxRuns) -> Nat] /\ tail'[c] = Len(audit)
  BY <1>0, <1>1, TailRead
<1>3. /\ request' \in [Clients -> ConsoleRequest]
      /\ \A d \in Clients : request'[d].run = request[d].run
      /\ \A d \in Clients : d # c => request'[d] = request[d]
  BY <1>0, <1>1 DEF ConsoleRequest
<1>4. ConsoleTypeOK'
  BY <1>0, <1>1, <1>2, <1>3 DEF ConsoleTypeOK
<1>5. Slots'
  <2>1. \A d \in Clients : request'[d].pc # "rest" => request[d].pc # "rest"
    BY <1>1, <1>3
  <2> QED
    BY <1>0, <1>1, <1>3, <2>1 DEF Slots, Owner!Active
<1>6. Writers'
  <2>1. \A d \in Clients : request[d].pc # "write"
    BY <1>0, <1>2 DEF Writers, Owner!ConsoleAssumption
  <2>2. \A i \in DOMAIN runs : runs[i].pc # "write"
    <3>1. \A i \in DOMAIN runs : i \in Nat
      BY <1>0 DEF ConsoleTypeOK
    <3> QED
      BY <1>0, <1>2, <3>1 DEF Writers, Owner!ConsoleAssumption
  <2> QED
    BY <1>0, <1>1, <1>2, <1>3, <2>1, <2>2 DEF Writers, Owner!Verifies
<1>7. Shown'
  BY <1>0, <1>1, ShownStays
<1> QED
  BY <1>4, <1>5, <1>6, <1>7 DEF ConsoleInv

LEMMA RequestEndsStep ==
    ASSUME Owner!ConsoleAssumption, ConsoleInv, NEW c \in Clients,
           Owner!RequestWrites(c) \/ Owner!RequestFails(c)
    PROVE  ConsoleInv'
<1> DEFINE i == request[c].run
           x == [runs[i] EXCEPT !.pc = "start"]
<1>0. /\ request \in [Clients -> ConsoleRequest] /\ runs \in Seq(ConsoleRun)
      /\ ConsoleTypeOK /\ Slots /\ Writers /\ Shown
  BY DEF ConsoleInv, ConsoleTypeOK
<1>1. /\ UNCHANGED <<cache, view, snapLock>>
      /\ request[c].pc = "write"
      /\ Owner!WriteRecord(c) \/ Owner!WriteFails(c)
      /\ request' = [request EXCEPT ![c] = Owner!Idle]
      /\ runs' = runs \/ runs' = [runs EXCEPT ![i] = x]
  BY DEF Owner!RequestWrites, Owner!RequestFails, Owner!shown
<1>2. i \in DOMAIN runs /\ runs[i].pc = "waiting" /\ clock = c
  BY <1>0, <1>1 DEF Slots, Writers
<1>3. /\ clock' = None
      /\ tail' \in [Clients \cup (1 .. MaxRuns) -> Nat]
      /\ audit' \in Seq(Nat) /\ Owner!Verifies'
  BY <1>0, <1>1, <1>2, RecordWritten
<1>4. /\ request' \in [Clients -> ConsoleRequest]
      /\ \A d \in Clients : request'[d].pc = "rest"
  <2>1. Owner!Idle \in ConsoleRequest /\ Owner!Idle.pc = "rest"
    BY DEF Owner!Idle, ConsoleRequest
  <2>2. \A d \in Clients : d # c => request[d].pc = "rest"
    BY <1>0, <1>1 DEF Slots
  <2> QED
    BY <1>0, <1>1, <2>1, <2>2
<1>5. /\ runs' \in Seq(ConsoleRun) /\ DOMAIN runs' = DOMAIN runs
      /\ \A j \in DOMAIN runs :
            /\ runs'[j].status = runs[j].status
            /\ \/ runs'[j].pc = runs[j].pc
               \/ runs[j].pc = "waiting" /\ runs'[j].pc = "start"
  <2>1. CASE runs' = runs
    BY <1>0, <2>1
  <2>2. CASE runs' = [runs EXCEPT ![i] = x]
    <3>1. runs[i] \in ConsoleRun
      BY <1>0, <1>2
    <3>2. x \in ConsoleRun /\ x.status = runs[i].status /\ x.pc = "start"
      BY <3>1 DEF ConsoleRun
    <3> HIDE DEF x
    <3> QED
      BY <1>0, <1>2, <2>2, <3>2, OneRun
  <2> QED
    BY <1>1, <2>1, <2>2
<1> HIDE DEF i, x
<1>6. ConsoleTypeOK'
  BY <1>0, <1>1, <1>3, <1>4, <1>5 DEF ConsoleTypeOK
<1>7. Slots'
  BY <1>0, <1>4, <1>5 DEF Slots, Owner!Active
<1>8. Writers'
  <2>1. \A j \in DOMAIN runs : runs[j].pc # "write"
    <3>1. \A j \in DOMAIN runs : j \in Nat
      BY <1>0
    <3> QED
      BY <1>0, <1>2, <3>1 DEF Writers, Owner!ConsoleAssumption
  <2> QED
    BY <1>3, <1>4, <1>5, <2>1 DEF Writers
<1>9. Shown'
  <2>1. \A j : Ended(j, runs') => Ended(j, runs)
    BY <1>5 DEF Ended
  <2> QED
    BY <1>0, <1>1, <2>1, ShownStays
<1> QED
  BY <1>6, <1>7, <1>8, <1>9 DEF ConsoleInv

(* The three steps of _execute that leave the ledger and the cache alone.  *)
LEMMA ExecuteStep ==
    ASSUME Owner!ConsoleAssumption, ConsoleInv, NEW i \in 1 .. MaxRuns, NEW code \in {0, 124},
           Owner!Start(i) \/ Owner!Exit(i, code)
    PROVE  ConsoleInv'
<1> DEFINE x == IF runs[i].pc = "start" THEN [runs[i] EXCEPT !.status = "running", !.pc = "process"]
                ELSE [runs[i] EXCEPT !.status = IF code = 0 THEN "passed" ELSE "failed",
                                     !.pc = "append"]
<1>0. /\ runs \in Seq(ConsoleRun) /\ ConsoleTypeOK /\ Slots /\ Writers /\ Shown
  BY DEF ConsoleInv, ConsoleTypeOK
<1>1. /\ UNCHANGED <<request, cache, view, snapLock, clock, tail, audit>>
      /\ i \in DOMAIN runs /\ runs[i].pc \in {"start", "process"}
      /\ runs' = [runs EXCEPT ![i] = x]
  BY DEF Owner!Start, Owner!Exit, Owner!At, Owner!shown, Owner!records
<1>2. runs[i] \in ConsoleRun
  BY <1>0, <1>1
<1>3. /\ x \in ConsoleRun
      /\ x.status \in Owner!Active <=> x.pc \in {"waiting", "start", "process"}
      /\ x.pc \in {"process", "append"}
  BY <1>1, <1>2 DEF ConsoleRun, Owner!Active
<1> HIDE DEF x
<1>4. runs[i].status \in Owner!Active
  BY <1>0, <1>1 DEF Slots
<1>5. /\ runs' \in Seq(ConsoleRun) /\ DOMAIN runs' = DOMAIN runs
      /\ runs'[i] = x /\ \A j \in DOMAIN runs : j # i => runs'[j] = runs[j]
  BY <1>0, <1>1, <1>3, OneRun
<1>6. ConsoleTypeOK'
  BY <1>0, <1>1, <1>5 DEF ConsoleTypeOK
<1>7. Slots'
  BY <1>0, <1>1, <1>3, <1>4, RunMoves
<1>8. Writers'
  BY <1>0, <1>1, <1>3, <1>5 DEF Writers, Owner!Verifies
<1>9. Shown'
  <2>1. \A j : Ended(j, runs') => Ended(j, runs)
    BY <1>3, <1>5 DEF Ended
  <2> QED
    BY <1>0, <1>1, <2>1, ShownStays
<1> QED
  BY <1>6, <1>7, <1>8, <1>9 DEF ConsoleInv

LEMMA RunReadsStep ==
    ASSUME Owner!ConsoleAssumption, ConsoleInv, NEW i \in 1 .. MaxRuns, Owner!RunReads(i)
    PROVE  ConsoleInv'
<1> DEFINE x == [runs[i] EXCEPT !.pc = "write"]
<1>0. /\ runs \in Seq(ConsoleRun) /\ ConsoleTypeOK /\ Slots /\ Writers /\ Shown
  BY DEF ConsoleInv, ConsoleTypeOK
<1>1. /\ UNCHANGED <<request, cache, view, snapLock, audit>>
      /\ i \in DOMAIN runs /\ runs[i].pc = "append" /\ Owner!ReadTail(i)
      /\ runs' = [runs EXCEPT ![i] = x]
  BY DEF Owner!RunReads, Owner!At, Owner!shown
<1>2. runs[i] \in ConsoleRun
  BY <1>0, <1>1
<1>3. x \in ConsoleRun /\ x.status = runs[i].status /\ x.pc = "write"
  BY <1>2 DEF ConsoleRun
<1> HIDE DEF x
<1>4. runs[i].status \notin Owner!Active
  BY <1>0, <1>1 DEF Slots
<1>5. /\ runs' \in Seq(ConsoleRun) /\ DOMAIN runs' = DOMAIN runs
      /\ runs'[i] = x /\ \A j \in DOMAIN runs : j # i => runs'[j] = runs[j]
  BY <1>0, <1>1, <1>3, OneRun
<1>6. /\ clock = None /\ clock' = i /\ i # None
      /\ tail' \in [Clients \cup (1 .. MaxRuns) -> Nat] /\ tail'[i] = Len(audit)
  BY <1>0, <1>1, TailRead
<1>7. ConsoleTypeOK'
  BY <1>0, <1>1, <1>5, <1>6 DEF ConsoleTypeOK
<1>8. Slots'
  BY <1>0, <1>1, <1>3, <1>4, RunMoves
<1>9. Writers'
  <2>1. \A c \in Clients : request[c].pc # "write"
    BY <1>0, <1>6 DEF Writers, Owner!ConsoleAssumption
  <2>2. \A j \in DOMAIN runs : runs[j].pc # "write"
    <3>1. \A j \in DOMAIN runs : j \in Nat
      BY <1>0
    <3> QED
      BY <1>0, <1>6, <3>1 DEF Writers, Owner!ConsoleAssumption
  <2> QED
    BY <1>0, <1>1, <1>5, <1>6, <2>1, <2>2 DEF Writers, Owner!Verifies
<1>10. Shown'
  <2>1. \A j : Ended(j, runs') => Ended(j, runs)
    BY <1>3, <1>5 DEF Ended
  <2> QED
    BY <1>0, <1>1, <2>1, ShownStays
<1> QED
  BY <1>7, <1>8, <1>9, <1>10 DEF ConsoleInv

LEMMA RunWritesStep ==
    ASSUME Owner!ConsoleAssumption, ConsoleInv, NEW i \in 1 .. MaxRuns, Owner!RunWrites(i)
    PROVE  ConsoleInv'
<1>0. /\ runs \in Seq(ConsoleRun) /\ ConsoleTypeOK /\ Slots /\ Writers /\ Shown
  BY DEF ConsoleInv, ConsoleTypeOK
<1>1. /\ UNCHANGED <<request, cache, view, snapLock>>
      /\ i \in DOMAIN runs /\ runs[i].pc = "write"
      /\ Owner!WriteRecord(i) \/ Owner!WriteFails(i)
      /\ \E pc \in {"forget", "dead"} : runs' = [runs EXCEPT ![i] = [runs[i] EXCEPT !.pc = pc]]
  BY DEF Owner!RunWrites, Owner!At, Owner!shown
<1>2. runs[i] \in ConsoleRun
  BY <1>0, <1>1
<1>3. PICK x \in ConsoleRun :
        /\ x.status = runs[i].status /\ x.pc \in {"forget", "dead"}
        /\ runs' = [runs EXCEPT ![i] = x]
  <2>1. PICK pc \in {"forget", "dead"} : runs' = [runs EXCEPT ![i] = [runs[i] EXCEPT !.pc = pc]]
    BY <1>1
  <2> DEFINE x == [runs[i] EXCEPT !.pc = pc]
  <2>2. x \in ConsoleRun /\ x.status = runs[i].status /\ x.pc = pc
    BY <1>2 DEF ConsoleRun
  <2>3. runs' = [runs EXCEPT ![i] = x]
    BY <2>1
  <2> HIDE DEF x
  <2> QED
    BY <2>2, <2>3
<1>4. runs[i].status \notin Owner!Active
  BY <1>0, <1>1 DEF Slots
<1>5. /\ runs' \in Seq(ConsoleRun) /\ DOMAIN runs' = DOMAIN runs
      /\ runs'[i] = x /\ \A j \in DOMAIN runs : j # i => runs'[j] = runs[j]
  BY <1>0, <1>1, <1>3, OneRun
<1>6. clock = i
  BY <1>0, <1>1 DEF Writers
<1>7. /\ clock' = None
      /\ tail' \in [Clients \cup (1 .. MaxRuns) -> Nat]
      /\ audit' \in Seq(Nat) /\ Owner!Verifies'
  BY <1>0, <1>1, <1>6, RecordWritten
<1>8. ConsoleTypeOK'
  BY <1>0, <1>1, <1>5, <1>7 DEF ConsoleTypeOK
<1>9. Slots'
  BY <1>0, <1>1, <1>3, <1>4, RunMoves
<1>10. Writers'
  <2>1. \A c \in Clients : request[c].pc # "write"
    BY <1>0, <1>6 DEF Writers, Owner!ConsoleAssumption
  <2>2. \A j \in DOMAIN runs : j # i => runs[j].pc # "write"
    BY <1>0, <1>6 DEF Writers
  <2> QED
    BY <1>1, <1>3, <1>5, <1>7, <2>1, <2>2 DEF Writers
<1>11. Shown'
  <2>1. \A j : Ended(j, runs') => Ended(j, runs)
    BY <1>3, <1>5 DEF Ended
  <2> QED
    BY <1>0, <1>1, <2>1, ShownStays
<1> QED
  BY <1>8, <1>9, <1>10, <1>11 DEF ConsoleInv

(* A run ends where no snapshot is kept and none is being built.           *)
LEMMA ForgetStep ==
    ASSUME Owner!ConsoleAssumption, ConsoleInv, NEW i \in 1 .. MaxRuns, Owner!Forget(i)
    PROVE  ConsoleInv'
<1> DEFINE x == [runs[i] EXCEPT !.pc = "done"]
<1>0. /\ runs \in Seq(ConsoleRun) /\ ConsoleTypeOK /\ Slots /\ Writers /\ Shown
  BY DEF ConsoleInv, ConsoleTypeOK
<1>1. /\ UNCHANGED <<request, view, clock, tail, audit>> /\ cache' = None /\ snapLock' = None
      /\ i \in DOMAIN runs /\ runs[i].pc = "forget"
      /\ runs' = [runs EXCEPT ![i] = x]
  BY DEF Owner!Forget, Owner!MayForget, Owner!At, Owner!records
<1>2. runs[i] \in ConsoleRun
  BY <1>0, <1>1
<1>3. x \in ConsoleRun /\ x.status = runs[i].status /\ x.pc = "done"
  BY <1>2 DEF ConsoleRun
<1> HIDE DEF x
<1>4. runs[i].status \notin Owner!Active
  BY <1>0, <1>1 DEF Slots
<1>5. /\ runs' \in Seq(ConsoleRun) /\ DOMAIN runs' = DOMAIN runs
      /\ runs'[i] = x /\ \A j \in DOMAIN runs : j # i => runs'[j] = runs[j]
  BY <1>0, <1>1, <1>3, OneRun
<1>6. ConsoleTypeOK'
  BY <1>0, <1>1, <1>5 DEF ConsoleTypeOK
<1>7. Slots'
  BY <1>0, <1>1, <1>3, <1>4, RunMoves
<1>8. Writers'
  BY <1>0, <1>1, <1>3, <1>5 DEF Writers, Owner!Verifies
<1>9. Shown'
  BY <1>1 DEF Shown
<1> QED
  BY <1>6, <1>7, <1>8, <1>9 DEF ConsoleInv

(* Viewers leave everything but the snapshots alone.                       *)
LEMMA ViewerStep ==
    ASSUME Owner!ConsoleAssumption, ConsoleInv, UNCHANGED <<runs, request, clock, tail, audit>>,
           view' = [w \in Viewers |-> view'[w]], Shown'
    PROVE  ConsoleInv'
<1>1. ConsoleTypeOK'
  BY DEF ConsoleInv, ConsoleTypeOK
<1>2. Slots'
  BY DEF ConsoleInv, Slots, Owner!Active
<1>3. Writers'
  BY DEF ConsoleInv, Writers, Owner!Verifies
<1> QED
  BY <1>1, <1>2, <1>3 DEF ConsoleInv

LEMMA ReadGatesStep ==
    ASSUME Owner!ConsoleAssumption, ConsoleInv, NEW v \in Viewers, Owner!ReadGates(v)
    PROVE  ConsoleInv'
<1> DEFINE s == [rows |-> Owner!Rows, listed |-> <<>>, verified |-> TRUE]
<1>0. view = [w \in Viewers |-> view[w]] /\ Slots /\ Shown
  BY DEF ConsoleInv, ConsoleTypeOK
<1>1. /\ snapLock = None /\ snapLock' = v /\ view' = [view EXCEPT ![v] = s]
      /\ UNCHANGED <<runs, request, cache, clock, tail, audit>>
  BY DEF Owner!ReadGates, Owner!control, Owner!records
<1>2. TrueOf(s, runs)
  <2>1. ASSUME NEW g \in Gates, Owner!Rows[g].status \in Owner!Active
        PROVE  ~Ended(Owner!Rows[g].run, runs)
    <3> DEFINE k == Owner!RowRun(g)
    <3>1. Owner!Rows[g] = [run |-> k, status |-> IF k = 0 THEN "not_run" ELSE runs[k].status]
      BY DEF Owner!Rows
    <3> HIDE DEF k
    <3>2. Owner!Rows[g].run = k /\ runs[k].status \in Owner!Active
      BY <2>1, <3>1 DEF Owner!Active
    <3> QED
      BY <1>0, <3>2 DEF Ended, Slots
  <2>2. IsSnapshot(s)
    BY DEF IsSnapshot
  <2>3. s.rows = Owner!Rows /\ s.listed = <<>> /\ s.verified
    OBVIOUS
  <2> HIDE DEF s
  <2> QED
    BY <2>1, <2>2, <2>3 DEF TrueOf
<1> HIDE DEF s
<1>3. view' = [w \in Viewers |-> view'[w]] /\ view'[v] = s
  BY <1>0, <1>1
<1>4. Shown'
  BY <1>0, <1>1, <1>2, <1>3 DEF Shown
<1> QED
  BY <1>1, <1>3, <1>4, ViewerStep

LEMMA ReadRunsStep ==
    ASSUME Owner!ConsoleAssumption, ConsoleInv, NEW v \in Viewers, Owner!ReadRuns(v)
    PROVE  ConsoleInv'
<1> DEFINE l == [i \in DOMAIN runs |-> runs[i].status]
           s == view[v]
           t == IF mode = "operator"
                THEN [s EXCEPT !.listed = <<l>>, !.verified = Owner!Verifies]
                ELSE [s EXCEPT !.listed = <<(<<>>)>>]
<1>0. view = [w \in Viewers |-> view[w]] /\ Slots /\ Writers /\ Shown
  BY DEF ConsoleInv, ConsoleTypeOK
<1>1. /\ snapLock = v /\ view' = [view EXCEPT ![v] = t]
      /\ UNCHANGED <<runs, request, cache, snapLock, clock, tail, audit>>
  BY DEF Owner!ReadRuns, Owner!control, Owner!records
<1>2. v # None /\ TrueOf(s, runs) /\ s = [f \in {"rows", "listed", "verified"} |-> s[f]]
  BY <1>0, <1>1 DEF Shown, TrueOf, IsSnapshot, Owner!ConsoleAssumption
<1> HIDE DEF s, l
<1>3. /\ t = [f \in {"rows", "listed", "verified"} |-> t[f]] /\ t.rows = s.rows
      /\ t.listed = IF mode = "operator" THEN <<l>> ELSE <<(<<>>)>>
      /\ t.verified = IF mode = "operator" THEN Owner!Verifies ELSE s.verified
  BY <1>2
<1> HIDE DEF t
<1>4. t.verified
  BY <1>0, <1>2, <1>3 DEF Writers, TrueOf
<1>5. t.listed[1] = IF mode = "operator" THEN l ELSE <<>>
  BY <1>3
<1>6. /\ \A i \in DOMAIN t.listed[1] : t.listed[1][i] \in Owner!Active => ~Ended(i, runs)
      /\ \A i, j \in DOMAIN t.listed[1] :
            t.listed[1][i] \in Owner!Active /\ t.listed[1][j] \in Owner!Active => i = j
  <2>1. CASE mode = "operator"
    <3>1. DOMAIN l = DOMAIN runs /\ \A i \in DOMAIN runs : l[i] = runs[i].status
      BY DEF l
    <3> QED
      BY <1>0, <1>5, <2>1, <3>1 DEF Slots, Ended
  <2>2. CASE mode # "operator"
    BY <1>5, <2>2
  <2> QED
    BY <2>1, <2>2
<1>7. TrueOf(t, runs)
  BY <1>2, <1>3, <1>4, <1>6 DEF TrueOf, IsSnapshot
<1>8. view' = [w \in Viewers |-> view'[w]] /\ view'[v] = t
  BY <1>0, <1>1
<1>9. Shown'
  BY <1>0, <1>1, <1>7, <1>8 DEF Shown
<1> QED
  BY <1>1, <1>8, <1>9, ViewerStep

LEMMA PublishStep ==
    ASSUME Owner!ConsoleAssumption, ConsoleInv, NEW v \in Viewers, Owner!Publish(v)
    PROVE  ConsoleInv'
<1>0. view = [w \in Viewers |-> view[w]] /\ Shown
  BY DEF ConsoleInv, ConsoleTypeOK
<1>1. /\ snapLock = v /\ view[v].listed # <<>> /\ cache' = view[v] /\ snapLock' = None
      /\ view' = [view EXCEPT ![v] = None]
      /\ UNCHANGED <<runs, request, clock, tail, audit>>
  BY DEF Owner!Publish, Owner!control, Owner!records
<1>2. v # None
  BY DEF Owner!ConsoleAssumption
<1>3. view' = [w \in Viewers |-> view'[w]]
  BY <1>0, <1>1
<1>4. Shown'
  BY <1>0, <1>1, <1>2 DEF Shown
<1> QED
  BY <1>1, <1>3, <1>4, ViewerStep

LEMMA RestartStep ==
    ASSUME Owner!ConsoleAssumption, ConsoleInv, Owner!Restart
    PROVE  ConsoleInv'
<1>1. /\ runs' = <<>> /\ request' = [c \in Clients |-> Owner!Idle]
      /\ cache' = None /\ view' = [v \in Viewers |-> None] /\ snapLock' = None
      /\ clock' = None /\ tail' = [a \in Owner!Actors |-> 0]
      /\ audit' = audit
  BY DEF Owner!Restart
<1>2. audit' \in Seq(Nat) /\ Owner!Verifies'
  BY <1>1 DEF ConsoleInv, ConsoleTypeOK, Writers, Owner!Verifies
<1>3. \A c \in Clients : request'[c].pc = "rest"
  BY <1>1 DEF Owner!Idle
<1>4. runs' \in Seq(ConsoleRun) /\ DOMAIN runs' = {}
  BY <1>1
<1>5. request' \in [Clients -> ConsoleRequest]
  BY <1>1 DEF Owner!Idle, ConsoleRequest
<1>6. ConsoleTypeOK'
  BY <1>1, <1>2, <1>4, <1>5 DEF ConsoleTypeOK, Owner!Actors
<1>7. Slots'
  BY <1>3, <1>4 DEF Slots
<1>8. Writers'
  BY <1>1, <1>2, <1>3, <1>4 DEF Writers
<1> QED
  BY <1>1, <1>6, <1>7, <1>8 DEF ConsoleInv, Shown

LEMMA ConsoleSafe == Owner!Spec => []ConsoleInv
<1>1. Owner!Init => ConsoleInv
  BY FreshConsole DEF Owner!Init, Owner!Fresh, Owner!Verifies
<1>2. ConsoleInv /\ [Owner!Next]_Owner!vars => ConsoleInv'
  <2> SUFFICES ASSUME ConsoleInv, [Owner!Next]_Owner!vars PROVE ConsoleInv'
    OBVIOUS
  <2>0. Owner!ConsoleAssumption
    BY ToolkitsAssumption
  <2>1. ASSUME NEW c \in Clients, Owner!WindowPasses(c) PROVE ConsoleInv'
    BY <2>1, ConsoleStill DEF Owner!WindowPasses, Owner!shown, Owner!records
  <2>2. CASE UNCHANGED Owner!vars
    BY <2>2, ConsoleStill DEF Owner!vars
  <2>3. ASSUME NEW c \in Clients, NEW g \in Gates \cup Assurance \cup {"all"},
               NEW b \in BOOLEAN, Owner!Post(c, g, b)
        PROVE  ConsoleInv'
    BY <2>0, <2>3, PostStep
  <2>4. ASSUME NEW c \in Clients,
               Owner!RequestReads(c) \/ Owner!RequestWrites(c) \/ Owner!RequestFails(c)
        PROVE  ConsoleInv'
    BY <2>0, <2>4, RequestReadsStep, RequestEndsStep
  <2>5. ASSUME NEW i \in 1 .. MaxRuns, NEW code \in {0, 124},
               Owner!Start(i) \/ Owner!Exit(i, code)
        PROVE  ConsoleInv'
    BY <2>0, <2>5, ExecuteStep
  <2>6. ASSUME NEW i \in 1 .. MaxRuns,
               Owner!RunReads(i) \/ Owner!RunWrites(i) \/ Owner!Forget(i)
        PROVE  ConsoleInv'
    BY <2>0, <2>6, RunReadsStep, RunWritesStep, ForgetStep
  <2>7. ASSUME NEW v \in Viewers,
               Owner!ReadGates(v) \/ Owner!ReadRuns(v) \/ Owner!Publish(v)
        PROVE  ConsoleInv'
    BY <2>0, <2>7, ReadGatesStep, ReadRunsStep, PublishStep
  <2>8. CASE Owner!Restart
    BY <2>0, <2>8, RestartStep
  <2>9. \A i \in 1 .. MaxRuns : Owner!Start(i) => ConsoleInv'
    <3>1. 0 \in {0, 124}
      OBVIOUS
    <3> QED
      BY <2>5, <3>1
  <2> QED
    BY <2>1, <2>2, <2>3, <2>4, <2>5, <2>6, <2>7, <2>8, <2>9 DEF Owner!Next
<1> QED
  BY <1>1, <1>2, PTL DEF Owner!Spec

(* Once the thread of a run has ended no snapshot that is still served     *)
(* shows that run as active, no snapshot lists two active runs, and the    *)
(* ledger that requests and runs write together verifies (snapshot,        *)
(* start_run, _execute, AuditLedger).                                      *)
THEOREM ConsoleTruthful == Owner!Spec => []SnapshotIsTrue
<1>1. ConsoleInv => SnapshotIsTrue
  <2> SUFFICES ASSUME ConsoleInv, cache # None
               PROVE  /\ \A g \in Gates : Owner!At(cache.rows[g].run, "done") =>
                            cache.rows[g].status \notin Owner!Active
                      /\ \A i \in DOMAIN cache.listed[1] : Owner!At(i, "done") =>
                            cache.listed[1][i] \notin Owner!Active
                      /\ \A i, j \in DOMAIN cache.listed[1] :
                            cache.listed[1][i] \in Owner!Active
                              /\ cache.listed[1][j] \in Owner!Active => i = j
                      /\ cache.verified
    BY DEF SnapshotIsTrue, Owner!SnapshotIsTrue
  <2> QED
    BY DEF ConsoleInv, Shown, TrueOf, Ended, Owner!At
<1> QED
  BY <1>1, ConsoleSafe, PTL

----------------------------------------------------------------------------
(* The blue team's detection store                                         *)

DetectionProc ==
    [pc : {"rest", "rule", "suppression", "alert"}, event : Events \cup {None},
     rule : Nat, evidence : SUBSET Events, at : Nat]

DetectionTypeOK ==
    /\ now \in Nat
    /\ rules \in Seq(Blue!ParsedRule) /\ rules # <<>>
    /\ \A i \in DOMAIN rules : rules[i].within >= 1
    /\ stored \in [Events -> Nat \cup {None}]
    /\ proc \in [Procs -> DetectionProc]

(* The evidence S justifies an alert of rule i of the rules rs, in a store *)
(* that holds the events st.                                               *)
Justifies(S, i, rs, st) ==
    /\ Blue!Cardinality(S) >= rs[i].count
    /\ \A d, e \in S :
          d \in rs[i].matches /\ st[d] # None /\ Host[d] = Host[e]
          /\ Time[e] - Time[d] <= (rs[i].within + 1) * Second

(* An alert names what fits of some evidence that justifies it, and says   *)
(* how much there was.                                                     *)
Reports(a, rs, st) ==
    /\ Blue!Cardinality(a.events) = IF a.count <= Named THEN a.count ELSE Named
    /\ \E S \in SUBSET Events :
          a.events \subseteq S /\ Blue!Cardinality(S) = a.count /\ Justifies(S, a.rule, rs, st)

(* A command is at a rule and an event that is stored, and what it is      *)
(* about to alert on is justified.                                         *)
Warranted(x, rs, st) ==
    /\ x.pc # "rest" => x.event \in Events /\ st[x.event] # None /\ x.rule \in DOMAIN rs
    /\ x.pc \in {"suppression", "alert"} => Justifies(x.evidence, x.rule, rs, st)

(* A hit that is gone was pruned by one of its host that came later by     *)
(* more than the window.                                                   *)
Pruned ==
    /\ hits \subseteq correlated /\ correlated \subseteq (DOMAIN rules) \X Events
    /\ \A i \in DOMAIN rules, d \in Events : <<i, d>> \in correlated =>
          /\ d \in rules[i].matches /\ stored[d] # None
          /\ \/ <<i, d>> \in hits
             \/ \E e \in Events : <<i, e>> \in correlated /\ Host[e] = Host[d]
                                  /\ Blue!Text(Time[d]) < Blue!Start(i, e)

DetectionInv ==
    /\ DetectionTypeOK
    /\ \A p \in Procs : Warranted(proc[p], rules, stored)
    /\ Pruned
    /\ \A a \in alerts : Reports(a, rules, stored)
    /\ OrderedBurstSeen

(* The instance counts as the library does.                                *)
LEMMA BlueCardinality == \A S : Blue!Cardinality(S) = Cardinality(S)
  BY DEF Blue!Cardinality, Cardinality

LEMMA BlueFinite == Blue!DetectionAssumption => IsFiniteSet(Events)
<1>1. Blue!IsFiniteSet(Events) <=> IsFiniteSet(Events)
  BY DEF Blue!IsFiniteSet, IsFiniteSet
<1> QED
  BY <1>1 DEF Blue!DetectionAssumption

(* A store that only grows keeps what it justified.                        *)
LEMMA StillJustifies ==
    ASSUME NEW S \in SUBSET Events, NEW i, NEW rs, NEW st, NEW grown, Justifies(S, i, rs, st),
           \A e \in Events : st[e] # None => grown[e] # None
    PROVE  Justifies(S, i, rs, grown)
  BY DEF Justifies

LEMMA StillReports ==
    ASSUME NEW a, NEW rs, NEW st, NEW grown, Reports(a, rs, st),
           \A e \in Events : st[e] # None => grown[e] # None
    PROVE  Reports(a, rs, grown)
<1>1. PICK S \in SUBSET Events : /\ a.events \subseteq S /\ Blue!Cardinality(S) = a.count
                                /\ Justifies(S, a.rule, rs, st)
  BY DEF Reports
<1>2. Justifies(S, a.rule, rs, grown)
  BY <1>1, StillJustifies
<1> QED
  BY <1>1, <1>2 DEF Reports

(* Where the text of an instant stands among the instants.                 *)
LEMMA TextPlace ==
    ASSUME Blue!DetectionAssumption, NEW t \in Int
    PROVE  /\ Blue!Text(t) \in Int /\ t <= Blue!Text(t) /\ Blue!Text(t) <= t + Second
           /\ Blue!Text(t) = IF t % Second = 0 THEN t + Second ELSE t
<1>1. Second \in Nat \ {0}
  BY DEF Blue!DetectionAssumption
<1>2. Blue!Text(t) = IF t % Second = 0 THEN t + Second ELSE t
  BY DEF Blue!Text
<1>3. CASE t % Second = 0
  BY <1>1, <1>2, <1>3
<1>4. CASE t % Second # 0
  BY <1>1, <1>2, <1>4
<1> QED
  BY <1>2, <1>3, <1>4

(* The events that fit are not more than there are, and as many as are     *)
(* asked for when there are that many.                                     *)
LEMMA NewestFit ==
    ASSUME Blue!DetectionAssumption, NEW S \in SUBSET Events, NEW n \in Nat,
           NEW N \in Blue!Newest(S, n)
    PROVE  /\ N \subseteq S /\ Cardinality(S) \in Nat
           /\ Blue!Cardinality(N) = IF Blue!Cardinality(S) <= n THEN Blue!Cardinality(S) ELSE n
           /\ Blue!Cardinality(N) \in Nat /\ Blue!Cardinality(S) \in Nat
  BY BlueFinite, BlueCardinality, FS_Subset, FS_CardinalityType DEF Blue!Newest

(* A step of one command that leaves the rest to the other parts.          *)
LEMMA CommandStep ==
    ASSUME DetectionInv, NEW p \in Procs, NEW x \in DetectionProc,
           proc' = [proc EXCEPT ![p] = x], rules' = rules, now' \in Nat,
           stored' \in [Events -> Nat \cup {None}],
           \A e \in Events : stored[e] # None => stored'[e] # None,
           Warranted(x, rules, stored')
    PROVE  /\ DetectionTypeOK'
           /\ \A q \in Procs : Warranted(proc'[q], rules', stored')
<1>1. DetectionTypeOK'
  BY DEF DetectionInv, DetectionTypeOK
<1>2. ASSUME NEW q \in Procs PROVE Warranted(proc'[q], rules, stored')
  <2>0. proc \in [Procs -> DetectionProc]
    BY DEF DetectionInv, DetectionTypeOK
  <2>1. CASE q = p
    BY <2>0, <2>1
  <2>2. CASE q # p
    <3>1. proc'[q] = proc[q]
      BY <2>0, <2>2
    <3>2. Warranted(proc[q], rules, stored) /\ proc[q].evidence \in SUBSET Events
      BY <2>0 DEF DetectionInv, DetectionProc
    <3> QED
      BY <3>1, <3>2, StillJustifies DEF Warranted
  <2> QED
    BY <2>1, <2>2
<1> QED
  BY <1>1, <1>2

(* The tables that are not touched stay right.                             *)
LEMMA TablesStay ==
    ASSUME DetectionInv, UNCHANGED <<rules, hits, alerts, correlated, quiet>>,
           \A e \in Events : stored[e] # None => stored'[e] # None
    PROVE  /\ Pruned'
           /\ \A a \in alerts' : Reports(a, rules', stored')
           /\ OrderedBurstSeen'
<1>1. Pruned'
  BY DEF DetectionInv, Pruned, Blue!Start
<1>2. \A a \in alerts' : Reports(a, rules', stored')
  BY StillReports DEF DetectionInv
<1>3. OrderedBurstSeen'
  BY DEF DetectionInv, OrderedBurstSeen, Blue!OrderedBurstSeen
<1> QED
  BY <1>1, <1>2, <1>3

(* Where Continue leaves a command.                                        *)
LEMMA Continued ==
    ASSUME Blue!DetectionAssumption, DetectionInv, NEW p \in Procs,
           proc[p].pc # "rest", Blue!Continue(p)
    PROVE  \E x \in DetectionProc :
              proc' = [proc EXCEPT ![p] = x] /\ Warranted(x, rules, stored)
<1> DEFINE x == IF proc[p].rule = Len(rules) THEN Blue!Idle
                ELSE [Blue!Idle EXCEPT !.pc = "rule", !.event = proc[p].event,
                                       !.rule = proc[p].rule + 1]
<1>1. proc' = [proc EXCEPT ![p] = x]
  BY DEF Blue!Continue
<1>2. rules \in Seq(Blue!ParsedRule) /\ proc[p].event \in Events
      /\ stored[proc[p].event] # None /\ proc[p].rule \in DOMAIN rules
  BY DEF DetectionInv, DetectionTypeOK, Warranted
<1>3. CASE proc[p].rule = Len(rules)
  <2>1. x \in DetectionProc /\ x.pc = "rest"
    BY <1>3 DEF Blue!Idle, DetectionProc
  <2> HIDE DEF x
  <2> QED
    BY <1>1, <2>1 DEF Warranted
<1>4. CASE proc[p].rule # Len(rules)
  <2>1. proc[p].rule + 1 \in DOMAIN rules /\ proc[p].rule + 1 \in Nat
    BY <1>2, <1>4
  <2>2. x \in DetectionProc /\ x.pc = "rule" /\ x.event = proc[p].event
        /\ x.rule = proc[p].rule + 1
    BY <1>2, <1>4, <2>1 DEF Blue!Idle, DetectionProc
  <2> HIDE DEF x
  <2> QED
    BY <1>1, <1>2, <2>1, <2>2 DEF Warranted
<1> QED
  BY <1>3, <1>4

(* A step of one command that only moves that command.                     *)
LEMMA CommandAlone ==
    ASSUME DetectionInv, NEW p \in Procs, NEW x \in DetectionProc,
           proc' = [proc EXCEPT ![p] = x], Warranted(x, rules, stored),
           UNCHANGED <<now, rules, stored, hits, alerts, correlated, quiet>>
    PROVE  DetectionInv'
<1>1. /\ DetectionTypeOK'
      /\ \A q \in Procs : Warranted(proc'[q], rules', stored')
  <2>1. now' \in Nat /\ stored' \in [Events -> Nat \cup {None}]
    BY DEF DetectionInv, DetectionTypeOK
  <2> QED
    BY <2>1, CommandStep
<1>2. /\ Pruned'
      /\ \A a \in alerts' : Reports(a, rules', stored')
      /\ OrderedBurstSeen'
  BY DEF DetectionInv, Pruned, Blue!Start, OrderedBurstSeen, Blue!OrderedBurstSeen
<1> QED
  BY <1>1, <1>2 DEF DetectionInv

LEMMA AddEventStep ==
    ASSUME Blue!DetectionAssumption, DetectionInv, NEW p \in Procs, NEW e \in Events,
           Blue!AddEvent(p, e)
    PROVE  DetectionInv'
<1> DEFINE x == [Blue!Idle EXCEPT !.pc = "rule", !.event = e, !.rule = 1]
<1>1. /\ stored' = [stored EXCEPT ![e] = now]
      /\ proc' = [proc EXCEPT ![p] = x]
      /\ UNCHANGED <<now, rules, hits, alerts, correlated, quiet>>
  BY DEF Blue!AddEvent, Blue!history
<1>2. now \in Nat /\ now # None /\ stored \in [Events -> Nat \cup {None}]
      /\ rules \in Seq(Blue!ParsedRule) /\ rules # <<>>
  BY DEF DetectionInv, DetectionTypeOK, Blue!DetectionAssumption
<1>3. /\ x \in DetectionProc
      /\ x.pc = "rule" /\ x.event = e /\ x.rule = 1
  BY DEF Blue!Idle, DetectionProc
<1> HIDE DEF x
<1>4. /\ stored' \in [Events -> Nat \cup {None}] /\ stored'[e] # None
      /\ \A d \in Events : stored[d] # None => stored'[d] # None
  BY <1>1, <1>2
<1>5. 1 \in DOMAIN rules
  BY <1>2
<1>6. Warranted(x, rules, stored')
  BY <1>3, <1>4, <1>5 DEF Warranted
<1>7. /\ DetectionTypeOK'
      /\ \A q \in Procs : Warranted(proc'[q], rules', stored')
  BY <1>1, <1>2, <1>3, <1>4, <1>6, CommandStep
<1> QED
  BY <1>1, <1>4, <1>7, TablesStay DEF DetectionInv

LEMMA ContinueStep ==
    ASSUME Blue!DetectionAssumption, DetectionInv, NEW p \in Procs, proc[p].pc # "rest",
           Blue!Continue(p), UNCHANGED <<now, rules, stored, hits, alerts, correlated, quiet>>
    PROVE  DetectionInv'
  BY Continued, CommandAlone

(* The hits of rule i that event e leaves, the ones it counts, and the      *)
(* events of its host that were ever recorded for the rule before it.      *)
Kept(i, e) == {h \in hits \cup {<<i, e>>} : ~(h[1] = i /\ Blue!TooOld(i, h[2], e))}
Counted(i, e) == {d \in Events : <<i, d>> \in Kept(i, e) /\ Blue!InWindow(i, d, e)}
Before(i, e) == {d \in Events : <<i, d>> \in correlated /\ Host[d] = Host[e]}

(* The evidence of a hit: it is justified by the window, and it is all     *)
(* there is in the window, but for what the order of the text hides,       *)
(* unless a later event of the host has come.                              *)
LEMMA Evidence ==
    ASSUME Blue!DetectionAssumption, DetectionInv, NEW p \in Procs, Blue!Applies(p),
           NEW i, i = proc[p].rule, NEW e, e = proc[p].event,
           NEW q, q = [rule |-> i, event |-> e, before |-> Before(i, e)]
    PROVE  /\ i \in DOMAIN rules /\ e \in Events /\ e \in rules[i].matches
           /\ rules[i].within \in Nat /\ rules[i].count \in Nat
           /\ Counted(i, e) \in SUBSET Events
           /\ \A d, f \in Counted(i, e) :
                 d \in rules[i].matches /\ stored[d] # None /\ Host[d] = Host[f]
                 /\ Time[f] - Time[d] <= (rules[i].within + 1) * Second
           /\ (\A d \in Before(i, e) : Time[d] <= Time[e]) =>
                 {d \in Before(i, e) \cup {e} :
                     \/ d = e
                     \/ /\ Time[d] >= Time[e] - rules[i].within * Second + Blue!Slack(q)
                        /\ Time[d] + Blue!Slack(q) <= Time[e]} \subseteq Counted(i, e)
           /\ proc[p].pc = "rule" /\ stored[e] # None
<1> DEFINE kept == Kept(i, e)
           evidence == Counted(i, e)
           before == Before(i, e)
           width == rules[i].within * Second
<1>0. /\ kept = {h \in hits \cup {<<i, e>>} : ~(h[1] = i /\ Blue!TooOld(i, h[2], e))}
      /\ evidence = {d \in Events : <<i, d>> \in kept /\ Blue!InWindow(i, d, e)}
      /\ before = {d \in Events : <<i, d>> \in correlated /\ Host[d] = Host[e]}
      /\ q.event = e /\ q.before = before
  BY DEF Kept, Counted, Before
<1>1. /\ i \in DOMAIN rules /\ e \in Events /\ stored[e] # None /\ e \in rules[i].matches
      /\ proc[p].pc = "rule"
  BY DEF DetectionInv, Warranted, Blue!Applies, Blue!Rule
<1>2. /\ rules[i].within \in Nat /\ rules[i].count \in Nat /\ Second \in Nat /\ width \in Nat
      /\ (rules[i].within + 1) * Second = width + Second
  <2>1. rules[i] \in Blue!ParsedRule
    BY <1>1 DEF DetectionInv, DetectionTypeOK
  <2>2. rules[i].within \in Nat /\ rules[i].count \in Nat /\ Second \in Nat
    BY <2>1 DEF Blue!ParsedRule, Blue!DetectionAssumption
  <2> QED
    BY <2>2
<1>3. \A f \in Events : Blue!Start(i, f) = Blue!Text(Time[f]) - width
  BY DEF Blue!Start
<1> HIDE DEF kept, evidence, before, width
<1>4. \A d \in Events :
        /\ Time[d] \in Int /\ Blue!Text(Time[d]) \in Int
        /\ Time[d] <= Blue!Text(Time[d]) /\ Blue!Text(Time[d]) <= Time[d] + Second
        /\ Blue!Text(Time[d]) = IF Time[d] % Second = 0 THEN Time[d] + Second ELSE Time[d]
  <2>1. \A d \in Events : Time[d] \in Int
    BY DEF Blue!DetectionAssumption
  <2> QED
    BY <2>1, TextPlace
<1>5. \A d \in Events : <<i, d>> \in kept <=>
        /\ <<i, d>> \in hits \/ d = e
        /\ ~(Host[d] = Host[e] /\ Blue!Text(Time[d]) < Blue!Text(Time[e]) - width)
  <2>1. \A d \in Events : <<i, d>>[1] = i /\ <<i, d>>[2] = d /\ (<<i, d>> = <<i, e>> <=> d = e)
    OBVIOUS
  <2> QED
    BY <1>0, <1>1, <1>3, <2>1 DEF Blue!TooOld
<1>6. \A d \in Events : d \in evidence <=>
        /\ <<i, d>> \in kept /\ Host[d] = Host[e]
        /\ Blue!Text(Time[d]) >= Blue!Text(Time[e]) - width
        /\ Blue!Text(Time[d]) <= Blue!Text(Time[e])
  BY <1>0, <1>1, <1>3 DEF Blue!InWindow
<1>7. evidence \in SUBSET Events
  BY <1>0
<1>8. \A d \in evidence : d \in rules[i].matches /\ stored[d] # None
  <2>1. \A d \in Events : <<i, d>> \in hits => <<i, d>> \in correlated
    BY DEF DetectionInv, Pruned
  <2> QED
    BY <1>1, <1>5, <1>6, <1>7, <2>1 DEF DetectionInv, Pruned
<1>9. \A d, f \in evidence : Time[f] - Time[d] <= width + Second /\ Host[d] = Host[f]
  <2> SUFFICES ASSUME NEW d \in evidence, NEW f \in evidence
               PROVE  Time[f] - Time[d] <= width + Second /\ Host[d] = Host[f]
    OBVIOUS
  <2>1. /\ Blue!Text(Time[d]) >= Blue!Text(Time[e]) - width
        /\ Blue!Text(Time[f]) <= Blue!Text(Time[e]) /\ Host[d] = Host[e] /\ Host[f] = Host[e]
    BY <1>6, <1>7
  <2> QED
    BY <1>1, <1>2, <1>4, <1>7, <2>1
<1>10. ASSUME \A d \in before : Time[d] <= Time[e],
              NEW d \in before \cup {e},
              \/ d = e
              \/ /\ Time[d] >= Time[e] - width + Blue!Slack(q)
                 /\ Time[d] + Blue!Slack(q) <= Time[e]
       PROVE  d \in evidence
  <2>1. d \in Events /\ Host[d] = Host[e] /\ before \subseteq Events
    BY <1>0, <1>1
  <2>2. CASE d = e
    <3>1. Blue!Text(Time[e]) \in Int /\ Blue!Text(Time[e]) >= Blue!Text(Time[e]) - width
          /\ ~(Blue!Text(Time[e]) < Blue!Text(Time[e]) - width)
      BY <1>1, <1>2, <1>4
    <3>2. Blue!Text(Time[e]) <= Blue!Text(Time[e])
      BY <3>1
    <3>3. <<i, e>> \in kept
      BY <1>1, <1>5, <3>1
    <3>4. e \in evidence
      BY <1>1, <1>6, <3>1, <3>2, <3>3
    <3> QED
      BY <2>2, <3>4
  <2>3. CASE d # e
    <3>1. /\ d \in before
          /\ Time[d] >= Time[e] - width + Blue!Slack(q) /\ Time[d] + Blue!Slack(q) <= Time[e]
      BY <1>10, <2>3
    <3>2. ASSUME NEW f \in before \cup {e}
          PROVE  /\ Blue!Text(Time[d]) >= Blue!Text(Time[f]) - width
                 /\ f = e => Blue!Text(Time[d]) <= Blue!Text(Time[e])
      <4>1. f \in Events /\ Time[f] <= Time[e]
        BY <1>1, <1>4, <1>10, <2>1
      <4>2. CASE \A c \in before : (Time[c] % Second = 0) = (Time[e] % Second = 0)
        <5>1. Blue!Slack(q) = 0
          BY <1>0, <4>2 DEF Blue!Slack
        <5>2. /\ (Time[f] % Second = 0) = (Time[e] % Second = 0)
              /\ (Time[d] % Second = 0) = (Time[e] % Second = 0)
          BY <3>1, <4>2
        <5>3. /\ Time[d] >= Time[f] - width /\ Time[d] <= Time[e]
              /\ Time[d] \in Int /\ Time[e] \in Int /\ Time[f] \in Int
          BY <1>1, <1>2, <1>4, <2>1, <3>1, <4>1, <5>1
        <5>4. CASE Time[e] % Second = 0
          <6>1. /\ Blue!Text(Time[d]) = Time[d] + Second /\ Blue!Text(Time[e]) = Time[e] + Second
                /\ Blue!Text(Time[f]) = Time[f] + Second
            BY <1>1, <1>4, <2>1, <4>1, <5>2, <5>4
          <6> QED
            BY <1>2, <5>3, <6>1
        <5>5. CASE Time[e] % Second # 0
          <6>1. /\ Blue!Text(Time[d]) = Time[d] /\ Blue!Text(Time[e]) = Time[e]
                /\ Blue!Text(Time[f]) = Time[f]
            BY <1>1, <1>4, <2>1, <4>1, <5>2, <5>5
          <6> QED
            BY <1>2, <5>3, <6>1
        <5> QED
          BY <5>4, <5>5
      <4>3. CASE ~\A c \in before : (Time[c] % Second = 0) = (Time[e] % Second = 0)
        <5>1. Blue!Slack(q) = Second
          BY <1>0, <4>3 DEF Blue!Slack
        <5> QED
          BY <1>1, <1>2, <1>4, <2>1, <3>1, <4>1, <5>1
      <4> QED
        BY <4>2, <4>3
    <3>3. <<i, d>> \in hits
      <4>1. SUFFICES ASSUME <<i, d>> \notin hits PROVE FALSE
        OBVIOUS
      <4>2. <<i, d>> \in correlated
        BY <1>0, <3>1
      <4>3. PICK f \in Events : /\ <<i, f>> \in correlated /\ Host[f] = Host[d]
                                /\ Blue!Text(Time[d]) < Blue!Start(i, f)
        BY <1>1, <2>1, <4>1, <4>2 DEF DetectionInv, Pruned
      <4>4. f \in before
        BY <1>0, <2>1, <4>3
      <4> QED
        BY <1>2, <1>3, <1>4, <2>1, <3>2, <4>3, <4>4
    <3> QED
      BY <1>1, <1>2, <1>4, <1>5, <1>6, <2>1, <3>2, <3>3
  <2> QED
    BY <2>2, <2>3
<1> QED
  BY <1>1, <1>2, <1>7, <1>8, <1>9, <1>10 DEF evidence, before, width

LEMMA CorrelateStep ==
    ASSUME Blue!DetectionAssumption, DetectionInv, NEW p \in Procs, Blue!Correlate(p)
    PROVE  DetectionInv'
<1> DEFINE i == proc[p].rule
           e == proc[p].event
           kept == Kept(i, e)
           counted == Counted(i, e)
           before == Before(i, e)
           limit == IF rules[i].count > Named THEN rules[i].count ELSE Named
           q == [rule |-> i, event |-> e, before |-> before]
<1>1. /\ Blue!Applies(p) /\ hits' = kept /\ correlated' = correlated \cup {<<i, e>>}
      /\ UNCHANGED <<now, rules, stored, alerts>>
      /\ \E evidence \in Blue!Newest(counted, limit) :
           \/ /\ Blue!Cardinality(evidence) < rules[i].count
              /\ Blue!Continue(p) /\ quiet' = quiet \cup {q}
           \/ /\ ~(Blue!Cardinality(evidence) < rules[i].count)
              /\ proc' = [proc EXCEPT ![p] =
                             [proc[p] EXCEPT !.pc = "suppression", !.evidence = evidence]]
              /\ UNCHANGED quiet
  BY DEF Blue!Correlate, Blue!Rule, Kept, Counted, Before
<1>0. /\ i = proc[p].rule /\ e = proc[p].event
      /\ kept = {h \in hits \cup {<<i, e>>} : ~(h[1] = i /\ Blue!TooOld(i, h[2], e))}
      /\ counted = Counted(i, e) /\ before = Before(i, e)
      /\ q = [rule |-> i, event |-> e, before |-> Before(i, e)]
  BY DEF Kept
<1>6. q.rule = i /\ q.event = e /\ q.before = before
  OBVIOUS
<1>a. rules[i].count \in Nat /\ Named \in Nat =>
        limit \in Nat /\ limit >= rules[i].count
  OBVIOUS
<1> HIDE DEF i, e, kept, counted, before, limit, q
<1>2. /\ i \in DOMAIN rules /\ e \in Events /\ e \in rules[i].matches
      /\ rules[i].within \in Nat /\ rules[i].count \in Nat
      /\ counted \in SUBSET Events
      /\ \A d, f \in counted :
            d \in rules[i].matches /\ stored[d] # None /\ Host[d] = Host[f]
            /\ Time[f] - Time[d] <= (rules[i].within + 1) * Second
      /\ (\A d \in before : Time[d] <= Time[e]) =>
            {d \in before \cup {e} :
                \/ d = e
                \/ /\ Time[d] >= Time[e] - rules[i].within * Second + Blue!Slack(q)
                   /\ Time[d] + Blue!Slack(q) <= Time[e]} \subseteq counted
      /\ proc[p].pc = "rule" /\ stored[e] # None
  BY <1>0, <1>1, Evidence
<1>3. /\ \A h \in kept : h \in hits \/ h = <<i, e>>
      /\ \A h \in hits \cup {<<i, e>>} :
            \/ h \in kept
            \/ h[1] = i /\ Host[h[2]] = Host[e] /\ Blue!Text(Time[h[2]]) < Blue!Start(i, e)
  BY <1>0 DEF Blue!TooOld
<1>4. proc[p] \in DetectionProc /\ \A d \in Events : Time[d] \in Int
  BY DEF DetectionInv, DetectionTypeOK, Blue!DetectionAssumption
<1>5. PICK evidence \in Blue!Newest(counted, limit) :
           \/ /\ Blue!Cardinality(evidence) < rules[i].count
              /\ Blue!Continue(p) /\ quiet' = quiet \cup {q}
           \/ /\ ~(Blue!Cardinality(evidence) < rules[i].count)
              /\ proc' = [proc EXCEPT ![p] =
                             [proc[p] EXCEPT !.pc = "suppression", !.evidence = evidence]]
              /\ UNCHANGED quiet
  BY <1>1
<1>12. limit \in Nat /\ limit >= rules[i].count
  BY <1>a, <1>2 DEF Blue!DetectionAssumption
<1>13. /\ evidence \subseteq counted /\ evidence \in SUBSET Events
       /\ Blue!Cardinality(counted) \in Nat /\ Blue!Cardinality(evidence) \in Nat
       /\ Blue!Cardinality(evidence) =
            IF Blue!Cardinality(counted) <= limit THEN Blue!Cardinality(counted) ELSE limit
  BY <1>2, <1>12, NewestFit
<1>7. Pruned'
  <2>1. hits \subseteq correlated /\ correlated \subseteq (DOMAIN rules) \X Events
    BY DEF DetectionInv, Pruned
  <2>2. <<i, e>> \in (DOMAIN rules) \X Events
    BY <1>2
  <2>3. hits' \subseteq correlated' /\ correlated' \subseteq (DOMAIN rules) \X Events
    BY <1>1, <1>3, <2>1, <2>2
  <2>4. ASSUME NEW j \in DOMAIN rules, NEW d \in Events, <<j, d>> \in correlated'
        PROVE  /\ d \in rules[j].matches /\ stored[d] # None
               /\ \/ <<j, d>> \in hits'
                  \/ \E f \in Events : <<j, f>> \in correlated' /\ Host[f] = Host[d]
                                       /\ Blue!Text(Time[d]) < Blue!Start(j, f)
    <3>1. <<j, d>> \in correlated \/ (j = i /\ d = e)
      BY <1>1, <2>4
    <3>2. d \in rules[j].matches /\ stored[d] # None
      BY <1>2, <3>1 DEF DetectionInv, Pruned
    <3>3. \/ <<j, d>> \in hits \cup {<<i, e>>}
          \/ \E f \in Events : <<j, f>> \in correlated' /\ Host[f] = Host[d]
                               /\ Blue!Text(Time[d]) < Blue!Start(j, f)
      BY <1>1, <3>1 DEF DetectionInv, Pruned
    <3>4. <<j, d>> \in hits \cup {<<i, e>>} =>
            \/ <<j, d>> \in kept
            \/ j = i /\ Host[d] = Host[e] /\ Blue!Text(Time[d]) < Blue!Start(i, e)
      <4>1. <<j, d>>[1] = j /\ <<j, d>>[2] = d
        OBVIOUS
      <4> QED
        BY <1>3, <4>1
    <3>5. <<i, e>> \in correlated'
      BY <1>1
    <3> QED
      BY <1>1, <1>2, <3>2, <3>3, <3>4, <3>5
  <2> QED
    BY <1>1, <2>3, <2>4 DEF Pruned, Blue!Start
<1>8. \A a \in alerts' : Reports(a, rules', stored')
  BY <1>1 DEF DetectionInv
<1>9. now' \in Nat /\ stored' \in [Events -> Nat \cup {None}]
  BY <1>1 DEF DetectionInv, DetectionTypeOK
<1>10. CASE Blue!Cardinality(evidence) < rules[i].count
            /\ Blue!Continue(p) /\ quiet' = quiet \cup {q}
  <2>1. PICK y \in DetectionProc :
          proc' = [proc EXCEPT ![p] = y] /\ Warranted(y, rules, stored)
    <3>1. proc[p].pc # "rest"
      BY <1>2
    <3> QED
      BY <1>10, <3>1, Continued
  <2>2. /\ DetectionTypeOK'
        /\ \A r \in Procs : Warranted(proc'[r], rules', stored')
    BY <1>1, <1>9, <2>1, CommandStep
  <2>3. OrderedBurstSeen'
    <3> DEFINE Inside(r) == {d \in r.before \cup {r.event} :
                \/ d = r.event
                \/ /\ Time[d] >= Time[r.event] - rules[r.rule].within * Second + Blue!Slack(r)
                   /\ Time[d] + Blue!Slack(r) <= Time[r.event]}
    <3> SUFFICES ASSUME NEW r \in quiet', \A d \in r.before : Time[d] <= Time[r.event]
                 PROVE  Blue!Cardinality(Inside(r)) < rules[r.rule].count
      BY <1>1 DEF OrderedBurstSeen, Blue!OrderedBurstSeen, Blue!Slack
    <3>1. CASE r \in quiet
      BY <3>1 DEF DetectionInv, OrderedBurstSeen, Blue!OrderedBurstSeen
    <3>2. CASE r = q
      <4>1. Inside(q) \subseteq counted
        BY <1>2, <1>6, <3>2
      <4>2. Blue!Cardinality(counted) < rules[i].count
        BY <1>2, <1>10, <1>12, <1>13
      <4> HIDE DEF Inside
      <4>3. IsFiniteSet(counted)
        BY <1>2, BlueFinite, FS_Subset
      <4>4. /\ Cardinality(Inside(q)) <= Cardinality(counted)
            /\ Cardinality(Inside(q)) \in Nat /\ Cardinality(counted) \in Nat
        BY <4>1, <4>3, FS_Subset, FS_CardinalityType
      <4>5. Blue!Cardinality(Inside(q)) < rules[i].count
        BY <1>2, <4>2, <4>4, BlueCardinality
      <4> QED
        BY <1>6, <3>2, <4>5
    <3> QED
      BY <1>10, <3>1, <3>2
  <2> QED
    BY <1>7, <1>8, <2>2, <2>3 DEF DetectionInv
<1>11. CASE ~(Blue!Cardinality(evidence) < rules[i].count)
            /\ proc' = [proc EXCEPT ![p] = [proc[p] EXCEPT !.pc = "suppression",
                                                           !.evidence = evidence]]
            /\ UNCHANGED quiet
  <2> DEFINE x == [proc[p] EXCEPT !.pc = "suppression", !.evidence = evidence]
  <2>1. Blue!Cardinality(evidence) >= rules[i].count
    BY <1>2, <1>11, <1>13
  <2>2. Justifies(evidence, i, rules, stored)
    BY <1>2, <1>13, <2>1 DEF Justifies
  <2>6. /\ x \in DetectionProc /\ x.pc = "suppression" /\ x.evidence = evidence
        /\ x.event = e /\ x.rule = i
    BY <1>0, <1>4, <1>13 DEF DetectionProc
  <2>7. proc' = [proc EXCEPT ![p] = x]
    BY <1>11
  <2> HIDE DEF x
  <2>3. Warranted(x, rules, stored)
    BY <1>2, <2>2, <2>6 DEF Warranted
  <2>4. /\ DetectionTypeOK'
        /\ \A r \in Procs : Warranted(proc'[r], rules', stored')
    BY <1>1, <1>9, <2>3, <2>6, <2>7, CommandStep
  <2>5. OrderedBurstSeen'
    BY <1>1, <1>11 DEF DetectionInv, OrderedBurstSeen, Blue!OrderedBurstSeen
  <2> QED
    BY <1>7, <1>8, <2>4, <2>5 DEF DetectionInv
<1> QED
  BY <1>5, <1>10, <1>11

(* A rule that counts to one: its event is the evidence.                   *)
LEMMA SingleStep ==
    ASSUME Blue!DetectionAssumption, DetectionInv, NEW p \in Procs, Blue!Single(p)
    PROVE  DetectionInv'
<1> DEFINE i == proc[p].rule
           e == proc[p].event
           x == [proc[p] EXCEPT !.pc = "suppression", !.evidence = {e}]
<1>1. /\ Blue!Applies(p) /\ rules[i].count = 1 /\ proc' = [proc EXCEPT ![p] = x]
      /\ UNCHANGED <<now, rules, stored, hits, alerts, correlated, quiet>>
  BY DEF Blue!Single, Blue!Rule, Blue!tables, Blue!history
<1>2. /\ i \in DOMAIN rules /\ e \in Events /\ e \in rules[i].matches /\ stored[e] # None
      /\ rules[i].within \in Nat /\ Second \in Nat /\ (rules[i].within + 1) * Second \in Nat
  <2>1. i \in DOMAIN rules /\ e \in Events /\ e \in rules[i].matches /\ stored[e] # None
        /\ Second \in Nat
    BY <1>1 DEF DetectionInv, Warranted, Blue!Applies, Blue!Rule, Blue!DetectionAssumption
  <2>2. rules[i] \in Blue!ParsedRule
    BY <2>1 DEF DetectionInv, DetectionTypeOK
  <2> QED
    BY <2>1, <2>2 DEF Blue!ParsedRule
<1>3. proc[p] \in DetectionProc /\ Time[e] \in Int
  BY <1>2 DEF DetectionInv, DetectionTypeOK, Blue!DetectionAssumption
<1>4. /\ x \in DetectionProc
      /\ x.pc = "suppression" /\ x.evidence = {e} /\ x.event = e /\ x.rule = i
  BY <1>2, <1>3 DEF DetectionProc
<1> HIDE DEF i, e, x
<1>5. Blue!Cardinality({e}) = 1
  BY BlueCardinality, FS_Singleton
<1>6. Time[e] - Time[e] <= (rules[i].within + 1) * Second
  BY <1>2, <1>3
<1>7. Justifies({e}, i, rules, stored)
  BY <1>1, <1>2, <1>5, <1>6 DEF Justifies
<1>8. Warranted(x, rules, stored)
  BY <1>2, <1>4, <1>7 DEF Warranted
<1> QED
  BY <1>1, <1>4, <1>8, CommandAlone

LEMMA CheckSuppressionStep ==
    ASSUME Blue!DetectionAssumption, DetectionInv, NEW p \in Procs, Blue!CheckSuppression(p)
    PROVE  DetectionInv'
<1> DEFINE x == [proc[p] EXCEPT !.pc = "alert", !.at = now]
<1>1. /\ proc[p].pc = "suppression"
      /\ UNCHANGED <<now, rules, stored, hits, alerts, correlated, quiet>>
      /\ Blue!Continue(p) \/ proc' = [proc EXCEPT ![p] = x]
  BY DEF Blue!CheckSuppression, Blue!tables, Blue!history
<1>2. CASE Blue!Continue(p)
  BY <1>1, <1>2, ContinueStep
<1>3. CASE proc' = [proc EXCEPT ![p] = x]
  <2>1. proc[p] \in DetectionProc /\ now \in Nat
    BY DEF DetectionInv, DetectionTypeOK
  <2>2. /\ x \in DetectionProc /\ x.pc = "alert" /\ x.evidence = proc[p].evidence
        /\ x.event = proc[p].event /\ x.rule = proc[p].rule
    BY <2>1 DEF DetectionProc
  <2> HIDE DEF x
  <2>3. Warranted(x, rules, stored)
    BY <1>1, <2>2 DEF DetectionInv, Warranted
  <2> QED
    BY <1>1, <1>3, <2>2, <2>3, CommandAlone
<1> QED
  BY <1>1, <1>2, <1>3

LEMMA AddAlertStep ==
    ASSUME Blue!DetectionAssumption, DetectionInv, NEW p \in Procs, Blue!AddAlert(p)
    PROVE  DetectionInv'
<1> DEFINE S == proc[p].evidence
           a(named) == [rule |-> proc[p].rule, events |-> named, count |-> Blue!Cardinality(S)]
<1>1. /\ proc[p].pc = "alert" /\ \E named \in Blue!Newest(S, Named) : alerts' = alerts \cup {a(named)}
      /\ UNCHANGED <<now, rules, stored, hits, correlated, quiet>> /\ Blue!Continue(p)
  BY DEF Blue!AddAlert, Blue!history
<1>2. PICK y \in DetectionProc : proc' = [proc EXCEPT ![p] = y] /\ Warranted(y, rules, stored)
  <2>1. proc[p].pc # "rest"
    BY <1>1
  <2> QED
    BY <1>1, <2>1, Continued
<1>3. now' \in Nat /\ stored' \in [Events -> Nat \cup {None}]
  BY <1>1 DEF DetectionInv, DetectionTypeOK
<1>4. /\ DetectionTypeOK'
      /\ \A q \in Procs : Warranted(proc'[q], rules', stored')
  BY <1>1, <1>2, <1>3, CommandStep
<1>5. PICK named \in Blue!Newest(S, Named) : alerts' = alerts \cup {a(named)}
  BY <1>1
<1>6. S \in SUBSET Events /\ Justifies(S, proc[p].rule, rules, stored)
  BY <1>1 DEF DetectionInv, Warranted, DetectionTypeOK, DetectionProc
<1>7. /\ named \subseteq S
      /\ Blue!Cardinality(named) = IF Blue!Cardinality(S) <= Named THEN Blue!Cardinality(S) ELSE Named
  BY <1>6, NewestFit DEF Blue!DetectionAssumption
<1>8. Reports(a(named), rules, stored)
  BY <1>6, <1>7 DEF Reports
<1> HIDE DEF a
<1>9. \A b \in alerts' : Reports(b, rules', stored')
  BY <1>1, <1>5, <1>8 DEF DetectionInv
<1>10. Pruned' /\ OrderedBurstSeen'
  BY <1>1 DEF DetectionInv, Pruned, Blue!Start, OrderedBurstSeen, Blue!OrderedBurstSeen
<1> QED
  BY <1>4, <1>9, <1>10 DEF DetectionInv

LEMMA KillStep ==
    ASSUME DetectionInv, NEW p \in Procs, Blue!Kill(p)
    PROVE  DetectionInv'
<1>1. /\ proc' = [proc EXCEPT ![p] = Blue!Idle]
      /\ UNCHANGED <<now, rules, stored, hits, alerts, correlated, quiet>>
  BY DEF Blue!Kill, Blue!tables, Blue!history
<1>2. Blue!Idle \in DetectionProc /\ Warranted(Blue!Idle, rules, stored)
  BY DEF Blue!Idle, DetectionProc, Warranted
<1> QED
  BY <1>1, <1>2, CommandAlone

LEMMA InitDetection == Blue!DetectionAssumption /\ Blue!Init => DetectionInv
<1> SUFFICES ASSUME Blue!DetectionAssumption, Blue!Init PROVE DetectionInv
  OBVIOUS
<1>1. /\ now = 0 /\ rules \in Blue!Loadable /\ stored = [e \in Events |-> None]
      /\ hits = {} /\ alerts = {} /\ correlated = {} /\ quiet = {}
      /\ proc = [p \in Procs |-> Blue!Idle]
  BY DEF Blue!Init
<1>2. /\ rules \in Seq(Blue!ParsedRule) /\ rules # <<>>
      /\ \A i \in DOMAIN rules : rules[i].within >= 1
  BY <1>1 DEF Blue!Loadable, Blue!ValidRule, Blue!DetectionAssumption
<1>3. Blue!Idle \in DetectionProc /\ Blue!Idle.pc = "rest"
  BY DEF Blue!Idle, DetectionProc
<1>4. DetectionTypeOK
  BY <1>1, <1>2, <1>3 DEF DetectionTypeOK
<1>5. \A p \in Procs : Warranted(proc[p], rules, stored)
  BY <1>1, <1>3 DEF Warranted
<1>6. Pruned /\ OrderedBurstSeen
  BY <1>1 DEF Pruned, OrderedBurstSeen, Blue!OrderedBurstSeen
<1> QED
  BY <1>1, <1>4, <1>5, <1>6 DEF DetectionInv

LEMMA DetectionSafe == Blue!Spec => []DetectionInv
<1>1. Blue!Init => DetectionInv
  BY InitDetection, ToolkitsAssumption
<1>2. DetectionInv /\ [Blue!Next]_Blue!vars => DetectionInv'
  <2> SUFFICES ASSUME DetectionInv, [Blue!Next]_Blue!vars
               PROVE  DetectionInv'
    OBVIOUS
  <2>1. Blue!DetectionAssumption
    BY ToolkitsAssumption
  <2>2. ASSUME NEW p \in Procs, NEW e \in Events, Blue!AddEvent(p, e)
        PROVE  DetectionInv'
    BY <2>1, <2>2, AddEventStep
  <2>3. ASSUME NEW p \in Procs, Blue!SkipRule(p) PROVE DetectionInv'
    <3>1. /\ proc[p].pc # "rest" /\ Blue!Continue(p)
          /\ UNCHANGED <<now, rules, stored, hits, alerts, correlated, quiet>>
      BY <2>3 DEF Blue!SkipRule, Blue!tables, Blue!history
    <3> QED
      BY <2>1, <3>1, ContinueStep
  <2>4. ASSUME NEW p \in Procs, Blue!Correlate(p) PROVE DetectionInv'
    BY <2>1, <2>4, CorrelateStep
  <2>5. ASSUME NEW p \in Procs, Blue!Single(p) PROVE DetectionInv'
    BY <2>1, <2>5, SingleStep
  <2>6. ASSUME NEW p \in Procs, Blue!CheckSuppression(p) PROVE DetectionInv'
    BY <2>1, <2>6, CheckSuppressionStep
  <2>7. ASSUME NEW p \in Procs, Blue!AddAlert(p) PROVE DetectionInv'
    BY <2>1, <2>7, AddAlertStep
  <2>8. ASSUME NEW p \in Procs, Blue!Kill(p) PROVE DetectionInv'
    BY <2>1, <2>8, KillStep
  <2>9. CASE Blue!Tick \/ UNCHANGED Blue!vars
    <3>1. /\ now' \in Nat
          /\ UNCHANGED <<rules, stored, hits, alerts, proc, correlated, quiet>>
      BY <2>9 DEF Blue!Tick, Blue!vars, Blue!tables, Blue!history, DetectionInv, DetectionTypeOK
    <3>2. DetectionTypeOK'
      BY <3>1 DEF DetectionInv, DetectionTypeOK
    <3>3. Pruned' /\ OrderedBurstSeen'
      BY <3>1 DEF DetectionInv, Pruned, Blue!Start, OrderedBurstSeen, Blue!OrderedBurstSeen
    <3> QED
      BY <3>1, <3>2, <3>3 DEF DetectionInv
  <2> QED
    BY <2>2, <2>3, <2>4, <2>5, <2>6, <2>7, <2>8, <2>9 DEF Blue!Next
<1> QED
  BY <1>1, <1>2, PTL DEF Blue!Spec

(* An alert counts at least as many events as its rule asks for and names  *)
(* as many of them as fit: stored events of one host that its rule         *)
(* matches, inside a window that the order of the text makes at most a     *)
(* second longer, in whatever order the events arrive and at whatever      *)
(* commands (record_correlation_hit, evaluate).                            *)
THEOREM AlertsJustified == Blue!Spec => []AlertJustified
<1>1. DetectionInv => AlertJustified
  <2> SUFFICES ASSUME DetectionInv, NEW a \in alerts
               PROVE  LET r == rules[a.rule] IN
        /\ a.count >= r.count
        /\ Blue!Cardinality(a.events) = IF a.count <= Named THEN a.count ELSE Named
        /\ \E S \in SUBSET r.matches :
              /\ a.events \subseteq S /\ Blue!Cardinality(S) = a.count
              /\ \A d, e \in S : /\ stored[d] # None /\ Host[d] = Host[e]
                                  /\ Time[e] - Time[d] <= (r.within + 1) * Second
    BY DEF AlertJustified, Blue!AlertJustified
  <2>1. PICK S \in SUBSET Events : /\ a.events \subseteq S /\ Blue!Cardinality(S) = a.count
                                  /\ Justifies(S, a.rule, rules, stored)
    BY DEF DetectionInv, Reports
  <2>2. S \in SUBSET rules[a.rule].matches
    BY <2>1 DEF Justifies
  <2> QED
    BY <2>1, <2>2 DEF DetectionInv, Reports, Justifies
<1> QED
  BY <1>1, DetectionSafe, PTL

(* A burst whose events are evaluated in the order of their times reaches  *)
(* its rule's threshold, but for what the order of the text hides: what    *)
(* was pruned for others is outside the window (record_correlation_hit).   *)
THEOREM OrderedBursts == Blue!Spec => []OrderedBurstSeen
<1>1. DetectionInv => OrderedBurstSeen
  BY DEF DetectionInv
<1> QED
  BY <1>1, DetectionSafe, PTL

----------------------------------------------------------------------------
(* The findings on their way                                               *)

IsLine(l) ==
    l = [f \in {"event", "id", "severity", "evidence", "seq", "previous"} |-> l[f]]

IsMover(m) == m = [f \in {"pc", "items", "record", "head"} |-> m[f]]

(* What was recorded of a finding: x is an opening, or it closes with the  *)
(* severity of an opening among the first n lines, by the rules.           *)
Lawful(x, lines, n) ==
    x.event # "opened" =>
        /\ x.event \in {"remediated", "accepted"}
        /\ \E i \in 1 .. n : /\ lines[i].event = "opened" /\ lines[i].id = x.id
                             /\ lines[i].severity = x.severity
        /\ Handoff!Closable(x.event, x.severity, x.evidence)

(* The first n lines remediate every critical finding that they open once. *)
Settled(lines, n) ==
    /\ n \in 0 .. Len(lines)
    /\ \A i \in 1 .. n :
          /\ lines[i].event = "opened" /\ lines[i].severity = "critical"
          /\ \A j \in 1 .. n : j # i /\ lines[j].event = "opened" => lines[j].id # lines[i].id
          => \E j \in i + 1 .. n : /\ lines[j].id = lines[i].id /\ lines[j].event = "remediated"
                                   /\ lines[j].evidence

(* What a process is about to write is lawful, and so is every line.       *)
MoverOK(m, lines) ==
    /\ IsMover(m)
    /\ m.pc = "score" => m.head \in 0 .. Len(lines)
    /\ m.pc \in {"head", "write"} => Lawful(m.record, lines, Len(lines))

HandoffInv ==
    /\ \E S : findings \in Seq(S)
    /\ \A i \in DOMAIN findings : IsLine(findings[i]) /\ Lawful(findings[i], findings, i - 1)
    /\ mover = [p \in Procs |-> mover[p]]
    /\ \A p \in Procs : MoverOK(mover[p], findings)
    /\ score.pass => Settled(findings, score.read)

LEMMA Prefix ==
    ASSUME NEW s, \E S : s \in Seq(S), NEW n \in 0 .. Len(s)
    PROVE  LET t == SubSeq(s, 1, n)
           IN DOMAIN t = 1 .. n /\ Len(t) = n /\ n \in Nat /\ \A i \in 1 .. n : t[i] = s[i]
<1>1. PICK S : s \in Seq(S)
  OBVIOUS
<1>2. Len(s) \in Nat /\ n \in Nat /\ n <= Len(s)
  BY <1>1
<1> QED
  BY <1>1, <1>2

(* A set of line numbers has a last one.                                   *)
LEMMA LastNumber ==
    ASSUME NEW n \in Nat, NEW T, T \subseteq 1 .. n, T # {}
    PROVE  \E m \in T : \A k \in T : k <= m
<1> DEFINE R == {ss \in Nat \X Nat : ss[1] < ss[2]}
           D == {n - k : k \in T}
<1>1. IsWellFoundedOn(R, Nat)
  BY NatLessThanWellFounded DEF OpToRel
<1>2. D \subseteq Nat
  <2>1. \A k \in T : n - k \in Nat
    OBVIOUS
  <2> QED
    BY <2>1
<1>3. D # {}
  OBVIOUS
<1> HIDE DEF R, D
<1>4. PICK x \in D : \A y \in D : ~(<<y, x>> \in R)
  BY <1>1, <1>2, <1>3, WFMin
<1>5. PICK m \in T : x = n - m
  BY DEF D
<1>6. ASSUME NEW k \in T PROVE k <= m
  <2>1. n - k \in D
    BY DEF D
  <2>2. ~(<<n - k, x>> \in R) /\ n - k \in Nat /\ x \in Nat
    BY <1>2, <1>4, <2>1
  <2>3. ~(n - k < n - m)
    BY <1>5, <2>2 DEF R
  <2> QED
    BY <2>3
<1> QED
  BY <1>6

(* x is at what one of the n lines of its id says, and as severe as one    *)
(* that opened it.                                                         *)
IsFinding(x, lines, id, n) ==
    \E m, o \in 1 .. n : /\ lines[m].id = id /\ lines[m].event = x.event
                         /\ lines[o].id = id /\ lines[o].event = "opened"
                         /\ lines[o].severity = x.severity

(* The finding of an id: the last line of the id says what it is at, and   *)
(* the last opening how severe it is.                                      *)
LEMMA FindingOf ==
    ASSUME NEW n \in Nat, NEW lines, DOMAIN lines = 1 .. n, Len(lines) = n,
           \A i \in 1 .. n : IsLine(lines[i]) /\ Lawful(lines[i], lines, i - 1),
           NEW i0 \in 1 .. n, NEW id, id = lines[i0].id
    PROVE  /\ id \in DOMAIN Handoff!Findings(lines)
           /\ IsFinding(Handoff!Findings(lines)[id], lines, id, n)
<1> DEFINE every == {"opened", "remediated", "accepted"}
           Ends(k, id1, events) ==
              /\ lines[k].id = id1 /\ lines[k].event \in events
              /\ \A j \in k + 1 .. Len(lines) : lines[j].id = id1 => lines[j].event \notin events
           last(id1, events) == CHOOSE k \in DOMAIN lines : Ends(k, id1, events)
           f == [id1 \in {lines[k].id : k \in DOMAIN lines} |->
                    [lines[last(id1, every)] EXCEPT !.severity = lines[last(id1, {"opened"})].severity]]
<1>1. ASSUME NEW events, NEW k0 \in 1 .. n, lines[k0].id = id, lines[k0].event \in events
      PROVE  last(id, events) \in 1 .. n /\ Ends(last(id, events), id, events)
  <2> DEFINE T == {k \in 1 .. n : lines[k].id = id /\ lines[k].event \in events}
  <2>1. T \subseteq 1 .. n /\ k0 \in T
    BY <1>1
  <2>2. PICK m \in T : \A k \in T : k <= m
    <3> HIDE DEF T
    <3> QED
      BY <2>1, LastNumber
  <2>3. ASSUME NEW j \in m + 1 .. n, lines[j].id = id PROVE lines[j].event \notin events
    <3>1. j \in 1 .. n /\ ~(j <= m)
      BY <2>1, <2>2
    <3> QED
      BY <2>2, <2>3, <3>1
  <2>4. m \in DOMAIN lines /\ Ends(m, id, events)
    BY <2>1, <2>2, <2>3
  <2> HIDE DEF Ends
  <2> QED
    BY <2>4
<1>2. lines[i0].event \in every
  BY DEF Lawful
<1>3. PICK o0 \in 1 .. n : lines[o0].id = id /\ lines[o0].event = "opened"
  <2>1. CASE lines[i0].event = "opened"
    BY <2>1
  <2>2. CASE lines[i0].event # "opened"
    <3>1. PICK k \in 1 .. i0 - 1 : lines[k].event = "opened" /\ lines[k].id = id
      BY <2>2 DEF Lawful
    <3>2. k \in 1 .. n
      OBVIOUS
    <3> QED
      BY <3>1, <3>2
  <2> QED
    BY <2>1, <2>2
<1>4. last(id, every) \in 1 .. n /\ Ends(last(id, every), id, every)
  <2> HIDE DEF last, every, Ends
  <2> QED
    BY <1>1, <1>2
<1>5. last(id, {"opened"}) \in 1 .. n /\ Ends(last(id, {"opened"}), id, {"opened"})
  <2>1. lines[o0].event \in {"opened"}
    BY <1>3
  <2> HIDE DEF last, Ends
  <2> QED
    BY <1>1, <1>3, <2>1
<1>6. f = Handoff!Findings(lines)
  BY DEF Handoff!Findings
<1>7. id \in {lines[k].id : k \in DOMAIN lines}
  OBVIOUS
<1> DEFINE m == last(id, every)
           o == last(id, {"opened"})
<1>8. /\ m \in 1 .. n /\ o \in 1 .. n
      /\ lines[m].id = id /\ lines[o].id = id /\ lines[o].event = "opened"
  BY <1>4, <1>5
<1>9. f[id] = [lines[m] EXCEPT !.severity = lines[o].severity]
  BY <1>7
<1>10. id \in DOMAIN f
  BY <1>7
<1> HIDE DEF m, o, f, last, every, Ends
<1>11. f[id].event = lines[m].event /\ f[id].severity = lines[o].severity
  BY <1>8, <1>9 DEF IsLine
<1> QED
  BY <1>6, <1>8, <1>10, <1>11 DEF IsFinding

(* A step of one process that leaves the register and the score alone.     *)
LEMMA MoverStep ==
    ASSUME HandoffInv, NEW p \in Procs, NEW m, MoverOK(m, findings), mover' = [mover EXCEPT ![p] = m],
           UNCHANGED <<findings, score>>
    PROVE  HandoffInv'
<1>1. mover = [q \in Procs |-> mover[q]]
  BY DEF HandoffInv
<1>2. mover' = [q \in Procs |-> mover'[q]] /\ mover'[p] = m
      /\ \A q \in Procs : q # p => mover'[q] = mover[q]
  BY <1>1
<1>3. \A q \in Procs : MoverOK(mover'[q], findings)
  BY <1>2 DEF HandoffInv
<1>4. score' = score /\ findings' = findings
  OBVIOUS
<1> QED
  BY <1>2, <1>3, <1>4 DEF HandoffInv

LEMMA RestingMover == IsMover(Handoff!Rest) /\ Handoff!Rest.pc = "rest"
  BY DEF IsMover, Handoff!Rest

LEMMA MovingStep ==
    ASSUME HandoffInv, NEW p \in Procs,
           \/ Handoff!Transfer(p) \/ Handoff!Open(p) \/ Handoff!ReadHead(p) \/ Handoff!Kill(p)
           \/ Handoff!ScoreRead(p)
    PROVE  HandoffInv'
<1>0. /\ MoverOK(mover[p], findings)
      /\ mover[p] = [f \in {"pc", "items", "record", "head"} |-> mover[p][f]]
  BY DEF HandoffInv, MoverOK, IsMover
<1>a. MoverOK(Handoff!Rest, findings)
  BY RestingMover DEF MoverOK
<1>1. CASE Handoff!Transfer(p)
  <2>1. PICK items : mover' = [mover EXCEPT ![p].pc = "open", ![p].items = items]
    BY <1>1 DEF Handoff!Transfer
  <2> DEFINE m == [mover[p] EXCEPT !.pc = "open", !.items = items]
  <2>2. IsMover(m) /\ m.pc = "open"
    BY <1>0 DEF IsMover
  <2>3. mover' = [mover EXCEPT ![p] = m] /\ UNCHANGED <<findings, score>>
    BY <1>1, <2>1 DEF Handoff!Transfer
  <2> HIDE DEF m
  <2>4. MoverOK(m, findings)
    BY <2>2 DEF MoverOK
  <2> QED
    BY <2>3, <2>4, MoverStep
<1>2. CASE Handoff!Open(p)
  <2>1. UNCHANGED <<findings, score>>
    BY <1>2 DEF Handoff!Open
  <2>2. CASE mover' = [mover EXCEPT ![p] = Handoff!Rest]
    BY <1>a, <2>1, <2>2, MoverStep
  <2>3. ASSUME NEW record, NEW items, record.event = "opened",
               mover' = [mover EXCEPT ![p].pc = "head", ![p].record = record, ![p].items = items]
        PROVE  HandoffInv'
    <3> DEFINE m == [mover[p] EXCEPT !.pc = "head", !.record = record, !.items = items]
    <3>1. IsMover(m) /\ m.pc = "head" /\ m.record = record
      BY <1>0 DEF IsMover
    <3>2. mover' = [mover EXCEPT ![p] = m]
      BY <2>3
    <3> HIDE DEF m
    <3>3. MoverOK(m, findings)
      BY <2>3, <3>1 DEF MoverOK, Lawful
    <3> QED
      BY <2>1, <3>2, <3>3, MoverStep
  <2>4. \/ mover' = [mover EXCEPT ![p] = Handoff!Rest]
        \/ LET e == Head(mover[p].items)
           IN mover' = [mover EXCEPT ![p].pc = "head",
                           ![p].record = [event |-> "opened", id |-> e.id,
                                          severity |-> e.severity, evidence |-> FALSE],
                           ![p].items = Tail(mover[p].items)]
    BY <1>2 DEF Handoff!Open
  <2> DEFINE e == Head(mover[p].items)
             record == [event |-> "opened", id |-> e.id, severity |-> e.severity, evidence |-> FALSE]
  <2>5. record.event = "opened"
    OBVIOUS
  <2>6. \/ mover' = [mover EXCEPT ![p] = Handoff!Rest]
        \/ mover' = [mover EXCEPT ![p].pc = "head", ![p].record = record,
                                  ![p].items = Tail(mover[p].items)]
    BY <2>4
  <2> HIDE DEF record, e
  <2> QED
    BY <2>2, <2>3, <2>5, <2>6
<1>3. CASE Handoff!ReadHead(p)
  <2> DEFINE m == [mover[p] EXCEPT !.pc = "write", !.head = Len(findings)]
  <2>1. IsMover(m) /\ m.pc = "write" /\ m.record = mover[p].record
    BY <1>0 DEF IsMover
  <2>2. mover' = [mover EXCEPT ![p] = m] /\ UNCHANGED <<findings, score>> /\ mover[p].pc = "head"
    BY <1>3 DEF Handoff!ReadHead
  <2> HIDE DEF m
  <2>3. MoverOK(m, findings)
    BY <1>0, <2>1, <2>2 DEF MoverOK
  <2> QED
    BY <2>2, <2>3, MoverStep
<1>4. CASE Handoff!Kill(p)
  BY <1>4, <1>a, MoverStep DEF Handoff!Kill
<1>5. CASE Handoff!ScoreRead(p)
  <2> DEFINE m == [mover[p] EXCEPT !.pc = "score", !.head = Len(findings)]
  <2>1. IsMover(m) /\ m.head = Len(findings) /\ m.pc = "score"
    BY <1>0 DEF IsMover
  <2>2. mover' = [mover EXCEPT ![p] = m] /\ UNCHANGED <<findings, score>>
    BY <1>5 DEF Handoff!ScoreRead
  <2>3. Len(findings) \in 0 .. Len(findings)
    <3>1. PICK S : findings \in Seq(S)
      BY DEF HandoffInv
    <3>2. Len(findings) \in Nat
      BY <3>1
    <3> QED
      BY <3>2
  <2> HIDE DEF m
  <2>4. MoverOK(m, findings)
    BY <2>1, <2>3 DEF MoverOK
  <2> QED
    BY <2>2, <2>4, MoverStep
<1> QED
  BY <1>1, <1>2, <1>3, <1>4, <1>5

(* What closes a finding has the severity of its last opening.             *)
LEMMA CloseStep ==
    ASSUME HandoffInv, NEW p \in Procs, NEW id, NEW event \in {"remediated", "accepted"}, NEW e,
           Handoff!Close(p, id, event, e)
    PROVE  HandoffInv'
<1> DEFINE severity == Handoff!Findings(findings)[id].severity
           record == [event |-> event, id |-> id, severity |-> severity, evidence |-> e]
           m == [mover[p] EXCEPT !.pc = "head", !.record = record]
<1>1. /\ id \in DOMAIN Handoff!Findings(findings) /\ Handoff!Closable(event, severity, e)
      /\ mover' = [mover EXCEPT ![p].pc = "head", ![p].record = record]
      /\ UNCHANGED <<findings, score>>
  BY DEF Handoff!Close, Handoff!IsOpen, Handoff!Registered
<1>2. Len(findings) \in Nat /\ DOMAIN findings = 1 .. Len(findings)
  <2>1. PICK S : findings \in Seq(S)
    BY DEF HandoffInv
  <2> QED
    BY <2>1
<1>3. id \in {findings[i].id : i \in DOMAIN findings}
  BY <1>1 DEF Handoff!Findings
<1>4. PICK i0 \in 1 .. Len(findings) : id = findings[i0].id
  BY <1>2, <1>3
<1>5. \E o \in 1 .. Len(findings) : /\ findings[o].id = id /\ findings[o].event = "opened"
                                    /\ findings[o].severity = severity
  <2>1. \A i \in 1 .. Len(findings) : IsLine(findings[i]) /\ Lawful(findings[i], findings, i - 1)
    BY <1>2 DEF HandoffInv
  <2>2. IsFinding(Handoff!Findings(findings)[id], findings, id, Len(findings))
    BY <1>2, <1>4, <2>1, FindingOf
  <2> QED
    BY <2>2 DEF IsFinding
<1>6. mover[p] = [f \in {"pc", "items", "record", "head"} |-> mover[p][f]]
  BY DEF HandoffInv, MoverOK, IsMover
<1>7. IsMover(m) /\ m.pc = "head" /\ m.record = record
  BY <1>6 DEF IsMover
<1>8. mover' = [mover EXCEPT ![p] = m]
  BY <1>1
<1>9. Lawful(record, findings, Len(findings))
  BY <1>1, <1>5 DEF Lawful
<1> HIDE DEF m, record, severity
<1>10. MoverOK(m, findings)
  BY <1>7, <1>9 DEF MoverOK
<1> QED
  BY <1>1, <1>8, <1>10, MoverStep

(* A line behind the end leaves what was scored as it was.                 *)
LEMMA WriteStep ==
    ASSUME HandoffInv, NEW p \in Procs, Handoff!Write(p)
    PROVE  HandoffInv'
<1> DEFINE line == [event |-> mover[p].record.event, id |-> mover[p].record.id,
                    severity |-> mover[p].record.severity, evidence |-> mover[p].record.evidence,
                    seq |-> Handoff!SeqOf(mover[p].head) + 1, previous |-> mover[p].head]
           m == IF mover[p].record.event = "opened"
                THEN [Handoff!Rest EXCEPT !.pc = "open", !.items = mover[p].items]
                ELSE Handoff!Rest
<1>1. /\ findings' = Append(findings, line) /\ mover' = [mover EXCEPT ![p] = m] /\ score' = score
      /\ mover[p].pc = "write"
  BY DEF Handoff!Write
<1>2. /\ IsLine(line) /\ line.event = mover[p].record.event /\ line.id = mover[p].record.id
      /\ line.severity = mover[p].record.severity /\ line.evidence = mover[p].record.evidence
  BY DEF IsLine
<1>3. IsMover(m) /\ m.pc \notin {"score", "head", "write"}
  BY DEF IsMover, Handoff!Rest
<1> HIDE DEF line, m
<1>4. /\ \E T : findings' \in Seq(T)
      /\ Len(findings) \in Nat /\ Len(findings') = Len(findings) + 1
      /\ DOMAIN findings = 1 .. Len(findings) /\ DOMAIN findings' = 1 .. (Len(findings) + 1)
      /\ findings'[Len(findings) + 1] = line
      /\ \A i \in 1 .. Len(findings) : findings'[i] = findings[i]
  <2>1. PICK S : findings \in Seq(S)
    BY DEF HandoffInv
  <2>2. findings \in Seq(S \cup {line})
    BY <2>1
  <2>3. findings' \in Seq(S \cup {line})
    BY <1>1, <2>2
  <2> QED
    BY <1>1, <2>2, <2>3
<1>5. ASSUME NEW x, NEW n \in 0 .. Len(findings), Lawful(x, findings, n)
      PROVE  Lawful(x, findings', n) /\ Lawful(x, findings', Len(findings'))
  <2>1. \A i \in 1 .. n : /\ findings'[i] = findings[i] /\ i \in 1 .. Len(findings')
    BY <1>4
  <2> QED
    BY <1>5, <2>1 DEF Lawful
<1>6. Lawful(line, findings, Len(findings))
  <2>1. Lawful(mover[p].record, findings, Len(findings))
    BY <1>1 DEF HandoffInv, MoverOK
  <2> QED
    BY <1>2, <2>1 DEF Lawful
<1>7. \A i \in DOMAIN findings' : IsLine(findings'[i]) /\ Lawful(findings'[i], findings', i - 1)
  <2> SUFFICES ASSUME NEW i \in DOMAIN findings'
               PROVE  IsLine(findings'[i]) /\ Lawful(findings'[i], findings', i - 1)
    OBVIOUS
  <2>1. CASE i \in 1 .. Len(findings)
    <3>1. IsLine(findings[i]) /\ Lawful(findings[i], findings, i - 1)
      BY <1>4, <2>1 DEF HandoffInv
    <3>2. i - 1 \in 0 .. Len(findings)
      BY <1>4, <2>1
    <3> QED
      BY <1>4, <1>5, <2>1, <3>1, <3>2
  <2>2. CASE i = Len(findings) + 1
    <3>1. i - 1 = Len(findings) /\ Len(findings) \in 0 .. Len(findings)
      BY <1>4, <2>2
    <3>2. Lawful(line, findings', i - 1)
      BY <1>5, <1>6, <3>1
    <3> QED
      BY <1>2, <1>4, <2>2, <3>2
  <2> QED
    BY <1>4, <2>1, <2>2
<1>8. /\ mover' = [q \in Procs |-> mover'[q]]
      /\ \A q \in Procs : MoverOK(mover'[q], findings')
  <2>1. mover = [q \in Procs |-> mover[q]]
    BY DEF HandoffInv
  <2>2. mover' = [q \in Procs |-> mover'[q]] /\ mover'[p] = m
        /\ \A q \in Procs : q # p => mover'[q] = mover[q]
    BY <1>1, <2>1
  <2>3. MoverOK(m, findings')
    BY <1>3 DEF MoverOK
  <2>4. ASSUME NEW q \in Procs PROVE MoverOK(mover[q], findings')
    <3>1. MoverOK(mover[q], findings)
      BY DEF HandoffInv
    <3>2. 0 .. Len(findings) \subseteq 0 .. Len(findings') /\ Len(findings) \in 0 .. Len(findings)
      BY <1>4
    <3> QED
      BY <1>5, <3>1, <3>2 DEF MoverOK
  <2> QED
    BY <2>2, <2>3, <2>4
<1>9. score'.pass => Settled(findings', score'.read)
  <2> SUFFICES ASSUME score.pass PROVE Settled(findings', score.read)
    BY <1>1
  <2>1. Settled(findings, score.read)
    BY DEF HandoffInv
  <2>2. score.read \in 0 .. Len(findings) /\ score.read \in 0 .. Len(findings')
    BY <1>4, <2>1 DEF Settled
  <2>3. \A i \in 1 .. score.read : findings'[i] = findings[i]
    BY <1>4, <2>2
  <2>4. \A i \in 1 .. score.read : \A j \in i + 1 .. score.read : j \in 1 .. score.read
    BY <1>4, <2>2
  <2> QED
    BY <2>1, <2>2, <2>3, <2>4 DEF Settled
<1> QED
  BY <1>4, <1>7, <1>8, <1>9 DEF HandoffInv

(* Without an automatic failure the last line of a critical finding that   *)
(* is opened once closes it, with its severity, and so with evidence.      *)
LEMMA ScoreStep ==
    ASSUME HandoffInv, NEW p \in Procs, NEW reached \in BOOLEAN, Handoff!Score(p, reached)
    PROVE  HandoffInv'
<1> DEFINE n == mover[p].head
           seen == SubSeq(findings, 1, n)
<1>1. /\ mover[p].pc = "score" /\ findings' = findings
      /\ mover' = [mover EXCEPT ![p] = Handoff!Rest]
      /\ score' = [pass |-> reached /\ Handoff!Verifies(findings) /\ ~Handoff!AutoFailed(seen),
                   read |-> n]
  BY DEF Handoff!Score
<1>2. n \in 0 .. Len(findings) /\ \E S : findings \in Seq(S)
  BY <1>1 DEF HandoffInv, MoverOK
<1>3. /\ DOMAIN seen = 1 .. n /\ Len(seen) = n /\ n \in Nat
      /\ \A i \in 1 .. n : seen[i] = findings[i]
  BY <1>2, Prefix
<1>4. Len(findings) \in Nat /\ DOMAIN findings = 1 .. Len(findings)
  <2>1. PICK S : findings \in Seq(S)
    BY <1>2
  <2> QED
    BY <2>1
<1> HIDE DEF n, seen
<1>5. \A i \in 1 .. n : IsLine(seen[i]) /\ Lawful(seen[i], seen, i - 1)
  <2> SUFFICES ASSUME NEW i \in 1 .. n PROVE IsLine(seen[i]) /\ Lawful(seen[i], seen, i - 1)
    OBVIOUS
  <2>1. i \in DOMAIN findings /\ \A k \in 1 .. i - 1 : k \in 1 .. n /\ seen[k] = findings[k]
    BY <1>2, <1>3, <1>4
  <2>2. IsLine(findings[i]) /\ Lawful(findings[i], findings, i - 1)
    BY <2>1 DEF HandoffInv
  <2> QED
    BY <1>3, <2>1, <2>2 DEF Lawful
<1>6. score'.pass => Settled(findings', score'.read)
  <2> SUFFICES ASSUME ~Handoff!AutoFailed(seen) PROVE Settled(findings, n)
    BY <1>1
  <2> SUFFICES ASSUME NEW i \in 1 .. n, findings[i].event = "opened",
                      findings[i].severity = "critical",
                      \A j \in 1 .. n : j # i /\ findings[j].event = "opened"
                                          => findings[j].id # findings[i].id
               PROVE  \E j \in i + 1 .. n : /\ findings[j].id = findings[i].id
                                            /\ findings[j].event = "remediated"
                                            /\ findings[j].evidence
    BY <1>2 DEF Settled
  <2>1. PICK m \in 1 .. n, o \in 1 .. n :
          /\ seen[i].id \in DOMAIN Handoff!Findings(seen)
          /\ seen[m].id = seen[i].id /\ seen[o].id = seen[i].id /\ seen[o].event = "opened"
          /\ Handoff!Findings(seen)[seen[i].id].event = seen[m].event
          /\ Handoff!Findings(seen)[seen[i].id].severity = seen[o].severity
    <3> DEFINE id == seen[i].id
    <3>1. id = seen[i].id
      OBVIOUS
    <3> HIDE DEF id
    <3>2. id \in DOMAIN Handoff!Findings(seen) /\ IsFinding(Handoff!Findings(seen)[id], seen, id, n)
      BY <1>3, <1>5, <3>1, FindingOf
    <3> QED
      BY <3>1, <3>2 DEF IsFinding
  <2>2. o = i
    BY <1>3, <2>1
  <2>3. seen[m].event # "opened"
    BY <1>3, <2>1, <2>2 DEF Handoff!AutoFailed
  <2>4. PICK k \in 1 .. m - 1 : /\ seen[k].event = "opened" /\ seen[k].id = seen[m].id
                                /\ seen[k].severity = seen[m].severity
    BY <1>5, <2>3 DEF Lawful
  <2>5. seen[m].event \in {"remediated", "accepted"}
        /\ Handoff!Closable(seen[m].event, seen[m].severity, seen[m].evidence)
    BY <1>5, <2>3 DEF Lawful
  <2>6. k \in 1 .. n
    BY <1>3
  <2>7. k = i
    BY <1>3, <2>1, <2>4, <2>6
  <2>8. m \in i + 1 .. n /\ seen[m].severity = "critical"
    BY <1>3, <2>4, <2>7
  <2>9. seen[m].event = "remediated" /\ seen[m].evidence
    BY <2>5, <2>8 DEF Handoff!Closable, Handoff!Serious
  <2> QED
    BY <1>3, <2>1, <2>8, <2>9
<1>7. /\ mover' = [q \in Procs |-> mover'[q]] /\ mover'[p] = Handoff!Rest
      /\ \A q \in Procs : q # p => mover'[q] = mover[q]
  <2>1. mover = [q \in Procs |-> mover[q]]
    BY DEF HandoffInv
  <2> QED
    BY <1>1, <2>1
<1>8. \A q \in Procs : MoverOK(mover'[q], findings)
  BY <1>7, RestingMover DEF HandoffInv, MoverOK
<1>9. \A i \in DOMAIN findings' : IsLine(findings'[i]) /\ Lawful(findings'[i], findings', i - 1)
  BY <1>1 DEF HandoffInv
<1> QED
  BY <1>1, <1>2, <1>6, <1>7, <1>8, <1>9 DEF HandoffInv

LEMMA HandoffSafe == Handoff!Spec => []HandoffInv
<1>1. Handoff!Init => HandoffInv
  <2> SUFFICES ASSUME Handoff!Init PROVE HandoffInv
    OBVIOUS
  <2>1. /\ findings = <<>> /\ mover = [p \in Procs |-> Handoff!Rest] /\ ~score.pass
    BY DEF Handoff!Init
  <2>2. \E S : findings \in Seq(S)
    <3>1. findings \in Seq({})
      BY <2>1
    <3> QED
      BY <3>1
  <2>3. DOMAIN findings = {}
    BY <2>1
  <2>4. \A p \in Procs : MoverOK(mover[p], findings)
    BY <2>1, RestingMover DEF MoverOK
  <2> QED
    BY <2>1, <2>2, <2>3, <2>4 DEF HandoffInv
<1>2. HandoffInv /\ [Handoff!Next]_Handoff!vars => HandoffInv'
  <2> SUFFICES ASSUME HandoffInv, [Handoff!Next]_Handoff!vars PROVE HandoffInv'
    OBVIOUS
  <2>1. ASSUME UNCHANGED <<mover, findings, score>> PROVE HandoffInv'
    <3>1. mover' = mover /\ findings' = findings /\ score' = score
      BY <2>1
    <3> QED
      BY <3>1 DEF HandoffInv, IsMover, IsLine, Lawful, Settled
  <2>2. ASSUME NEW doc, Handoff!Develop(doc) PROVE HandoffInv'
    BY <2>1, <2>2 DEF Handoff!Develop
  <2>3. CASE UNCHANGED Handoff!vars
    BY <2>1, <2>3 DEF Handoff!vars
  <2> QED
    BY <2>2, <2>3, MovingStep, CloseStep, WriteStep, ScoreStep DEF Handoff!Next
<1> QED
  BY <1>1, <1>2, PTL DEF Handoff!Spec

(* Behind a passing score every critical finding that was read, and whose  *)
(* id nobody opened a second time, was remediated with a test or a control *)
(* although processes read the register and append to it without a lock    *)
(* (open_finding, remediate, accept_risk, append, score_delivery).         *)
THEOREM PassingScoreIsClean == Handoff!Spec => []PassIsClean
<1>1. HandoffInv => PassIsClean
  BY DEF HandoffInv, Settled, PassIsClean, Handoff!PassIsClean, Handoff!OpenedOnce,
         Handoff!Remediated
<1> QED
  BY <1>1, HandoffSafe, PTL
----------------------------------------------------------------------------
(* The claim gate                                                          *)

SuiteFields == {"kind", "guard", "pc"}

ClaimFields ==
    {"kind", "guard", "pc", "register", "failed", "copy", "left", "found", "skipped", "broken", "proof"}

(* Whatever a collection has found and not skipped, it saw pass.           *)
IsClaim(p) ==
    /\ p = [f \in ClaimFields |-> p[f]]
    /\ p.found \subseteq p.proof \cup p.skipped

IsProcess(p) ==
    \/ p.kind = "claim" /\ IsClaim(p)
    \/ p.kind = "suite" /\ p = [f \in SuiteFields |-> p[f]]

(* What runs under a gate is a suite that found its guard, and a suite     *)
(* that another process started was started by a gate.                     *)
GuardedFrom(s) ==
    /\ \A i, j \in 1 .. Len(s) : i < j /\ s[i].kind = "claim" => s[j].kind = "suite" /\ s[j].guard
    /\ \A i \in 1 .. Len(s) : i + 1 \in 1 .. Len(s) /\ s[i + 1].kind = "suite" => s[i].kind = "claim"

IsStack(s) ==
    /\ \E S : s \in Seq(S)
    /\ \A i \in 1 .. Len(s) : IsProcess(s[i])
    /\ GuardedFrom(s)

(* The gate that is running is the one that is next in the runner's order, *)
(* and what the last one judged is what the run says.                      *)
GatesInOrder ==
    /\ ci = [f \in {"guard", "left", "failed"} |-> ci[f]]
    /\ ci.left \in {<<"drift", "app", "claims">>, <<"app", "claims">>, <<"claims">>, <<>>}
    /\ stack # <<>> => \/ ci.left = <<"claims">> /\ stack[1].kind = "claim"
                       \/ ci.left = <<"drift", "app", "claims">> /\ stack[1].kind = "suite"
    /\ Claims!Green => Claims!Accepts(verdict) /\ verdict.found \subseteq verdict.proof \cup verdict.skipped

GateInv == IsStack(stack) /\ GatesInOrder

LEMMA StackTop ==
    ASSUME NEW s, IsStack(s), s # <<>>
    PROVE  /\ Len(s) \in Nat \ {0}
           /\ Claims!Last(s) = s[Len(s)]
           /\ Len(s) \in 1 .. Len(s) /\ 1 \in 1 .. Len(s)
           /\ IsProcess(s[Len(s)])
<1> PICK S : s \in Seq(S)
  BY DEF IsStack
<1>1. Len(s) \in Nat \ {0}
  OBVIOUS
<1>2. Claims!Last(s) = s[Len(s)]
  BY DEF Claims!Last
<1> QED
  BY <1>1, <1>2 DEF IsStack

(* The process on top goes on.                                             *)
LEMMA StackGoesOn ==
    ASSUME NEW s, IsStack(s), s # <<>>, NEW p, IsProcess(p),
           p.kind = s[Len(s)].kind, p.guard = s[Len(s)].guard
    PROVE  LET t == [s EXCEPT ![Len(s)] = p]
           IN  IsStack(t) /\ Len(t) = Len(s) /\ t[Len(s)] = p /\ t # <<>> /\ t[1].kind = s[1].kind
<1> PICK S : s \in Seq(S)
  BY DEF IsStack
<1> DEFINE t == [s EXCEPT ![Len(s)] = p]
           n == Len(s)
<1>1. n \in Nat \ {0} /\ n \in 1 .. n /\ 1 \in 1 .. n
  BY StackTop
<1>2. t \in Seq(S \cup {p}) /\ Len(t) = n
  BY <1>1
<1>3. \A i \in 1 .. n : t[i] = IF i = n THEN p ELSE s[i]
  BY <1>1
<1> HIDE DEF t, n
<1>4. \A i \in 1 .. n : t[i].kind = s[i].kind /\ t[i].guard = s[i].guard /\ IsProcess(t[i])
  BY <1>3 DEF IsStack, n
<1>5. GuardedFrom(t)
  BY <1>2, <1>4 DEF IsStack, GuardedFrom, n
<1>6. t # <<>>
  BY <1>1, <1>2
<1> QED
  BY <1>1, <1>2, <1>3, <1>4, <1>5, <1>6 DEF IsStack, t, n

(* The process on top starts another one.                                  *)
LEMMA StackGrows ==
    ASSUME NEW s, IsStack(s), s # <<>>, NEW p, IsProcess(p),
           \A i \in 1 .. Len(s) : s[i].kind = "claim" => p.kind = "suite" /\ p.guard,
           p.kind = "suite" => s[Len(s)].kind = "claim"
    PROVE  LET t == Append(s, p) IN IsStack(t) /\ t # <<>> /\ t[1] = s[1]
<1> PICK S : s \in Seq(S)
  BY DEF IsStack
<1> DEFINE t == Append(s, p)
           n == Len(s)
<1>1. n \in Nat \ {0} /\ n \in 1 .. n /\ 1 \in 1 .. n
  BY StackTop
<1>2. s \in Seq(S \cup {p})
  BY <1>1
<1>3. t \in Seq(S \cup {p}) /\ Len(t) = n + 1
  BY <1>2
<1>4. \A i \in 1 .. n + 1 : t[i] = IF i = n + 1 THEN p ELSE s[i]
  BY <1>2
<1> HIDE DEF t
<1>5. \A i \in 1 .. n + 1 : IsProcess(t[i])
  BY <1>1, <1>4 DEF IsStack
<1>6. \A i, j \in 1 .. n + 1 : i < j /\ t[i].kind = "claim" => t[j].kind = "suite" /\ t[j].guard
  <2> SUFFICES ASSUME NEW i \in 1 .. n + 1, NEW j \in 1 .. n + 1, i < j, t[i].kind = "claim"
               PROVE  t[j].kind = "suite" /\ t[j].guard
    OBVIOUS
  <2>1. i \in 1 .. n /\ t[i] = s[i]
    BY <1>1, <1>4
  <2>2. CASE j = n + 1
    BY <1>1, <1>4, <2>1, <2>2
  <2>3. CASE j # n + 1
    <3>1. j \in 1 .. n /\ t[j] = s[j]
      BY <1>1, <1>4, <2>3
    <3> QED
      BY <2>1, <3>1 DEF IsStack, GuardedFrom
  <2> QED
    BY <2>2, <2>3
<1>7. \A i \in 1 .. n + 1 : i + 1 \in 1 .. n + 1 /\ t[i + 1].kind = "suite" => t[i].kind = "claim"
  <2> SUFFICES ASSUME NEW i \in 1 .. n + 1, i + 1 \in 1 .. n + 1, t[i + 1].kind = "suite"
               PROVE  t[i].kind = "claim"
    OBVIOUS
  <2>1. i \in 1 .. n /\ t[i] = s[i]
    BY <1>1, <1>4
  <2>2. CASE i = n
    BY <1>1, <1>4, <2>1, <2>2
  <2>3. CASE i # n
    <3>1. i + 1 \in 1 .. n /\ t[i + 1] = s[i + 1]
      BY <1>1, <1>4, <2>3
    <3> QED
      BY <2>1, <3>1 DEF IsStack, GuardedFrom
  <2> QED
    BY <2>2, <2>3
<1>8. t # <<>> /\ t[1] = s[1]
  BY <1>1, <1>3, <1>4
<1> QED
  BY <1>3, <1>5, <1>6, <1>7, <1>8 DEF IsStack, GuardedFrom, t

(* The process on top ends.                                                *)
LEMMA StackShrinks ==
    ASSUME NEW s, IsStack(s), s # <<>>
    PROVE  LET t == Claims!Front(s)
           IN  /\ IsStack(t)
               /\ t = <<>> <=> Len(s) = 1
               /\ t # <<>> => t[1] = s[1] /\ (s[Len(s)].kind = "suite" => t[Len(t)].kind = "claim")
<1> PICK S : s \in Seq(S)
  BY DEF IsStack
<1> DEFINE t == Claims!Front(s)
           n == Len(s)
<1>1. n \in Nat \ {0}
  BY StackTop
<1>2. t = SubSeq(s, 1, n - 1)
  BY DEF Claims!Front
<1>3. /\ t \in Seq(S) /\ Len(t) = n - 1 /\ n - 1 \in Nat
      /\ \A i \in 1 .. n - 1 : t[i] = s[i]
  <2>1. n - 1 \in 0 .. Len(s)
    BY <1>1
  <2>2. Len(t) = n - 1 /\ n - 1 \in Nat /\ \A i \in 1 .. n - 1 : t[i] = s[i]
    BY <1>2, <2>1, Prefix
  <2>3. t \in Seq(S)
    BY <1>1, <1>2
  <2> QED
    BY <2>2, <2>3
<1> HIDE DEF t
<1>4. \A i \in 1 .. n - 1 : i \in 1 .. n /\ IsProcess(t[i])
  BY <1>1, <1>3 DEF IsStack
<1>5. GuardedFrom(t)
  BY <1>1, <1>3, <1>4 DEF IsStack, GuardedFrom
<1>6. t = <<>> <=> n = 1
  BY <1>1, <1>3
<1>7. ASSUME t # <<>> PROVE t[1] = s[1] /\ (s[n].kind = "suite" => t[Len(t)].kind = "claim")
  <2>1. n - 1 \in 1 .. n /\ (n - 1) + 1 = n /\ n \in 1 .. n /\ 1 \in 1 .. n - 1
    BY <1>1, <1>3, <1>6, <1>7
  <2>2. n - 1 \in 1 .. n - 1 /\ t[n - 1] = s[n - 1] /\ Len(t) = n - 1 /\ t[1] = s[1]
    BY <1>3, <2>1
  <2>3. s[n].kind = "suite" => s[n - 1].kind = "claim"
    BY <2>1 DEF IsStack, GuardedFrom
  <2> QED
    BY <2>2, <2>3
<1> QED
  BY <1>3, <1>4, <1>5, <1>6, <1>7 DEF IsStack, t

LEMMA Started ==
    ASSUME NEW g
    PROVE  /\ IsProcess(Claims!Claim(g)) /\ Claims!Claim(g).kind = "claim" /\ Claims!Claim(g).guard = g
           /\ IsProcess(Claims!Suite(g)) /\ Claims!Suite(g).kind = "suite" /\ Claims!Suite(g).guard = g
BY DEF Claims!Claim, Claims!Suite, IsProcess, IsClaim, ClaimFields, SuiteFields

(* A stack of one process.                                                 *)
LEMMA StackStarts ==
    ASSUME NEW p, IsProcess(p)
    PROVE  IsStack(<<p>>) /\ <<p>> # <<>> /\ <<p>>[1] = p
<1> DEFINE s == <<p>>
<1>1. s \in Seq({p}) /\ Len(s) = 1 /\ s[1] = p /\ s # <<>>
  OBVIOUS
<1> HIDE DEF s
<1>2. \A i \in 1 .. Len(s) : i = 1
  BY <1>1
<1>3. GuardedFrom(s)
  BY <1>1, <1>2 DEF GuardedFrom
<1> QED
  BY <1>1, <1>2, <1>3 DEF IsStack, s

(* What a package reports leaves a collection what it was.                 *)
LEMMA Reported ==
    ASSUME NEW p, IsClaim(p), NEW outcome
    PROVE  LET q == Claims!Report(p, outcome) IN IsClaim(q) /\ q.kind = p.kind /\ q.guard = p.guard
<1> DEFINE of(o) == {t \in DOMAIN outcome : outcome[t] = o}
           broken == [p EXCEPT !.broken = TRUE]
           more == [p EXCEPT !.found = @ \cup of("passes") \cup of("skips"),
                             !.skipped = @ \cup of("skips"), !.proof = @ \cup of("passes")]
<1>1. Claims!Report(p, outcome) = IF of("fails") # {} THEN broken ELSE more
  BY DEF Claims!Report
<1>2. IsClaim(broken) /\ broken.kind = p.kind /\ broken.guard = p.guard
  BY DEF IsClaim, ClaimFields
<1> HIDE DEF of
<1>3. IsClaim(more) /\ more.kind = p.kind /\ more.guard = p.guard
  <2>1. more = [f \in ClaimFields |-> more[f]] /\ more.kind = p.kind /\ more.guard = p.guard
    BY DEF IsClaim, ClaimFields
  <2>2. /\ more.found = p.found \cup of("passes") \cup of("skips")
        /\ more.skipped = p.skipped \cup of("skips") /\ more.proof = p.proof \cup of("passes")
    BY DEF IsClaim, ClaimFields
  <2>3. more.found \subseteq more.proof \cup more.skipped
    BY <2>2 DEF IsClaim
  <2> QED
    BY <2>1, <2>3 DEF IsClaim
<1> QED
  BY <1>1, <1>2, <1>3

(* A step of the process on top that changes nothing else.                 *)
LEMMA GoesOnStep ==
    ASSUME GateInv, stack # <<>>, UNCHANGED <<ci, verdict>>,
           NEW p, IsProcess(p), p.kind = Claims!Top.kind, p.guard = Claims!Top.guard, Claims!Become(p)
    PROVE  GateInv'
<1>1. IsStack(stack) /\ Claims!Top = stack[Len(stack)]
  BY StackTop DEF GateInv, Claims!Top
<1>2. stack' = [stack EXCEPT ![Len(stack)] = p]
  BY DEF Claims!Become
<1>3. IsStack(stack') /\ stack' # <<>> /\ stack'[1].kind = stack[1].kind
  BY <1>1, <1>2, StackGoesOn
<1>4. ci' = ci /\ verdict' = verdict
  OBVIOUS
<1> QED
  BY <1>3, <1>4 DEF GateInv, GatesInOrder, Claims!Green, Claims!Accepts, Claims!Rejected, Claims!Unresolved

LEMMA TopClaim ==
    ASSUME GateInv, stack # <<>>, Claims!Top.kind = "claim"
    PROVE  IsClaim(Claims!Top)
<1>1. IsProcess(Claims!Top)
  BY StackTop DEF GateInv, Claims!Top
<1> QED
  BY <1>1 DEF IsProcess

LEMMA CollectionStep ==
    ASSUME GateInv, Claims!Load \/ Claims!Copy \/ Claims!WalkApp
    PROVE  GateInv'
<1> DEFINE p == Claims!Top
<1>1. stack # <<>> /\ p.kind = "claim" /\ UNCHANGED <<ci, verdict>>
  BY DEF Claims!Load, Claims!Copy, Claims!WalkApp, Claims!Runs
<1>2. IsClaim(p)
  BY <1>1, TopClaim
<1> HIDE DEF p
<1>3. ASSUME NEW q, IsClaim(q), q.kind = p.kind, q.guard = p.guard, Claims!Become(q) PROVE GateInv'
  <2>1. IsProcess(q)
    BY <1>1, <1>3 DEF IsProcess
  <2> QED
    BY <1>1, <1>3, <2>1, GoesOnStep DEF p
<1>4. CASE Claims!Load
  <2> DEFINE q == [p EXCEPT !.pc = "copy", !.register = register, !.failed = Claims!FailedGates(readiness)]
  <2>1. Claims!Become(q)
    BY <1>4 DEF Claims!Load, p
  <2>2. IsClaim(q) /\ q.kind = p.kind /\ q.guard = p.guard
    BY <1>2 DEF IsClaim, ClaimFields
  <2> QED
    BY <1>3, <2>1, <2>2
<1>5. CASE Claims!Copy
  <2> DEFINE q == [p EXCEPT !.pc = "walk", !.copy = tree]
             r == [p EXCEPT !.pc = "walk", !.left = {}, !.broken = TRUE]
  <2>1. Claims!Become(q) \/ Claims!Become(r)
    BY <1>5 DEF Claims!Copy, p
  <2>2. /\ IsClaim(q) /\ q.kind = p.kind /\ q.guard = p.guard
        /\ IsClaim(r) /\ r.kind = p.kind /\ r.guard = p.guard
    BY <1>2 DEF IsClaim, ClaimFields
  <2> QED
    BY <1>3, <2>1, <2>2
<1>6. CASE Claims!WalkApp
  <2> DEFINE walked == [p EXCEPT !.left = {}]
             outcome == Claims!In("app", walked.copy)
             r == [walked EXCEPT !.broken = TRUE]
  <2>1. Claims!Become(Claims!Report(walked, outcome)) \/ Claims!Become(r)
    BY <1>6 DEF Claims!WalkApp, p
  <2>2. IsClaim(walked) /\ walked.kind = p.kind /\ walked.guard = p.guard
    BY <1>2 DEF IsClaim, ClaimFields
  <2> HIDE DEF walked, outcome
  <2>3. IsClaim(r) /\ r.kind = p.kind /\ r.guard = p.guard
    BY <2>2 DEF IsClaim, ClaimFields
  <2> QED
    BY <1>3, <2>1, <2>2, <2>3, Reported
<1> QED
  BY <1>4, <1>5, <1>6

(* The gate starts the tools' tests, unless it was started by them.        *)
LEMMA WalkToolsStep ==
    ASSUME GateInv, Claims!WalkTools PROVE GateInv'
<1> DEFINE p == Claims!Top
<1>1. stack # <<>> /\ p.kind = "claim" /\ UNCHANGED <<ci, verdict>>
  BY DEF Claims!WalkTools, Claims!Runs
<1>2. IsClaim(p) /\ p = stack[Len(stack)] /\ IsStack(stack)
  BY <1>1, TopClaim, StackTop DEF GateInv, Claims!Top
<1>3. ci' = ci /\ verdict' = verdict
  BY <1>1
<1> HIDE DEF p
<1>4. CASE p.guard
  <2> DEFINE r == [p EXCEPT !.left = @ \ {"tools"}, !.broken = TRUE]
  <2>1. Claims!Become(r)
    BY <1>4 DEF Claims!WalkTools, p
  <2>2. IsClaim(r) /\ r.kind = p.kind /\ r.guard = p.guard
    BY <1>2 DEF IsClaim, ClaimFields
  <2>3. IsProcess(r)
    BY <1>1, <2>2 DEF IsProcess
  <2> QED
    BY <1>1, <2>1, <2>2, <2>3, GoesOnStep DEF p
<1>5. CASE ~p.guard
  <2> DEFINE q == Claims!Suite(TRUE)
  <2>1. stack' = Append(stack, q)
    BY <1>5 DEF Claims!WalkTools, Claims!ChildGuard, p
  <2>2. IsProcess(q) /\ q.kind = "suite" /\ q.guard
    BY Started
  <2> HIDE DEF q
  <2>3. IsStack(stack') /\ stack' # <<>> /\ stack'[1] = stack[1]
    BY <1>1, <1>2, <2>1, <2>2, StackGrows
  <2> QED
    BY <1>1, <1>3, <2>3 DEF GateInv, GatesInOrder, Claims!Green, Claims!Accepts, Claims!Rejected, Claims!Unresolved
<1> QED
  BY <1>4, <1>5

(* A test starts the gate where no guard was found.                        *)
LEMMA SpawnStep ==
    ASSUME GateInv, Claims!Spawn PROVE GateInv'
<1> DEFINE n == Len(stack)
           p == [stack[n] EXCEPT !.pc = "end"]
           s == [stack EXCEPT ![n] = p]
           q == Claims!Claim(stack[n].guard)
<1>1. stack # <<>> /\ IsStack(stack) /\ ci' = ci /\ verdict' = verdict
  BY DEF Claims!Spawn, Claims!Runs, GateInv
<1>2. Claims!Top = stack[n] /\ IsProcess(stack[n]) /\ n \in 1 .. n
  BY <1>1, StackTop DEF Claims!Top
<1>3. stack[n].kind = "suite" /\ ~stack[n].guard
  BY <1>2 DEF Claims!Spawn, Claims!Runs
<1>4. stack' = Append(s, q)
  BY <1>2 DEF Claims!Spawn
<1>5. IsProcess(p) /\ p.kind = stack[n].kind /\ p.guard = stack[n].guard
  BY <1>2, <1>3 DEF IsProcess, SuiteFields
<1> HIDE DEF p
<1>6. IsStack(s) /\ Len(s) = n /\ s[n] = p /\ s # <<>> /\ s[1].kind = stack[1].kind
  BY <1>1, <1>5, StackGoesOn
<1> HIDE DEF s
<1>7. IsProcess(q) /\ q.kind = "claim"
  BY Started
<1> HIDE DEF q
<1>8. \A i \in 1 .. Len(s) : s[i].kind # "claim"
  <2> SUFFICES ASSUME NEW i \in 1 .. n, s[i].kind = "claim" PROVE FALSE
    BY <1>6
  <2>1. n \in Nat
    BY <1>1, StackTop
  <2>2. i # n
    BY <1>3, <1>5, <1>6
  <2>3. i < n
    BY <2>1, <2>2
  <2> QED
    BY <1>2, <1>3, <1>5, <1>6, <2>3 DEF IsStack, GuardedFrom
<1>9. IsStack(stack') /\ stack' # <<>> /\ stack'[1] = s[1]
  BY <1>4, <1>6, <1>7, <1>8, StackGrows
<1> QED
  BY <1>1, <1>6, <1>9 DEF GateInv, GatesInOrder, Claims!Green, Claims!Accepts, Claims!Rejected, Claims!Unresolved

(* The gates that are left.                                                *)
LEMMA Orders ==
    /\ Tail(<<"drift", "app", "claims">>) = <<"app", "claims">>
    /\ Tail(<<"app", "claims">>) = <<"claims">>
    /\ Tail(<<"claims">>) = <<>>
    /\ Head(<<"drift", "app", "claims">>) = "drift" /\ Head(<<"app", "claims">>) = "app"
    /\ Head(<<"claims">>) = "claims"
OBVIOUS

(* What the runner does between two gates.                                 *)
LEMMA RunnerStep ==
    ASSUME GateInv, Claims!StartGate \/ Claims!AppGate PROVE GateInv'
<1>1. /\ ci = [f \in {"guard", "left", "failed"} |-> ci[f]]
      /\ ci.left \in {<<"drift", "app", "claims">>, <<"app", "claims">>, <<"claims">>, <<>>}
  BY DEF GateInv, GatesInOrder
<1>2. CASE Claims!StartGate
  <2> DEFINE p == IF Head(ci.left) = "claims" THEN Claims!Claim(ci.guard) ELSE Claims!Suite(ci.guard)
  <2>1. stack' = <<p>> /\ ci' = ci /\ verdict' = verdict /\ ci.left # <<>> /\ Head(ci.left) # "app"
    BY <1>2 DEF Claims!StartGate
  <2>2. \/ ci.left = <<"drift", "app", "claims">> /\ Head(ci.left) = "drift"
        \/ ci.left = <<"claims">> /\ Head(ci.left) = "claims"
    BY <1>1, <2>1
  <2>3. IsProcess(p) /\ p.kind = IF Head(ci.left) = "claims" THEN "claim" ELSE "suite"
    BY Started
  <2> HIDE DEF p
  <2>4. IsStack(stack') /\ stack' # <<>> /\ stack'[1] = p
    BY <2>1, <2>3, StackStarts
  <2> QED
    BY <2>1, <2>2, <2>3, <2>4
       DEF GateInv, GatesInOrder, Claims!Green, Claims!Accepts, Claims!Rejected, Claims!Unresolved
<1>3. CASE Claims!AppGate
  <2>1. /\ stack' = stack /\ stack = <<>> /\ verdict' = verdict /\ ci.left # <<>> /\ Head(ci.left) = "app"
        /\ \E ok : Claims!EndGate(ok)
    BY <1>3 DEF Claims!AppGate
  <2>2. ci.left = <<"app", "claims">> /\ Tail(ci.left) = <<"claims">>
    <3>1. ci.left = <<"app", "claims">>
      BY <1>1, <2>1
    <3> QED
      BY <3>1, Orders
  <2>3. ci'.left = <<"claims">> /\ ci' = [f \in {"guard", "left", "failed"} |-> ci'[f]]
    BY <1>1, <2>1, <2>2 DEF Claims!EndGate
  <2> QED
    BY <2>1, <2>3 DEF GateInv, GatesInOrder, Claims!Green
<1> QED
  BY <1>2, <1>3

(* The tools' tests end: a gate of the runner is over, or a collection     *)
(* goes on.                                                                *)
LEMMA EndSuiteStep ==
    ASSUME GateInv, Claims!EndSuite PROVE GateInv'
<1> DEFINE above == Claims!Front(stack)
           m == Len(above)
           walked == [above[m] EXCEPT !.left = @ \ {"tools"}]
           broken == [walked EXCEPT !.broken = TRUE]
<1>1. stack # <<>> /\ Claims!Top.kind = "suite" /\ verdict' = verdict /\ IsStack(stack)
  BY DEF Claims!EndSuite, GateInv
<1>2. stack[Len(stack)].kind = "suite" /\ Len(stack) \in 1 .. Len(stack)
  BY <1>1, StackTop DEF Claims!Top
<1>3. /\ IsStack(above)
      /\ above = <<>> <=> Len(stack) = 1
      /\ above # <<>> => above[1] = stack[1] /\ above[m].kind = "claim"
  BY <1>1, <1>2, StackShrinks
<1>4. ci = [f \in {"guard", "left", "failed"} |-> ci[f]]
  BY DEF GateInv, GatesInOrder
<1>5. CASE above = <<>>
  <2>1. stack' = <<>> /\ \E ok : Claims!EndGate(ok)
    BY <1>5 DEF Claims!EndSuite
  <2>2. ci.left = <<"drift", "app", "claims">> /\ Tail(ci.left) = <<"app", "claims">>
    <3>1. stack[1].kind = "suite"
      BY <1>2, <1>3, <1>5
    <3>2. ci.left = <<"drift", "app", "claims">>
      BY <1>1, <3>1 DEF GateInv, GatesInOrder
    <3> QED
      BY <3>2, Orders
  <2>3. ci'.left = <<"app", "claims">> /\ ci' = [f \in {"guard", "left", "failed"} |-> ci'[f]]
    BY <1>4, <2>1, <2>2 DEF Claims!EndGate
  <2>4. IsStack(stack')
    <3>1. stack' \in Seq({}) /\ Len(stack') = 0
      BY <2>1
    <3>2. \A i : i \notin 1 .. Len(stack')
      BY <3>1
    <3> QED
      BY <3>1, <3>2 DEF IsStack, GuardedFrom
  <2> QED
    BY <2>1, <2>3, <2>4 DEF GateInv, GatesInOrder, Claims!Green
<1>6. CASE above # <<>>
  <2>1. Claims!Last(above) = above[m] /\ IsProcess(above[m]) /\ m \in 1 .. m
    BY <1>3, <1>6, StackTop
  <2>2. IsClaim(above[m])
    BY <1>3, <1>6, <2>1 DEF IsProcess
  <2>3. PICK outcome, timely :
          /\ stack' = [above EXCEPT ![m] = IF timely THEN Claims!Report(walked, outcome) ELSE broken]
          /\ ci' = ci
    BY <1>6, <2>1 DEF Claims!EndSuite
  <2>4. IsClaim(walked) /\ walked.kind = above[m].kind /\ walked.guard = above[m].guard
    BY <2>2 DEF IsClaim, ClaimFields
  <2> HIDE DEF walked
  <2>5. IsClaim(broken) /\ broken.kind = walked.kind /\ broken.guard = walked.guard
    BY <2>4 DEF IsClaim, ClaimFields
  <2> HIDE DEF broken, above, m
  <2> DEFINE q == IF timely THEN Claims!Report(walked, outcome) ELSE broken
  <2>6. IsClaim(q) /\ q.kind = above[m].kind /\ q.guard = above[m].guard
    BY <2>4, <2>5, Reported
  <2>7. stack' = [above EXCEPT ![m] = q]
    BY <2>3
  <2> HIDE DEF q
  <2>8. IsProcess(q)
    BY <1>3, <1>6, <2>6 DEF IsProcess
  <2>9. IsStack(stack') /\ stack' # <<>> /\ stack'[1].kind = above[1].kind
    BY <1>3, <1>6, <2>6, <2>7, <2>8, StackGoesOn DEF m
  <2> QED
    BY <1>1, <1>3, <1>6, <2>3, <2>9
       DEF GateInv, GatesInOrder, Claims!Green, Claims!Accepts, Claims!Rejected, Claims!Unresolved
<1> QED
  BY <1>5, <1>6

(* The gate answers: the one the runner started is the last of its gates.  *)
LEMMA JudgeStep ==
    ASSUME GateInv, Claims!Judge PROVE GateInv'
<1> DEFINE p == Claims!Top
           above == Claims!Front(stack)
<1>1. stack # <<>> /\ p.kind = "claim" /\ stack' = above /\ IsStack(stack)
  BY DEF Claims!Judge, Claims!Runs, GateInv
<1>2. IsClaim(p) /\ p = stack[Len(stack)] /\ Len(stack) \in Nat
  BY <1>1, TopClaim, StackTop DEF Claims!Top
<1>3. /\ IsStack(above)
      /\ above = <<>> <=> Len(stack) = 1
      /\ above # <<>> => above[1] = stack[1]
  BY <1>1, StackShrinks
<1>4. ci = [f \in {"guard", "left", "failed"} |-> ci[f]]
  BY DEF GateInv, GatesInOrder
<1> HIDE DEF above
<1>5. CASE Len(stack) = 1
  <2>1. Claims!EndGate(Claims!Accepts(p)) /\ verdict' = p
    BY <1>5 DEF Claims!Judge
  <2>2. ci.left = <<"claims">> /\ Tail(ci.left) = <<>> /\ Head(ci.left) = "claims"
    <3>1. stack[1].kind = "claim"
      BY <1>1, <1>2, <1>5
    <3>2. ci.left = <<"claims">>
      BY <1>1, <3>1 DEF GateInv, GatesInOrder
    <3> QED
      BY <3>2, Orders
  <2> HIDE DEF p
  <2>3. /\ ci' = [f \in {"guard", "left", "failed"} |-> ci'[f]] /\ ci'.left = <<>>
        /\ ci'.failed = IF Claims!Accepts(p) THEN ci.failed ELSE ci.failed \cup {"claims"}
    BY <1>4, <2>1, <2>2 DEF Claims!EndGate
  <2>4. ci'.failed = {} => Claims!Accepts(p)
    BY <2>3
  <2>5. Claims!Accepts(p) => Claims!Accepts(verdict')
    BY <2>1
  <2>6. verdict'.found \subseteq verdict'.proof \cup verdict'.skipped
    BY <1>2, <2>1 DEF IsClaim
  <2>7. Claims!Green' => Claims!Accepts(verdict)'
    BY <2>3, <2>4, <2>1 DEF Claims!Green, Claims!Accepts, Claims!Rejected, Claims!Unresolved
  <2> QED
    BY <1>1, <1>3, <1>5, <2>3, <2>6, <2>7 DEF GateInv, GatesInOrder
<1>6. CASE Len(stack) # 1
  <2>1. ci' = ci /\ verdict' = verdict
    BY <1>6 DEF Claims!Judge
  <2> QED
    BY <1>1, <1>3, <1>6, <2>1
       DEF GateInv, GatesInOrder, Claims!Green, Claims!Accepts, Claims!Rejected, Claims!Unresolved
<1> QED
  BY <1>5, <1>6

LEMMA GateSafe == Claims!Spec => []GateInv
<1>1. Claims!Init => GateInv
  <2> SUFFICES ASSUME Claims!Init PROVE GateInv
    OBVIOUS
  <2>1. stack = <<>> /\ ci \in [guard : BOOLEAN, left : {<<"drift", "app", "claims">>}, failed : {{}}]
    BY DEF Claims!Init
  <2>2. ci = [f \in {"guard", "left", "failed"} |-> ci[f]] /\ ci.left = <<"drift", "app", "claims">>
    BY <2>1
  <2>3. ci.left # <<>>
    BY <2>2
  <2>4. IsStack(stack)
    <3>1. stack \in Seq({}) /\ Len(stack) = 0
      BY <2>1
    <3>2. \A i : i \notin 1 .. Len(stack)
      BY <3>1
    <3> QED
      BY <3>1, <3>2 DEF IsStack, GuardedFrom
  <2> QED
    BY <2>1, <2>2, <2>3, <2>4 DEF GateInv, GatesInOrder, Claims!Green
<1>2. GateInv /\ [Claims!Next]_Claims!vars => GateInv'
  <2> SUFFICES ASSUME GateInv, [Claims!Next]_Claims!vars PROVE GateInv'
    OBVIOUS
  <2>1. ASSUME UNCHANGED <<ci, stack, verdict>> PROVE GateInv'
    <3>1. ci' = ci /\ stack' = stack /\ verdict' = verdict
      BY <2>1
    <3> QED
      BY <3>1 DEF GateInv, GatesInOrder, Claims!Green, Claims!Accepts, Claims!Rejected, Claims!Unresolved
  <2>2. CASE Claims!Edit
    BY <2>1, <2>2 DEF Claims!Edit
  <2>3. CASE UNCHANGED Claims!vars
    BY <2>1, <2>3 DEF Claims!vars
  <2> QED
    BY <2>2, <2>3, RunnerStep, CollectionStep, WalkToolsStep, SpawnStep, EndSuiteStep, JudgeStep
       DEF Claims!Next
<1> QED
  BY <1>1, <1>2, PTL DEF Claims!Spec

(* A green run is earned: every test an advanced claim cites was run, not  *)
(* skipped, in a package that passed as a whole, and the claim's mechanism *)
(* is the one on record, whatever the register says and whoever edits the  *)
(* tree (run_gate, main, check_claims, check_evidence).                    *)
THEOREM GreenEarned == Claims!Spec => []GreenIsEarned
<1>1. GateInv => GreenIsEarned
  <2> SUFFICES ASSUME GateInv, Claims!Green, NEW c \in verdict.register,
                      c.status \in Claims!Advanced
               PROVE  /\ {e \in c.evidence : Kind[e] = "node"} \subseteq verdict.proof
                      /\ c.digest = c.mechanism
    BY DEF GreenIsEarned, Claims!GreenIsEarned
  <2>1. Claims!Accepts(verdict) /\ verdict.found \subseteq verdict.proof \cup verdict.skipped
    BY DEF GateInv, GatesInOrder
  <2>2. ~Claims!Rejected(c, verdict.failed) /\ ~Claims!Unresolved(c, verdict.found, verdict.skipped)
    BY <2>1 DEF Claims!Accepts
  <2>3. c.digest = c.mechanism
    BY <2>2 DEF Claims!Rejected
  <2>4. ASSUME NEW e \in c.evidence, Kind[e] = "node"
        PROVE  e \in verdict.proof
    BY <2>1, <2>2, <2>4 DEF Claims!Unresolved
  <2> QED
    BY <2>3, <2>4
<1> QED
  BY <1>1, GateSafe, PTL

(* The claim gate never runs inside another one's collection of evidence,  *)
(* at whatever depth the tests start processes (_walk_packages and the     *)
(* guard of test_full_gate_run_leaves_the_tree_unmodified).                *)
THEOREM GateNotNested == Claims!Spec => []NeverInsideItself
<1>1. GateInv => NeverInsideItself
  <2> SUFFICES ASSUME GateInv PROVE NeverInsideItself
    OBVIOUS
  <2> DEFINE C == {i \in DOMAIN stack : stack[i].kind = "claim"}
  <2>1. PICK S : stack \in Seq(S)
    BY DEF GateInv, IsStack
  <2>2. DOMAIN stack = 1 .. Len(stack) /\ Len(stack) \in Nat
    BY <2>1
  <2>3. \A i, j \in C : i = j
    <3> SUFFICES ASSUME NEW i \in C, NEW j \in C, i < j PROVE FALSE
      BY <2>2
    <3>1. stack[j].kind = "suite"
      BY <2>2 DEF GateInv, IsStack, GuardedFrom
    <3> QED
      BY <3>1
  <2>4. Cardinality(C) \in {0, 1}
    <3>1. CASE C = {}
      BY <3>1, FS_EmptySet
    <3>2. ASSUME NEW i \in C PROVE Cardinality(C) = 1
      <4>1. C = {i}
        BY <2>3, <3>2
      <4> QED
        BY <4>1, FS_Singleton
    <3> QED
      BY <3>1, <3>2
  <2>5. Claims!Cardinality(C) = Cardinality(C)
    BY DEF Claims!Cardinality, Cardinality
  <2>6. Claims!Cardinality(C) <= 1
    BY <2>4, <2>5
  <2> QED
    BY <2>6 DEF NeverInsideItself, Claims!NeverInsideItself
<1> QED
  BY <1>1, GateSafe, PTL

----------------------------------------------------------------------------
(* The program's history                                                   *)

LEMMA ProgramCardinality ==
    /\ \A S : Program!Cardinality(S) = Cardinality(S)
    /\ IsFiniteSet(Teams) /\ Cards \subseteq [Teams -> Nat] /\ None \notin Documents
    /\ Documents \subseteq [score : 0 .. 100, failed : BOOLEAN, scored : Nat, components : Nat]
<1>1. \A S : Program!Cardinality(S) = Cardinality(S)
  BY DEF Program!Cardinality, Cardinality
<1>2. \A S : Program!IsFiniteSet(S) <=> IsFiniteSet(S)
  BY DEF Program!IsFiniteSet, IsFiniteSet
<1> QED
  BY <1>1, <1>2, ToolkitsAssumption DEF Program!HistoryAssumption

(* A disjoint union over finitely many teams is finite.                    *)
LEMMA TeamsFinite ==
    ASSUME NEW S \in SUBSET Teams, NEW f, \A t \in S : IsFiniteSet(f[t])
    PROVE  IsFiniteSet(UNION {f[t] : t \in S})
<1> DEFINE T == {f[t] : t \in S}
           g == [t \in S |-> f[t]]
<1>1. IsFiniteSet(S)
  BY ProgramCardinality, FS_Subset
<1>2. g \in Surjection(S, T)
  BY DEF Surjection
<1>3. IsFiniteSet(T)
  BY <1>1, <1>2, FS_Surjection
<1> QED
  BY <1>3, FS_UNION

LEMMA UnitsFinite ==
    ASSUME NEW card \in Cards, NEW S \in SUBSET Teams PROVE IsFiniteSet(Program!Units(card, S))
<1> DEFINE f == [t \in Teams |-> {t} \X (1 .. card[t])]
<1>1. ASSUME NEW t \in S PROVE IsFiniteSet(f[t])
  <2>1. card[t] \in Int
    BY ProgramCardinality
  <2>2. IsFiniteSet({t})
    BY FS_Singleton
  <2>3. IsFiniteSet(1 .. card[t])
    BY <2>1, FS_Interval
  <2> QED
    BY <2>2, <2>3, FS_Product
<1>2. Program!Units(card, S) = UNION {f[t] : t \in S}
  BY DEF Program!Units
<1> HIDE DEF f
<1> QED
  BY <1>1, <1>2, TeamsFinite

LEMMA PointsFinite ==
    ASSUME NEW card \in Cards, NEW docs \in [Teams -> Documents \cup {None}],
           NEW S \in SUBSET Teams, \A t \in S : docs[t] # None
    PROVE  IsFiniteSet(Program!Points(card, docs, S))
<1> DEFINE f == [t \in Teams |-> ({t} \X (1 .. card[t])) \X (1 .. docs[t].score)]
<1>1. ASSUME NEW t \in S PROVE IsFiniteSet(f[t])
  <2>1. card[t] \in Int /\ docs[t].score \in Int
    BY ProgramCardinality
  <2>2. IsFiniteSet({t})
    BY FS_Singleton
  <2>3. IsFiniteSet(1 .. card[t])
    BY <2>1, FS_Interval
  <2>4. IsFiniteSet(1 .. docs[t].score)
    BY <2>1, FS_Interval
  <2>5. IsFiniteSet({t} \X (1 .. card[t]))
    BY <2>2, <2>3, FS_Product
  <2> QED
    BY <2>4, <2>5, FS_Product
<1>2. Program!Points(card, docs, S) = UNION {f[t] : t \in S}
  BY DEF Program!Points
<1> HIDE DEF f
<1> QED
  BY <1>1, <1>2, TeamsFinite

(* Leaving out teams never makes the weighted mean rise without making the *)
(* coverage fall, if no team's score rises.                                *)
LEMMA RiseNamesATeam ==
    ASSUME NEW c \in Cards, NEW d1 \in [Teams -> Documents \cup {None}],
           NEW d2 \in [Teams -> Documents \cup {None}],
           Program!Improvement(Program!Rollup(c, d1), Program!Rollup(c, d2))
    PROVE  \E t \in Program!Counted(d2) :
              t \notin Program!Counted(d1) \/ d2[t].score > d1[t].score
<1> DEFINE A == Program!Counted(d1)
           B == Program!Counted(d2)
           m1 == Program!Score(c, d1)
           m2 == Program!Score(c, d2)
           v == Program!Weight(c, A)
           w == Program!Weight(c, B)
           p == Program!Cardinality(Program!Points(c, d1, A))
           q == Program!Cardinality(Program!Points(c, d2, B))
<1> SUFFICES ASSUME \A t \in B : t \in A /\ ~(d2[t].score > d1[t].score) PROVE FALSE
  OBVIOUS
<1>1. /\ A \in SUBSET Teams /\ B \in SUBSET A
      /\ \A t \in A : d1[t] # None /\ d1[t].score \in Nat
      /\ \A t \in B : d2[t] # None /\ d2[t].score \in Nat /\ d2[t].score <= d1[t].score
  BY ProgramCardinality DEF Program!Counted, Program!Assessed
<1>2. /\ m2.sum * m1.weight > m1.sum * m2.weight
      /\ ~(w < v)
  BY DEF Program!Improvement, Program!Narrower, Program!Rose, Program!Rollup, Program!Coverage
<1>3. /\ m1 = IF v = 0 THEN [sum |-> 0, weight |-> 1] ELSE [sum |-> p, weight |-> v]
      /\ m2 = IF w = 0 THEN [sum |-> 0, weight |-> 1] ELSE [sum |-> q, weight |-> w]
  BY DEF Program!Score
<1> HIDE DEF A, B, m1, m2
<1>4. v \in Nat /\ w \in Nat /\ w = v
  <2>1. IsFiniteSet(Program!Units(c, A)) /\ IsFiniteSet(Program!Units(c, B))
    BY <1>1, UnitsFinite
  <2>2. Program!Units(c, B) \subseteq Program!Units(c, A)
    BY <1>1 DEF Program!Units
  <2>3. /\ v = Cardinality(Program!Units(c, A)) /\ w = Cardinality(Program!Units(c, B))
    BY ProgramCardinality DEF Program!Weight
  <2>4. v \in Nat /\ w \in Nat /\ w <= v
    BY <2>1, <2>2, <2>3, FS_CardinalityType, FS_Subset
  <2> QED
    BY <1>2, <2>4
<1>5. p \in Nat /\ q \in Nat /\ q <= p
  <2>1. IsFiniteSet(Program!Points(c, d1, A)) /\ IsFiniteSet(Program!Points(c, d2, B))
    BY <1>1, PointsFinite
  <2>2. Program!Points(c, d2, B) \subseteq Program!Points(c, d1, A)
    <3>1. \A t \in B : (1 .. d2[t].score) \subseteq (1 .. d1[t].score) /\ t \in A
      BY <1>1
    <3> QED
      BY <3>1 DEF Program!Points
  <2>3. p = Cardinality(Program!Points(c, d1, A)) /\ q = Cardinality(Program!Points(c, d2, B))
    BY ProgramCardinality
  <2> QED
    BY <2>1, <2>2, <2>3, FS_CardinalityType, FS_Subset
<1> HIDE DEF v, w, p, q
<1>6. CASE v = 0
  BY <1>2, <1>3, <1>4, <1>6
<1>7. CASE v # 0
  <2>1. q * v > p * v
    BY <1>2, <1>3, <1>4, <1>7
  <2>2. \A x, y, z \in Nat : x <= y => x * z <= y * z
    OBVIOUS
  <2> QED
    BY <1>4, <1>5, <2>1, <2>2
<1> QED
  BY <1>6, <1>7

(* Every entry of the history is a roll-up.                                *)
EntriesAreRollups ==
    /\ \E S : history \in Seq(S)
    /\ \A i \in DOMAIN history : history[i].payload \in Program!Rollups

LEMMA HistorySafe == Program!Spec => []EntriesAreRollups
<1>1. Program!Init => EntriesAreRollups
  <2> SUFFICES ASSUME Program!Init PROVE EntriesAreRollups
    OBVIOUS
  <2>1. history = <<>> /\ history \in Seq({})
    BY DEF Program!Init
  <2> QED
    BY <2>1 DEF EntriesAreRollups
<1>2. EntriesAreRollups /\ [Program!Next]_Program!vars => EntriesAreRollups'
  <2> SUFFICES ASSUME EntriesAreRollups, [Program!Next]_Program!vars PROVE EntriesAreRollups'
    OBVIOUS
  <2>1. CASE UNCHANGED history
    <3>1. history' = history
      BY <2>1
    <3> QED
      BY <3>1 DEF EntriesAreRollups
  <2>2. ASSUME NEW p \in Procs, Program!Record(p) PROVE EntriesAreRollups'
    <3>1. PICK payload \in Program!Rollups :
            history' = Append(history, [sequence |-> recorder[p].sequence, prev |-> recorder[p].prev,
                                        payload |-> payload])
      BY <2>2 DEF Program!Record
    <3> DEFINE e == [sequence |-> recorder[p].sequence, prev |-> recorder[p].prev, payload |-> payload]
    <3>2. e.payload = payload
      OBVIOUS
    <3> HIDE DEF e
    <3>3. history' = Append(history, e)
      BY <3>1 DEF e
    <3>4. PICK S : history \in Seq(S)
      BY DEF EntriesAreRollups
    <3>5. history \in Seq(S \cup {e})
      BY <3>4
    <3>6. history' \in Seq(S \cup {e})
      BY <3>3, <3>5
    <3>7. \A i \in DOMAIN history' : history'[i] = e \/ (i \in DOMAIN history /\ history'[i] = history[i])
      BY <3>3, <3>5
    <3>8. \A i \in DOMAIN history' : history'[i].payload \in Program!Rollups
      BY <3>1, <3>2, <3>7 DEF EntriesAreRollups
    <3> QED
      BY <3>6, <3>8 DEF EntriesAreRollups
  <2> QED
    BY <2>1, <2>2 DEF Program!Next, Program!vars, Program!ReadHistory, Program!Kill
<1> QED
  BY <1>1, <1>2, PTL DEF Program!Spec

(* When trend reports an improvement of the program, some team improved or *)
(* was assessed that had not been, for any weights, teams and documents:   *)
(* leaving a team out never makes the number rise without a note (trend of *)
(* program_history.py over rollup of program_rollup.py).                   *)
THEOREM ImprovementsAreReal == Program!Spec => []ImprovementIsReal
<1>1. EntriesAreRollups => ImprovementIsReal
  <2> SUFFICES ASSUME EntriesAreRollups, NEW i \in 1 .. Len(history) - 1,
                      Program!Improvement(history[i].payload, history[i + 1].payload)
               PROVE  LET before == history[i].payload
                          after == history[i + 1].payload
                      IN \E t \in DOMAIN after.teams :
                            /\ after.teams[t].counted
                            /\ \/ t \notin DOMAIN before.teams
                               \/ ~before.teams[t].counted
                               \/ after.teams[t].score > before.teams[t].score
    BY DEF ImprovementIsReal, Program!ImprovementIsReal
  <2> DEFINE before == history[i].payload
             after == history[i + 1].payload
  <2>1. before \in Program!Rollups /\ after \in Program!Rollups
    <3>1. PICK S : history \in Seq(S)
      BY DEF EntriesAreRollups
    <3>2. i \in DOMAIN history /\ i + 1 \in DOMAIN history
      BY <3>1
    <3> QED
      BY <3>2 DEF EntriesAreRollups
  <2>2. PICK c \in Cards, d1 \in [Teams -> Documents \cup {None}] : before = Program!Rollup(c, d1)
    BY <2>1 DEF Program!Rollups
  <2>3. PICK k \in Cards, d2 \in [Teams -> Documents \cup {None}] : after = Program!Rollup(k, d2)
    BY <2>1 DEF Program!Rollups
  <2>4. c = k
    <3>1. before.weights = after.weights
      BY DEF Program!Improvement, Program!Comparable
    <3>2. before.weights = c /\ after.weights = k
      BY <2>2, <2>3 DEF Program!Rollup
    <3> QED
      BY <3>1, <3>2
  <2>5. PICK t \in Program!Counted(d2) : t \notin Program!Counted(d1) \/ d2[t].score > d1[t].score
    BY <2>2, <2>3, <2>4, RiseNamesATeam
  <2>6. /\ before.teams = [x \in Program!Assessed(d1) |->
                             [score |-> d1[x].score, counted |-> Program!Complete(d1[x])]]
        /\ after.teams = [x \in Program!Assessed(d2) |->
                            [score |-> d2[x].score, counted |-> Program!Complete(d2[x])]]
    BY <2>2, <2>3 DEF Program!Rollup
  <2>7. /\ t \in Program!Assessed(d2) /\ Program!Complete(d2[t])
        /\ \/ t \notin Program!Assessed(d1) \/ ~Program!Complete(d1[t])
           \/ d2[t].score > d1[t].score
    BY <2>5 DEF Program!Counted
  <2> HIDE DEF before, after
  <2>8. t \in DOMAIN after.teams /\ after.teams[t].counted /\ after.teams[t].score = d2[t].score
    BY <2>6, <2>7
  <2>9. t \in DOMAIN before.teams =>
          before.teams[t].counted = Program!Complete(d1[t]) /\ before.teams[t].score = d1[t].score
    BY <2>6
  <2>10. t \notin DOMAIN before.teams <=> t \notin Program!Assessed(d1)
    BY <2>6
  <2>11. \/ t \notin DOMAIN before.teams \/ ~before.teams[t].counted
         \/ after.teams[t].score > before.teams[t].score
    BY <2>7, <2>8, <2>9, <2>10
  <2> QED
    BY <2>8, <2>11 DEF before, after
<1> QED
  BY <1>1, HistorySafe, PTL
============================================================================
