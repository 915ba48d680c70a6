---------------------- MODULE TaskTransactions_proofs ----------------------
(***************************************************************************)
(* The audit chain has no gap, no fork and no lost event, for every number *)
(* of sessions, connectors and tasks and however their transactions        *)
(* interleave.  Two mechanisms together do it: whoever is about to write   *)
(* holds the organization row alone (Exclusive, Holding), and what a       *)
(* transaction read of that row is a prefix of the chain that the unique   *)
(* sequence accepts only when it is the whole of it (Copies, Holding).     *)
(***************************************************************************)
EXTENDS TaskTransactions, TLAPS

(* A transaction is a record of these fields, whatever they hold.          *)
Txn(op, arg, pc, level, seq, head, clock, rows, org) ==
    [op |-> op, arg |-> arg, pc |-> pc, level |-> level, seq |-> seq,
     head |-> head, clock |-> clock, rows |-> rows, org |-> org]

IsTxn(x) == \E op, arg, pc, level, seq, head, clock, rows, org :
                x = Txn(op, arg, pc, level, seq, head, clock, rows, org)

Shape ==
    /\ txn = [i \in Slot |-> txn[i]]
    /\ \A i \in Slot : IsTxn(txn[i])

(* A transaction moves on, and no table changes.                           *)
Moves(i, op, arg, pc, level, seq, head, clock, rows, org) ==
    /\ Advance(i, Txn(op, arg, pc, level, seq, head, clock, rows, org))
    /\ Uncommitted

----------------------------------------------------------------------------
(* The idle transaction has the fields.                                    *)
LEMMA IsTxnNoTxn == IsTxn(NoTxn)
<1>1. NoTxn = Txn("none", [task |-> None], "idle", "normal", 0, 0, 0, {}, "none")
  BY DEF NoTxn, Txn
<1> QED
  BY <1>1, Zenon DEF IsTxn

(* Nothing else moves with it.                                             *)
LEMMA MovesFields ==
    ASSUME Shape, NEW i \in Slot,
           NEW op, NEW arg, NEW pc, NEW level, NEW seq, NEW head, NEW clock, NEW rows,
           NEW org, Moves(i, op, arg, pc, level, seq, head, clock, rows, org)
    PROVE  /\ Shape'
           /\ \A j \in Slot \ {i} : txn'[j] = txn[j]
           /\ txn'[i].op = op /\ txn'[i].arg = arg /\ txn'[i].pc = pc
           /\ txn'[i].level = level /\ txn'[i].seq = seq /\ txn'[i].head = head
           /\ txn'[i].clock = clock /\ txn'[i].rows = rows /\ txn'[i].org = org
<1> DEFINE x == Txn(op, arg, pc, level, seq, head, clock, rows, org)
<1>1. txn' = [j \in Slot |-> IF j = i THEN x ELSE txn[j]]
  BY DEF Moves, Advance, Shape
<1>2. txn'[i] = x /\ \A j \in Slot \ {i} : txn'[j] = txn[j]
  BY <1>1
<1>3. /\ x.op = op /\ x.arg = arg /\ x.pc = pc /\ x.level = level /\ x.seq = seq
      /\ x.head = head /\ x.clock = clock /\ x.rows = rows /\ x.org = org
  BY DEF Txn
<1>4. txn' = [j \in Slot |-> txn'[j]]
  BY <1>1
<1>5. IsTxn(x)
  BY Zenon DEF IsTxn
<1> HIDE DEF x
<1>6. \A j \in Slot : IsTxn(txn'[j])
  BY <1>2, <1>5 DEF Shape
<1> QED
  BY <1>2, <1>3, <1>4, <1>6 DEF Shape

(* A transaction that ends is idle again.                                  *)
LEMMA EndsFields ==
    ASSUME Shape, NEW i \in Slot, Advance(i, NoTxn)
    PROVE  /\ Shape'
           /\ txn'[i] = NoTxn
           /\ \A j \in Slot \ {i} : txn'[j] = txn[j]
<1>1. txn' = [j \in Slot |-> IF j = i THEN NoTxn ELSE txn[j]]
  BY DEF Advance, Shape
<1>2. txn'[i] = NoTxn /\ \A j \in Slot \ {i} : txn'[j] = txn[j]
  BY <1>1
<1>3. txn' = [j \in Slot |-> txn'[j]]
  BY <1>1
<1> QED
  BY <1>2, <1>3, IsTxnNoTxn DEF Shape

----------------------------------------------------------------------------
(* What each action does with its transaction.                             *)

(* A human request loads the organization row.                             *)
LEMMA ResolveMoves ==
    ASSUME Shape, NEW h \in Sessions, NEW in \in HumanInput,
           NEW o, NEW a, o = in.op, a = in.arg, ResolveContext(h, in)
    PROVE  Moves(h, o, a, "loaded", safety, auditSeq, auditHead, now, {}, "none")
<1>1. NoTxn = Txn("none", [task |-> None], "idle", "normal", 0, 0, 0, {}, "none")
  BY DEF NoTxn, Txn
<1> DEFINE y1 == [NoTxn EXCEPT !.level = safety]
           y2 == [y1 EXCEPT !.seq = auditSeq]
           y3 == [y2 EXCEPT !.head = auditHead]
           y4 == [y3 EXCEPT !.op = o]
           y5 == [y4 EXCEPT !.arg = a]
           y6 == [y5 EXCEPT !.pc = "loaded"]
           y7 == [y6 EXCEPT !.clock = now]
<1>3. Advance(h, y7) /\ Uncommitted
  BY DEF ResolveContext, Loaded
<1>4. y1 = Txn("none", [task |-> None], "idle", safety, 0, 0, 0, {}, "none")
  BY <1>1 DEF Txn
<1> HIDE DEF y1
<1>5. y2 = Txn("none", [task |-> None], "idle", safety, auditSeq, 0, 0, {},
              "none")
  BY <1>4 DEF Txn
<1> HIDE DEF y2
<1>6. y3 = Txn("none", [task |-> None], "idle", safety, auditSeq, auditHead, 0,
              {}, "none")
  BY <1>5 DEF Txn
<1> HIDE DEF y3
<1>7. y4 = Txn(o, [task |-> None], "idle", safety, auditSeq, auditHead, 0, {},
              "none")
  BY <1>6 DEF Txn
<1> HIDE DEF y4
<1>8. y5 = Txn(o, a, "idle", safety, auditSeq, auditHead, 0, {}, "none")
  BY <1>7 DEF Txn
<1> HIDE DEF y5
<1>9. y6 = Txn(o, a, "loaded", safety, auditSeq, auditHead, 0, {}, "none")
  BY <1>8 DEF Txn
<1> HIDE DEF y6
<1>10. y7 = Txn(o, a, "loaded", safety, auditSeq, auditHead, now, {}, "none")
  BY <1>9 DEF Txn
<1> HIDE DEF y7
<1> QED
  BY <1>3, <1>10 DEF Moves

(* Its checks leave its locks alone.                                       *)
LEMMA CheckMoves ==
    ASSUME Shape, NEW h \in Sessions, Check(h)
    PROVE  LET x == txn[h]
           IN  Moves(h, x.op, x.arg, IF x.op = "revoke" THEN "ready" ELSE "checked", x.level,
                     x.seq, x.head, x.clock, x.rows, x.org)
<1>1. PICK op, arg, pc, level, seq, head, clock, rows, org :
         txn[h] = Txn(op, arg, pc, level, seq, head, clock, rows, org)
  BY DEF Shape, IsTxn, Slot
<1>2. /\ txn[h].op = op /\ txn[h].arg = arg /\ txn[h].pc = pc
      /\ txn[h].level = level /\ txn[h].seq = seq /\ txn[h].head = head
      /\ txn[h].clock = clock /\ txn[h].rows = rows /\ txn[h].org = org
  BY <1>1 DEF Txn
<1> DEFINE y1 == [txn[h] EXCEPT !.pc = IF txn[h].op = "revoke" THEN "ready" ELSE "checked"]
<1>3. Advance(h, y1) /\ Uncommitted
  BY DEF Check
<1>4. y1 = Txn(op, arg, IF op = "revoke" THEN "ready" ELSE "checked", level,
              seq, head, clock, rows, org)
  BY <1>1, <1>2 DEF Txn
<1> HIDE DEF y1
<1> QED
  BY <1>2, <1>3, <1>4 DEF Moves

(* An insert shares the organization row.                                  *)
LEMMA InsertMoves ==
    ASSUME Shape, NEW h \in Sessions, Insert(h)
    PROVE  LET x == txn[h]
           IN  Moves(h, x.op, x.arg, "ready", x.level, x.seq, x.head, x.clock, x.rows, "share")
<1>1. PICK op, arg, pc, level, seq, head, clock, rows, org :
         txn[h] = Txn(op, arg, pc, level, seq, head, clock, rows, org)
  BY DEF Shape, IsTxn, Slot
<1>2. /\ txn[h].op = op /\ txn[h].arg = arg /\ txn[h].pc = pc
      /\ txn[h].level = level /\ txn[h].seq = seq /\ txn[h].head = head
      /\ txn[h].clock = clock /\ txn[h].rows = rows /\ txn[h].org = org
  BY <1>1 DEF Txn
<1> DEFINE y1 == [txn[h] EXCEPT !.pc = "ready"]
           y2 == [y1 EXCEPT !.org = "share"]
<1>3. Advance(h, y2) /\ Uncommitted
  BY DEF Insert
<1>4. y1 = Txn(op, arg, "ready", level, seq, head, clock, rows, org)
  BY <1>1 DEF Txn
<1> HIDE DEF y1
<1>5. y2 = Txn(op, arg, "ready", level, seq, head, clock, rows, "share")
  BY <1>4 DEF Txn
<1> HIDE DEF y2
<1> QED
  BY <1>2, <1>3, <1>5 DEF Moves

(* A decision locks its task row.                                          *)
LEMMA DecisionMoves ==
    ASSUME Shape, NEW h \in Sessions, LockDecision(h)
    PROVE  LET x == txn[h]
           IN  Moves(h, x.op, x.arg, "ready", x.level, x.seq, x.head, now, {x.arg.task}, x.org)
<1>1. PICK op, arg, pc, level, seq, head, clock, rows, org :
         txn[h] = Txn(op, arg, pc, level, seq, head, clock, rows, org)
  BY DEF Shape, IsTxn, Slot
<1>2. /\ txn[h].op = op /\ txn[h].arg = arg /\ txn[h].pc = pc
      /\ txn[h].level = level /\ txn[h].seq = seq /\ txn[h].head = head
      /\ txn[h].clock = clock /\ txn[h].rows = rows /\ txn[h].org = org
  BY <1>1 DEF Txn
<1> DEFINE y1 == [txn[h] EXCEPT !.pc = "ready"]
           y2 == [y1 EXCEPT !.rows = {txn[h].arg.task}]
           y3 == [y2 EXCEPT !.clock = now]
<1>3. Advance(h, y3) /\ Uncommitted
  BY DEF LockDecision
<1>4. y1 = Txn(op, arg, "ready", level, seq, head, clock, rows, org)
  BY <1>1 DEF Txn
<1> HIDE DEF y1
<1>5. y2 = Txn(op, arg, "ready", level, seq, head, clock, {arg.task}, org)
  BY <1>4, <1>2 DEF Txn
<1> HIDE DEF y2
<1>6. y3 = Txn(op, arg, "ready", level, seq, head, now, {arg.task}, org)
  BY <1>5 DEF Txn
<1> HIDE DEF y3
<1> QED
  BY <1>2, <1>3, <1>6 DEF Moves

(* A safety change locks the organization row,                             *)
LEMMA SafetyMoves ==
    ASSUME Shape, NEW h \in Sessions, LockSafety(h)
    PROVE  LET x == txn[h]
           IN  Moves(h, x.op, x.arg, "safety", x.level, x.seq, x.head, x.clock, x.rows,
                     "update")
<1>1. PICK op, arg, pc, level, seq, head, clock, rows, org :
         txn[h] = Txn(op, arg, pc, level, seq, head, clock, rows, org)
  BY DEF Shape, IsTxn, Slot
<1>2. /\ txn[h].op = op /\ txn[h].arg = arg /\ txn[h].pc = pc
      /\ txn[h].level = level /\ txn[h].seq = seq /\ txn[h].head = head
      /\ txn[h].clock = clock /\ txn[h].rows = rows /\ txn[h].org = org
  BY <1>1 DEF Txn
<1> DEFINE y1 == [txn[h] EXCEPT !.pc = "safety"]
           y2 == [y1 EXCEPT !.org = "update"]
<1>3. Advance(h, y2) /\ Uncommitted
  BY DEF LockSafety
<1>4. y1 = Txn(op, arg, "safety", level, seq, head, clock, rows, org)
  BY <1>1 DEF Txn
<1> HIDE DEF y1
<1>5. y2 = Txn(op, arg, "safety", level, seq, head, clock, rows, "update")
  BY <1>4 DEF Txn
<1> HIDE DEF y2
<1> QED
  BY <1>2, <1>3, <1>5 DEF Moves

(* and then every task row it stops.                                       *)
LEMMA StopMoves ==
    ASSUME Shape, NEW h \in Sessions, StopTasks(h)
    PROVE  LET x == txn[h]
           IN  Moves(h, x.op, x.arg, "locked", x.level, x.seq, x.head, x.clock,
                     Stoppable(x.arg.level), x.org)
<1>1. PICK op, arg, pc, level, seq, head, clock, rows, org :
         txn[h] = Txn(op, arg, pc, level, seq, head, clock, rows, org)
  BY DEF Shape, IsTxn, Slot
<1>2. /\ txn[h].op = op /\ txn[h].arg = arg /\ txn[h].pc = pc
      /\ txn[h].level = level /\ txn[h].seq = seq /\ txn[h].head = head
      /\ txn[h].clock = clock /\ txn[h].rows = rows /\ txn[h].org = org
  BY <1>1 DEF Txn
<1> DEFINE y1 == [txn[h] EXCEPT !.pc = "locked"]
           y2 == [y1 EXCEPT !.rows = Stoppable(txn[h].arg.level)]
<1>3. Advance(h, y2) /\ Uncommitted
  BY DEF StopTasks
<1>4. y1 = Txn(op, arg, "locked", level, seq, head, clock, rows, org)
  BY <1>1 DEF Txn
<1> HIDE DEF y1
<1>5. y2 = Txn(op, arg, "locked", level, seq, head, clock, Stoppable(arg.level),
              org)
  BY <1>4, <1>2 DEF Txn
<1> HIDE DEF y2
<1> QED
  BY <1>2, <1>3, <1>5 DEF Moves

(* A connector request begins without the organization row.                *)
LEMMA BeginMoves ==
    ASSUME Shape, NEW r \in Requests, NEW in \in ConnectorInput,
           NEW o, NEW a, o = in.op, a = in.arg, BeginConnector(r, in)
    PROVE  Moves(r, o, a, "begun", "normal", 0, 0, 0, {}, "none")
<1>1. NoTxn = Txn("none", [task |-> None], "idle", "normal", 0, 0, 0, {}, "none")
  BY DEF NoTxn, Txn
<1> DEFINE y1 == [NoTxn EXCEPT !.op = o]
           y2 == [y1 EXCEPT !.arg = a]
           y3 == [y2 EXCEPT !.pc = "begun"]
<1>3. Advance(r, y3) /\ Uncommitted
  BY DEF BeginConnector
<1>4. y1 = Txn(o, [task |-> None], "idle", "normal", 0, 0, 0, {}, "none")
  BY <1>1 DEF Txn
<1> HIDE DEF y1
<1>5. y2 = Txn(o, a, "idle", "normal", 0, 0, 0, {}, "none")
  BY <1>4 DEF Txn
<1> HIDE DEF y2
<1>6. y3 = Txn(o, a, "begun", "normal", 0, 0, 0, {}, "none")
  BY <1>5 DEF Txn
<1> HIDE DEF y3
<1> QED
  BY <1>3, <1>6 DEF Moves

(* A lease loads it.                                                       *)
LEMMA LoadMoves ==
    ASSUME Shape, NEW r \in Requests, LoadOrganization(r)
    PROVE  LET x == txn[r]
           IN  Moves(r, x.op, x.arg, "loaded", safety, auditSeq, auditHead, now, x.rows, x.org)
<1>1. PICK op, arg, pc, level, seq, head, clock, rows, org :
         txn[r] = Txn(op, arg, pc, level, seq, head, clock, rows, org)
  BY DEF Shape, IsTxn, Slot
<1>2. /\ txn[r].op = op /\ txn[r].arg = arg /\ txn[r].pc = pc
      /\ txn[r].level = level /\ txn[r].seq = seq /\ txn[r].head = head
      /\ txn[r].clock = clock /\ txn[r].rows = rows /\ txn[r].org = org
  BY <1>1 DEF Txn
<1> DEFINE y1 == [txn[r] EXCEPT !.level = safety]
           y2 == [y1 EXCEPT !.seq = auditSeq]
           y3 == [y2 EXCEPT !.head = auditHead]
           y4 == [y3 EXCEPT !.pc = "loaded"]
           y5 == [y4 EXCEPT !.clock = now]
<1>3. Advance(r, y5) /\ Uncommitted
  BY DEF LoadOrganization, Loaded
<1>4. y1 = Txn(op, arg, pc, safety, seq, head, clock, rows, org)
  BY <1>1 DEF Txn
<1> HIDE DEF y1
<1>5. y2 = Txn(op, arg, pc, safety, auditSeq, head, clock, rows, org)
  BY <1>4 DEF Txn
<1> HIDE DEF y2
<1>6. y3 = Txn(op, arg, pc, safety, auditSeq, auditHead, clock, rows, org)
  BY <1>5 DEF Txn
<1> HIDE DEF y3
<1>7. y4 = Txn(op, arg, "loaded", safety, auditSeq, auditHead, clock, rows, org)
  BY <1>6 DEF Txn
<1> HIDE DEF y4
<1>8. y5 = Txn(op, arg, "loaded", safety, auditSeq, auditHead, now, rows, org)
  BY <1>7 DEF Txn
<1> HIDE DEF y5
<1> QED
  BY <1>2, <1>3, <1>8 DEF Moves

(* It locks the expired tasks it requeues,                                 *)
LEMMA RequeueMoves ==
    ASSUME Shape, NEW r \in Requests, Requeue(r)
    PROVE  LET x == txn[r]
           IN  Moves(r, x.op, x.arg, "requeued", x.level, x.seq, x.head, x.clock,
                     Requeued(request[r].conn, x.clock), x.org)
<1>1. PICK op, arg, pc, level, seq, head, clock, rows, org :
         txn[r] = Txn(op, arg, pc, level, seq, head, clock, rows, org)
  BY DEF Shape, IsTxn, Slot
<1>2. /\ txn[r].op = op /\ txn[r].arg = arg /\ txn[r].pc = pc
      /\ txn[r].level = level /\ txn[r].seq = seq /\ txn[r].head = head
      /\ txn[r].clock = clock /\ txn[r].rows = rows /\ txn[r].org = org
  BY <1>1 DEF Txn
<1> DEFINE y1 == [txn[r] EXCEPT !.pc = "requeued"]
           y2 == [y1 EXCEPT !.rows = Requeued(request[r].conn, txn[r].clock)]
<1>3. Advance(r, y2) /\ Uncommitted
  BY DEF Requeue
<1>4. y1 = Txn(op, arg, "requeued", level, seq, head, clock, rows, org)
  BY <1>1 DEF Txn
<1> HIDE DEF y1
<1>5. y2 = Txn(op, arg, "requeued", level, seq, head, clock,
              Requeued(request[r].conn, clock), org)
  BY <1>4, <1>2 DEF Txn
<1> HIDE DEF y2
<1> QED
  BY <1>2, <1>3, <1>5 DEF Moves

(* and the task it takes.                                                  *)
LEMMA PickMoves ==
    ASSUME Shape, NEW r \in Requests, NEW t \in Tasks, Pick(r, t)
    PROVE  LET x == txn[r]
           IN  Moves(r, x.op, [task |-> t, back |-> x.rows], "ready", x.level, x.seq, x.head,
                     x.clock, x.rows \cup {t}, x.org)
<1>1. PICK op, arg, pc, level, seq, head, clock, rows, org :
         txn[r] = Txn(op, arg, pc, level, seq, head, clock, rows, org)
  BY DEF Shape, IsTxn, Slot
<1>2. /\ txn[r].op = op /\ txn[r].arg = arg /\ txn[r].pc = pc
      /\ txn[r].level = level /\ txn[r].seq = seq /\ txn[r].head = head
      /\ txn[r].clock = clock /\ txn[r].rows = rows /\ txn[r].org = org
  BY <1>1 DEF Txn
<1> DEFINE y1 == [txn[r] EXCEPT !.pc = "ready"]
           y2 == [y1 EXCEPT !.rows = txn[r].rows \cup {t}]
           y3 == [y2 EXCEPT !.arg = [task |-> t, back |-> txn[r].rows]]
<1>3. Advance(r, y3) /\ Uncommitted
  BY DEF Pick
<1>4. y1 = Txn(op, arg, "ready", level, seq, head, clock, rows, org)
  BY <1>1 DEF Txn
<1> HIDE DEF y1
<1>5. y2 = Txn(op, arg, "ready", level, seq, head, clock, rows \cup {t}, org)
  BY <1>4, <1>2 DEF Txn
<1> HIDE DEF y2
<1>6. y3 = Txn(op, [task |-> t, back |-> rows], "ready", level, seq, head,
              clock, rows \cup {t}, org)
  BY <1>5, <1>2 DEF Txn
<1> HIDE DEF y3
<1> QED
  BY <1>2, <1>3, <1>6 DEF Moves

(* Renewal and completion lock their task row.                             *)
LEMMA LeasedMoves ==
    ASSUME Shape, NEW r \in Requests, LockLeased(r)
    PROVE  LET x == txn[r]
           IN  Moves(r, x.op, x.arg, IF x.op = "renew" THEN "gate" ELSE "ready", x.level,
                     x.seq, x.head, now, {x.arg.task}, x.org)
<1>1. PICK op, arg, pc, level, seq, head, clock, rows, org :
         txn[r] = Txn(op, arg, pc, level, seq, head, clock, rows, org)
  BY DEF Shape, IsTxn, Slot
<1>2. /\ txn[r].op = op /\ txn[r].arg = arg /\ txn[r].pc = pc
      /\ txn[r].level = level /\ txn[r].seq = seq /\ txn[r].head = head
      /\ txn[r].clock = clock /\ txn[r].rows = rows /\ txn[r].org = org
  BY <1>1 DEF Txn
<1> DEFINE y1 == [txn[r] EXCEPT !.pc = IF txn[r].op = "renew" THEN "gate" ELSE "ready"]
           y2 == [y1 EXCEPT !.rows = {txn[r].arg.task}]
           y3 == [y2 EXCEPT !.clock = now]
<1>3. Advance(r, y3) /\ Uncommitted
  BY DEF LockLeased
<1>4. y1 = Txn(op, arg, IF op = "renew" THEN "gate" ELSE "ready", level, seq,
              head, clock, rows, org)
  BY <1>1, <1>2 DEF Txn
<1> HIDE DEF y1
<1>5. y2 = Txn(op, arg, IF op = "renew" THEN "gate" ELSE "ready", level, seq,
              head, clock, {arg.task}, org)
  BY <1>4, <1>2 DEF Txn
<1> HIDE DEF y2
<1>6. y3 = Txn(op, arg, IF op = "renew" THEN "gate" ELSE "ready", level, seq,
              head, now, {arg.task}, org)
  BY <1>5 DEF Txn
<1> HIDE DEF y3
<1> QED
  BY <1>2, <1>3, <1>6 DEF Moves

(* A renewal passes the safety gate last.                                  *)
LEMMA GateMoves ==
    ASSUME Shape, NEW r \in Requests, RenewGate(r)
    PROVE  LET x == txn[r]
           IN  Moves(r, x.op, x.arg, "flushed", x.level, x.seq, x.head, x.clock, x.rows, x.org)
<1>1. PICK op, arg, pc, level, seq, head, clock, rows, org :
         txn[r] = Txn(op, arg, pc, level, seq, head, clock, rows, org)
  BY DEF Shape, IsTxn, Slot
<1>2. /\ txn[r].op = op /\ txn[r].arg = arg /\ txn[r].pc = pc
      /\ txn[r].level = level /\ txn[r].seq = seq /\ txn[r].head = head
      /\ txn[r].clock = clock /\ txn[r].rows = rows /\ txn[r].org = org
  BY <1>1 DEF Txn
<1> DEFINE y1 == [txn[r] EXCEPT !.pc = "flushed"]
<1>3. Advance(r, y1) /\ Uncommitted
  BY DEF RenewGate
<1>4. y1 = Txn(op, arg, "flushed", level, seq, head, clock, rows, org)
  BY <1>1 DEF Txn
<1> HIDE DEF y1
<1> QED
  BY <1>2, <1>3, <1>4 DEF Moves

(* append_audit locks the organization row; who had loaded it keeps its copy,*)
LEMMA LockKeptMoves ==
    ASSUME Shape, NEW i \in Slot, LockOrganization(i), txn[i].op # "complete"
    PROVE  LET x == txn[i]
           IN  Moves(i, x.op, x.arg, "locked", x.level, x.seq, x.head, x.clock, x.rows,
                     "update")
<1>1. PICK op, arg, pc, level, seq, head, clock, rows, org :
         txn[i] = Txn(op, arg, pc, level, seq, head, clock, rows, org)
  BY DEF Shape, IsTxn
<1>2. /\ txn[i].op = op /\ txn[i].arg = arg /\ txn[i].pc = pc
      /\ txn[i].level = level /\ txn[i].seq = seq /\ txn[i].head = head
      /\ txn[i].clock = clock /\ txn[i].rows = rows /\ txn[i].org = org
  BY <1>1 DEF Txn
<1> DEFINE y1 == [txn[i] EXCEPT !.pc = "locked"]
           y2 == [y1 EXCEPT !.org = "update"]
<1>3. Advance(i, y2) /\ Uncommitted
  BY DEF LockOrganization, Refreshed
<1>4. y1 = Txn(op, arg, "locked", level, seq, head, clock, rows, org)
  BY <1>1 DEF Txn
<1> HIDE DEF y1
<1>5. y2 = Txn(op, arg, "locked", level, seq, head, clock, rows, "update")
  BY <1>4 DEF Txn
<1> HIDE DEF y2
<1> QED
  BY <1>2, <1>3, <1>5 DEF Moves

(* and a completion, which had not, loads it then.                         *)
LEMMA LockFreshMoves ==
    ASSUME Shape, NEW i \in Slot, LockOrganization(i), txn[i].op = "complete"
    PROVE  LET x == txn[i]
           IN  Moves(i, x.op, x.arg, "locked", safety, auditSeq, auditHead, x.clock, x.rows,
                     "update")
<1>1. PICK op, arg, pc, level, seq, head, clock, rows, org :
         txn[i] = Txn(op, arg, pc, level, seq, head, clock, rows, org)
  BY DEF Shape, IsTxn
<1>2. /\ txn[i].op = op /\ txn[i].arg = arg /\ txn[i].pc = pc
      /\ txn[i].level = level /\ txn[i].seq = seq /\ txn[i].head = head
      /\ txn[i].clock = clock /\ txn[i].rows = rows /\ txn[i].org = org
  BY <1>1 DEF Txn
<1> DEFINE y1 == [txn[i] EXCEPT !.level = safety]
           y2 == [y1 EXCEPT !.seq = auditSeq]
           y3 == [y2 EXCEPT !.head = auditHead]
           y4 == [y3 EXCEPT !.pc = "locked"]
           y5 == [y4 EXCEPT !.org = "update"]
<1>3. Advance(i, y5) /\ Uncommitted
  BY DEF LockOrganization, Refreshed, Loaded
<1>4. y1 = Txn(op, arg, pc, safety, seq, head, clock, rows, org)
  BY <1>1 DEF Txn
<1> HIDE DEF y1
<1>5. y2 = Txn(op, arg, pc, safety, auditSeq, head, clock, rows, org)
  BY <1>4 DEF Txn
<1> HIDE DEF y2
<1>6. y3 = Txn(op, arg, pc, safety, auditSeq, auditHead, clock, rows, org)
  BY <1>5 DEF Txn
<1> HIDE DEF y3
<1>7. y4 = Txn(op, arg, "locked", safety, auditSeq, auditHead, clock, rows, org)
  BY <1>6 DEF Txn
<1> HIDE DEF y4
<1>8. y5 = Txn(op, arg, "locked", safety, auditSeq, auditHead, clock, rows,
              "update")
  BY <1>7 DEF Txn
<1> HIDE DEF y5
<1> QED
  BY <1>2, <1>3, <1>8 DEF Moves

(* The event is accepted.                                                  *)
LEMMA FlushMoves ==
    ASSUME Shape, NEW i \in Slot, Flush(i)
    PROVE  LET x == txn[i]
           IN  Moves(i, x.op, x.arg, "flushed", x.level, x.seq, x.head, x.clock, x.rows, x.org)
<1>1. PICK op, arg, pc, level, seq, head, clock, rows, org :
         txn[i] = Txn(op, arg, pc, level, seq, head, clock, rows, org)
  BY DEF Shape, IsTxn
<1>2. /\ txn[i].op = op /\ txn[i].arg = arg /\ txn[i].pc = pc
      /\ txn[i].level = level /\ txn[i].seq = seq /\ txn[i].head = head
      /\ txn[i].clock = clock /\ txn[i].rows = rows /\ txn[i].org = org
  BY <1>1 DEF Txn
<1> DEFINE y1 == [txn[i] EXCEPT !.pc = "flushed"]
<1>3. Advance(i, y1) /\ Uncommitted
  BY DEF Flush
<1>4. y1 = Txn(op, arg, "flushed", level, seq, head, clock, rows, org)
  BY <1>1 DEF Txn
<1> HIDE DEF y1
<1> QED
  BY <1>2, <1>3, <1>4 DEF Moves

----------------------------------------------------------------------------
(* The audit chain                                                         *)

(* The chain and the organization row that points at its end.              *)
Chain ==
    /\ audit \in Seq([seq : Nat, prev : Nat])
    /\ AuditChain

(* A copy of the organization row is a point the chain has passed.         *)
Copies ==
    \A i \in Slot : /\ txn[i].seq \in 0 .. Len(audit)
                    /\ txn[i].head = txn[i].seq

(* The update lock on the organization row excludes every other lock.      *)
Exclusive ==
    \A i, j \in Slot : txn[i].org = "update" /\ i # j => txn[j].org = "none"

(* Who is past the lock holds it; who has flushed an event has numbered it *)
(* from the end of the chain.                                              *)
Holding ==
    \A i \in Slot :
        /\ txn[i].pc \in {"safety", "locked"} => txn[i].org = "update"
        /\ txn[i].pc = "gate" => txn[i].op = "renew"
        /\ txn[i].pc = "flushed" /\ txn[i].op # "renew" =>
              /\ txn[i].org = "update"
              /\ txn[i].seq = Len(audit)

AuditInv == Shape /\ Chain /\ Copies /\ Exclusive /\ Holding

(* The initial state: no transaction and an empty chain.                   *)
LEMMA InitAudit == TInit => AuditInv
<1> SUFFICES ASSUME TInit PROVE AuditInv
  OBVIOUS
<1> USE DEF TInit
<1>1. Shape
  BY IsTxnNoTxn DEF Shape
<1>2. Chain
  BY DEF Chain, AuditChain
<1>3. Copies
  BY DEF Copies, NoTxn
<1>4. Exclusive
  BY DEF Exclusive, NoTxn
<1>5. Holding
  BY DEF Holding, NoTxn
<1> QED
  BY <1>1, <1>2, <1>3, <1>4, <1>5 DEF AuditInv

(* What leaves the chain and the transactions alone leaves it true.        *)
LEMMA AuditStutter == AuditInv /\ UNCHANGED <<orgVars, txn>> => AuditInv'
  BY DEF AuditInv, Shape, Chain, AuditChain, Copies, Exclusive, Holding, orgVars

(* A transaction that moves on keeps the invariant when its new state fits *)
(* the chain and the locks of the others.                                  *)
LEMMA AuditAdvance ==
    ASSUME AuditInv, NEW i \in Slot,
           NEW op, NEW arg, NEW pc, NEW level, NEW seq, NEW head, NEW clock, NEW rows,
           NEW org, Moves(i, op, arg, pc, level, seq, head, clock, rows, org),
           seq \in 0 .. Len(audit), head = seq,
           org = "update" => \A j \in Slot \ {i} : txn[j].org = "none",
           org # "none" => \A j \in Slot \ {i} : txn[j].org # "update",
           pc \in {"safety", "locked"} => org = "update",
           pc = "gate" => op = "renew",
           pc = "flushed" /\ op # "renew" => org = "update" /\ seq = Len(audit)
    PROVE  AuditInv'
<1>1. /\ Shape'
      /\ \A j \in Slot \ {i} : txn'[j] = txn[j]
      /\ txn'[i].op = op /\ txn'[i].pc = pc
      /\ txn'[i].seq = seq /\ txn'[i].head = head /\ txn'[i].org = org
  BY MovesFields DEF AuditInv
<1>2. UNCHANGED orgVars
  BY DEF Moves, Uncommitted
<1>3. Chain'
  BY <1>2 DEF AuditInv, Chain, AuditChain, orgVars
<1>4. Copies'
  BY <1>1, <1>2 DEF AuditInv, Copies, orgVars
<1>5. Exclusive'
  BY <1>1 DEF AuditInv, Exclusive
<1>6. Holding'
  BY <1>1, <1>2 DEF AuditInv, Holding, orgVars
<1> QED
  BY <1>1, <1>3, <1>4, <1>5, <1>6 DEF AuditInv

(* A transaction that ends without a trace keeps it.                       *)
LEMMA AuditEnd ==
    ASSUME AuditInv, UNCHANGED orgVars, NEW i \in Slot, Advance(i, NoTxn)
    PROVE  AuditInv'
<1>1. /\ Shape'
      /\ txn'[i] = NoTxn
      /\ \A j \in Slot \ {i} : txn'[j] = txn[j]
  BY EndsFields DEF AuditInv
<1>2. /\ NoTxn.seq = 0 /\ NoTxn.head = 0 /\ NoTxn.org = "none" /\ NoTxn.pc = "idle"
      /\ Len(audit) \in Nat
  BY DEF NoTxn, AuditInv, Chain
<1>3. Chain'
  BY DEF AuditInv, Chain, AuditChain, orgVars
<1>4. Copies'
  BY <1>1, <1>2 DEF AuditInv, Copies, orgVars
<1>5. Exclusive'
  BY <1>1, <1>2 DEF AuditInv, Exclusive
<1>6. Holding'
  BY <1>1, <1>2 DEF AuditInv, Holding, orgVars
<1> QED
  BY <1>1, <1>3, <1>4, <1>5, <1>6 DEF AuditInv

(* What the invariant says of one transaction.                             *)
LEMMA AuditOf ==
    ASSUME AuditInv, NEW i \in Slot
    PROVE  /\ IsTxn(txn[i])
           /\ txn[i].seq \in 0 .. Len(audit) /\ txn[i].head = txn[i].seq
           /\ txn[i].org = "update" => \A j \in Slot \ {i} : txn[j].org = "none"
           /\ txn[i].org # "none" => \A j \in Slot \ {i} : txn[j].org # "update"
           /\ txn[i].pc \in {"safety", "locked"} => txn[i].org = "update"
           /\ txn[i].pc = "gate" => txn[i].op = "renew"
           /\ txn[i].pc = "flushed" /\ txn[i].op # "renew" =>
                 txn[i].org = "update" /\ txn[i].seq = Len(audit)
           /\ Len(audit) \in Nat /\ auditSeq = Len(audit) /\ auditHead = auditSeq
  BY DEF AuditInv, Shape, Chain, AuditChain, Copies, Exclusive, Holding

(* The unique sequence lets through only an event numbered from the end of *)
(* the chain: every earlier number is taken.                               *)
LEMMA OnlyTheEnd ==
    ASSUME AuditInv, NEW i \in Slot, SequenceUnused(Sequence(txn[i]))
    PROVE  txn[i].seq = Len(audit)
<1>1. txn[i].seq \in 0 .. Len(audit) /\ Len(audit) \in Nat
  BY AuditOf
<1>2. /\ DOMAIN audit = 1 .. Len(audit)
      /\ \A k \in DOMAIN audit : audit[k].seq = k
  BY DEF AuditInv, Chain, AuditChain
<1>3. \A k \in 1 .. Len(audit) : k # txn[i].seq + 1
  BY <1>2 DEF SequenceUnused, Sequence
<1> QED
  BY <1>1, <1>3

(* A commit appends the event it flushed, or, for a renewal, none.         *)
LEMMA CommitAudit ==
    ASSUME AuditInv, NEW i \in Slot, Commit(i)
    PROVE  AuditInv'
<1>1. Advance(i, NoTxn) /\ txn[i].pc = "flushed"
  BY DEF Commit
<1>2. CASE txn[i].op = "renew"
  <2>1. UNCHANGED orgVars
    BY <1>2 DEF Commit
  <2> QED
    BY <1>1, <2>1, AuditEnd
<1>3. CASE txn[i].op # "renew"
  <2>1. /\ audit' = Append(audit, [seq |-> Sequence(txn[i]), prev |-> txn[i].head])
        /\ auditSeq' = Sequence(txn[i])
        /\ auditHead' = Len(audit) + 1
    BY <1>3 DEF Commit
  <2>2. /\ txn[i].seq = Len(audit) /\ txn[i].head = Len(audit) /\ Len(audit) \in Nat
        /\ \A j \in Slot \ {i} : txn[j].org = "none"
    BY <1>1, <1>3, AuditOf
  <2>3. audit \in Seq([seq : Nat, prev : Nat]) /\ AuditChain
    BY DEF AuditInv, Chain
  <2>4. txn' = [j \in Slot |-> IF j = i THEN NoTxn ELSE txn[j]]
    BY <1>1 DEF Advance, AuditInv, Shape
  <2>5. /\ txn'[i] = NoTxn
        /\ \A j \in Slot \ {i} : txn'[j] = txn[j]
    BY <2>4
  <2>6. /\ NoTxn.seq = 0 /\ NoTxn.head = 0 /\ NoTxn.org = "none" /\ NoTxn.pc = "idle"
        /\ IsTxn(NoTxn)
    BY IsTxnNoTxn DEF NoTxn
  <2> DEFINE e == [seq |-> Len(audit) + 1, prev |-> Len(audit)]
  <2>7. audit' = Append(audit, e) /\ e \in [seq : Nat, prev : Nat]
    BY <2>1, <2>2 DEF Sequence
  <2>8. /\ audit' \in Seq([seq : Nat, prev : Nat])
        /\ Len(audit') = Len(audit) + 1
        /\ \A k \in 1 .. Len(audit) : audit'[k] = audit[k]
        /\ audit'[Len(audit) + 1] = e
    <3> HIDE DEF e
    <3> QED
      BY <2>3, <2>7
  <2>9. Chain'
    <3>1. \A k \in DOMAIN audit' : audit'[k].seq = k /\ audit'[k].prev = k - 1
      <4>1. DOMAIN audit' = 1 .. Len(audit) + 1
        BY <2>2, <2>8
      <4>2. ASSUME NEW k \in 1 .. Len(audit)
            PROVE  audit'[k].seq = k /\ audit'[k].prev = k - 1
        <5>1. k \in DOMAIN audit
          BY <2>3
        <5>2. audit[k].seq = k /\ audit[k].prev = k - 1
          BY <2>3, <5>1 DEF AuditChain
        <5>3. audit'[k] = audit[k]
          BY <2>8
        <5> QED
          BY <5>2, <5>3
      <4>3. e.seq = Len(audit) + 1 /\ e.prev = Len(audit)
        OBVIOUS
      <4>4. audit'[Len(audit) + 1].seq = Len(audit) + 1
        BY <2>8, <4>3
      <4>5. audit'[Len(audit) + 1].prev = Len(audit)
        BY <2>8, <4>3
      <4> HIDE DEF e
      <4>6. \A k \in 1 .. Len(audit) + 1 : k \in 1 .. Len(audit) \/ k = Len(audit) + 1
        BY <2>2
      <4> QED
        BY <2>2, <4>1, <4>2, <4>4, <4>5, <4>6
    <3>2. auditSeq' = Len(audit') /\ auditHead' = Len(audit')
      BY <2>1, <2>2, <2>8 DEF Sequence
    <3> QED
      BY <2>8, <3>1, <3>2 DEF Chain, AuditChain
  <2>10. Shape'
    <3>1. txn' = [j \in Slot |-> txn'[j]]
      BY <2>4
    <3>2. \A j \in Slot : IsTxn(txn'[j])
      BY <2>5, <2>6 DEF AuditInv, Shape
    <3> QED
      BY <3>1, <3>2 DEF Shape
  <2>11. Copies'
    BY <2>2, <2>5, <2>6, <2>8 DEF AuditInv, Copies
  <2>12. Exclusive'
    BY <2>5, <2>6 DEF AuditInv, Exclusive
  <2>13. Holding'
    BY <2>2, <2>5, <2>6 DEF AuditInv, Holding
  <2> QED
    BY <2>9, <2>10, <2>11, <2>12, <2>13 DEF AuditInv
<1> QED
  BY <1>2, <1>3

(* Every step keeps it.                                                    *)
LEMMA NextAudit == AuditInv /\ [TNext]_allVars => AuditInv'
<1> SUFFICES ASSUME AuditInv, [TNext]_allVars PROVE AuditInv'
  OBVIOUS
<1>0. Shape /\ Sessions \subseteq Slot /\ Requests \subseteq Slot
  BY DEF AuditInv, Slot
<1>1. ASSUME NEW h \in Sessions,
             \/ \E in \in HumanInput : ResolveContext(h, in)
             \/ Check(h) \/ Insert(h) \/ LockDecision(h) \/ RefuseExpired(h)
             \/ LockSafety(h) \/ StopTasks(h)
      PROVE  AuditInv'
  <2>0. h \in Slot
    BY <1>0
  <2>1. ASSUME NEW in \in HumanInput, ResolveContext(h, in) PROVE AuditInv'
    BY <1>0, <2>0, <2>1, ResolveMoves, AuditAdvance, AuditOf
  <2>2. CASE Check(h)
    BY <1>0, <2>0, <2>2, CheckMoves, AuditAdvance, AuditOf
  <2>3. CASE Insert(h)
    <3>1. \A j \in Slot \ {h} : txn[j].org # "update"
      BY <2>3 DEF Insert, OrgShareable
    <3> QED
      BY <1>0, <2>0, <2>3, <3>1, InsertMoves, AuditAdvance, AuditOf
  <2>4. CASE LockDecision(h)
    <3> DEFINE rows == {txn[h].arg.task}
    <3>1. Moves(h, txn[h].op, txn[h].arg, "ready", txn[h].level, txn[h].seq, txn[h].head,
                now, rows, txn[h].org)
      BY <1>0, <2>4, DecisionMoves, Zenon
    <3> HIDE DEF rows
    <3> QED
      BY <2>0, <3>1, AuditAdvance, AuditOf
  <2>5. CASE RefuseExpired(h)
    BY <2>0, <2>5, AuditEnd DEF RefuseExpired, Uncommitted
  <2>6. CASE LockSafety(h)
    <3>1. \A j \in Slot \ {h} : txn[j].org = "none"
      BY <2>6 DEF LockSafety, OrgFree
    <3> QED
      BY <1>0, <2>0, <2>6, <3>1, SafetyMoves, AuditAdvance, AuditOf
  <2>7. CASE StopTasks(h)
    <3>1. txn[h].pc = "safety"
      BY <2>7 DEF StopTasks
    <3> QED
      BY <1>0, <2>0, <2>7, <3>1, StopMoves, AuditAdvance, AuditOf
  <2> QED
    BY <1>1, <2>1, <2>2, <2>3, <2>4, <2>5, <2>6, <2>7
<1>2. ASSUME NEW r \in Requests,
             \/ \E c \in Connectors : Admit(r, c)
             \/ \E in \in ConnectorInput : BeginConnector(r, in)
             \/ LoadOrganization(r) \/ Requeue(r)
             \/ \E t \in Tasks : Pick(r, t)
             \/ LockLeased(r) \/ RenewGate(r)
      PROVE  AuditInv'
  <2>0. r \in Slot
    BY <1>0
  <2>1. CASE \E c \in Connectors : Admit(r, c)
    BY <2>1, AuditStutter DEF Admit
  <2>2. ASSUME NEW in \in ConnectorInput, BeginConnector(r, in) PROVE AuditInv'
    BY <1>0, <2>0, <2>2, BeginMoves, AuditAdvance, AuditOf
  <2>3. CASE LoadOrganization(r)
    BY <1>0, <2>0, <2>3, LoadMoves, AuditAdvance, AuditOf
  <2>4. CASE Requeue(r)
    BY <1>0, <2>0, <2>4, RequeueMoves, AuditAdvance, AuditOf
  <2>5. ASSUME NEW t \in Tasks, Pick(r, t) PROVE AuditInv'
    <3> DEFINE rows == txn[r].rows \cup {t}
               arg == [task |-> t, back |-> txn[r].rows]
    <3>1. Moves(r, txn[r].op, arg, "ready", txn[r].level, txn[r].seq, txn[r].head,
                txn[r].clock, rows, txn[r].org)
      BY <1>0, <2>5, PickMoves, Zenon
    <3> HIDE DEF rows, arg
    <3> QED
      BY <2>0, <3>1, AuditAdvance, AuditOf
  <2>6. CASE LockLeased(r)
    <3> DEFINE rows == {txn[r].arg.task}
               pc == IF txn[r].op = "renew" THEN "gate" ELSE "ready"
    <3>1. Moves(r, txn[r].op, txn[r].arg, pc, txn[r].level, txn[r].seq, txn[r].head,
                now, rows, txn[r].org)
      BY <1>0, <2>6, LeasedMoves, Zenon
    <3>2. pc \in {"gate", "ready"} /\ (pc = "gate" => txn[r].op = "renew")
      OBVIOUS
    <3> HIDE DEF rows, pc
    <3> QED
      BY <2>0, <3>1, <3>2, AuditAdvance, AuditOf
  <2>7. CASE RenewGate(r)
    <3>1. txn[r].pc = "gate"
      BY <2>7 DEF RenewGate
    <3> QED
      BY <1>0, <2>0, <2>7, <3>1, GateMoves, AuditAdvance, AuditOf
  <2> QED
    BY <1>2, <2>1, <2>2, <2>3, <2>4, <2>5, <2>6, <2>7
<1>3. ASSUME NEW i \in Slot,
             LockOrganization(i) \/ Flush(i) \/ Rollback(i) \/ Commit(i)
      PROVE  AuditInv'
  <2>1. CASE LockOrganization(i)
    <3>1. \A j \in Slot \ {i} : txn[j].org = "none"
      BY <2>1 DEF LockOrganization, OrgFree
    <3>2. CASE txn[i].op = "complete"
      BY <1>0, <2>1, <3>1, <3>2, LockFreshMoves, AuditAdvance, AuditOf
    <3>3. CASE txn[i].op # "complete"
      BY <1>0, <2>1, <3>1, <3>3, LockKeptMoves, AuditAdvance, AuditOf
    <3> QED
      BY <3>2, <3>3
  <2>2. CASE Flush(i)
    <3>1. txn[i].pc = "locked" /\ txn[i].seq = Len(audit)
      BY <2>2, OnlyTheEnd DEF Flush
    <3> QED
      BY <1>0, <2>2, <3>1, FlushMoves, AuditAdvance, AuditOf
  <2>3. CASE Rollback(i)
    BY <2>3, AuditEnd DEF Rollback
  <2> QED
    BY <1>3, <2>1, <2>2, <2>3, CommitAudit
<1>4. CASE Pass
  BY <1>4, AuditStutter DEF Pass
<1>5. CASE UNCHANGED allVars
  BY <1>5, AuditStutter DEF allVars
<1> QED
  BY <1>1, <1>2, <1>3, <1>4, <1>5 DEF TNext

(* append_audit and verify_audit: however many requests append at once and *)
(* wherever they fail, every committed event follows the one before it and *)
(* the organization row points at the last.                                *)
THEOREM AuditChainHolds == TSpec => []AuditChain
<1>1. AuditInv => AuditChain
  BY DEF AuditInv, Chain
<1> QED
  BY InitAudit, NextAudit, <1>1, PTL DEF TSpec

============================================================================
