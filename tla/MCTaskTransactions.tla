------------------------- MODULE MCTaskTransactions -------------------------
(* Instances of TaskTransactions for TLC: a handful of transactions over   *)
(* one task row and one organization row.  The crowds explored are two     *)
(* humans with one connector request, two connector requests with one      *)
(* human, and two humans who are late; never all four at once.             *)
EXTENDS TaskTransactions, TLC

CONSTANTS t1, u1, c1, observe, gate, h1, h2, r1, r2

MCRisk == [a \in Actions |-> IF a = gate THEN "high" ELSE "low"]

(* A lease has been issued.                                                *)
Issued == \E t \in Tasks : lease[t].issued > 0

(* Two humans create, decide and halt while one lease is used.             *)
Halting ==
    /\ now <= 2
    /\ Cardinality({r \in Requests : request[r] # Idle}) <= 1
    /\ \A t \in Tasks : lease[t].issued <= 1
    /\ \A r \in Requests : txn[r].op \in {"renew", "complete"} => txn[r].arg.n = 1
    /\ revoked = {}
    /\ \A h \in Sessions : /\ txn[h].op # "revoke"
                           /\ txn[h].op = "safety" => txn[h].arg.level = "halted"
                           /\ txn[h].seq = 3 => txn[h].op = "safety" /\ Issued

(* A task changes hands between two requests while one human interferes.   *)
HandingOver ==
    /\ Cardinality({h \in Sessions : txn[h] # NoTxn}) <= 1
    /\ \A t \in Tasks : work[t].action \in {None, observe}
    /\ \A h \in Sessions : /\ txn[h].op # "decide"
                           /\ txn[h].op = "create" => txn[h].arg.action = observe
                           /\ txn[h].op \in {"safety", "revoke"} => Issued

(* Two humans decide, one of them once the approval has run out.           *)
Overdue ==
    /\ ~Issued
    /\ \A r \in Requests : request[r] = Idle
    /\ \A h \in Sessions : txn[h].op \in {"none", "connect", "create", "decide"}

Within == Halting \/ HandingOver \/ Overdue

Symmetry == Permutations(Sessions) \cup Permutations(Requests)
=============================================================================
