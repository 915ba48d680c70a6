-------------------------- MODULE MCPurpleExercise --------------------------
(* An instance of PurpleExercise for TLC: one exercise, two processes.     *)
EXTENDS PurpleExercise, TLC

CONSTANTS x1, t1, ann, bob, eve, wim, i1, i2, p1, p2

MCOwner(e) == ann
MCCases(e) == {t1}

Command(n, from, to, actor, role) ==
    [exercise |-> x1, from |-> from, to |-> to, actor |-> actor, role |-> role, nonce |-> n]

(* The whole lifecycle; verification is signed by an operator, by the      *)
(* owner and by an outsider; two commands are never allowed.               *)
Lifecycle ==
    {Command(1, "FROZEN", "AUTHORIZED", wim, "white"),
     Command(2, "AUTHORIZED", "EXECUTING", bob, "purple"),
     Command(3, "EXECUTING", "EXECUTED", ann, "purple"),
     Command(4, "EXECUTING", "EXECUTED", eve, "purple"),
     Command(5, "EXECUTED", "EXECUTING", ann, "purple"),
     Command(6, "EXECUTED", "EVIDENCE_VERIFIED", bob, "exercise_assurance"),
     Command(7, "EXECUTED", "EVIDENCE_VERIFIED", ann, "exercise_assurance"),
     Command(8, "EXECUTED", "EVIDENCE_VERIFIED", wim, "exercise_assurance"),
     Command(9, "EVIDENCE_VERIFIED", "RETESTED", bob, "purple"),
     Command(10, "RETESTED", "CLOSED", wim, "white"),
     Command(11, "AUTHORIZED", "STOPPED", wim, "white"),
     Command(12, "FROZEN", "AUTHORIZED", ann, "white")}

(* Owners freeze their own plans; who creates an exercise matters to no    *)
(* property.                                                               *)
OwnPlans == \A k \in DOMAIN log : log[k].from = None => log[k].actor = Owner(log[k].exercise)

Symmetry == Permutations(EvidenceIds) \cup Permutations(Procs)
============================================================================
