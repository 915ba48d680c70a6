------------------------------- MODULE ClaimGate -------------------------------
(***************************************************************************)
(* The local CI runner and the claim gate it runs: claims are read, the    *)
(* tests they cite are run package by package and the verdict is what came *)
(* of both.  The application's tests run in a copy of the tree, those of   *)
(* the tools in the tree itself, and one of the tools' tests starts the    *)
(* claim gate again: processes that wait for each other form a stack.      *)
(* Somebody may edit the tree meanwhile.                                   *)
(***************************************************************************)
EXTENDS Integers, Sequences, FiniteSets, SequencesExt

CONSTANTS Kind,        \* of each evidence item: "node", "code", "doc" or "prose"
          Negative,    \* items whose text says that something is rejected
          Home,        \* per test: the package "app" or "tools"
          Spawner,     \* the test that runs the claim gate
          Registers,   \* contents assurance_claims.json can have
          Gates,       \* gate_definitions of assessment_readiness.json
          MaxEdits,    \* bound
          None

Tests == DOMAIN Home

GateAssumption == Tests \subseteq DOMAIN Kind /\ Spawner \in Tests /\ Home[Spawner] = "tools"

Outcomes == {"passes", "fails", "skips", "absent"}
Readiness == [verified : SUBSET Gates, required : SUBSET Gates]

VARIABLES register, readiness, tree,   \* the files
          edits,
          ci,       \* the runner: the environment's guard, gates left and failed
          stack,    \* the processes below it, the one that runs last
          verdict   \* history: what the claims gate of this run judged

vars == <<register, readiness, tree, edits, ci, stack, verdict>>
files == <<register, readiness, tree, edits>>

Init ==
    /\ register \in Registers /\ readiness \in Readiness
    /\ tree = [t \in Tests |-> "passes"] /\ edits = 0
    /\ ci \in [guard : BOOLEAN, left : {<<"drift", "app", "claims">>}, failed : {{}}]
    /\ stack = <<>> /\ verdict = None

Edit ==
    /\ edits < MaxEdits /\ edits' = edits + 1
    /\ \/ register' \in Registers \ {register} /\ UNCHANGED <<readiness, tree>>
       \/ readiness' \in Readiness \ {readiness} /\ UNCHANGED <<register, tree>>
       \/ \E t \in Tests, o \in Outcomes : tree' = [tree EXCEPT ![t] = o] /\ UNCHANGED <<register, readiness>>
    /\ UNCHANGED <<ci, stack, verdict>>
---------------------------------------------------------------------------
Advanced == {"EVIDENCED", "INDEPENDENTLY_REVIEWED", "OPERATIONAL"}

(* check_gates: a gate that is not VERIFIED fails, and so does one that    *)
(* required_gates leaves out.                                              *)
FailedGates(r) == (Gates \ r.verified) \cup (Gates \ r.required)

(* check_claims: R2, R4, R3, R5, R7, R6 and the reviewer.                  *)
Rejected(c, failed) ==
    \/ c.mechanism = None
    \/ c.evidence # {} /\ \A e \in c.evidence : Kind[e] = "doc"
    \/ c.status \in Advanced /\ (c.evidence \cap Negative = {} \/ c.gap \/ c.digest # c.mechanism)
    \/ c.status = "OPERATIONAL" /\ failed # {}
    \/ c.status \in Advanced \ {"EVIDENCED"} /\ ~c.reviewer

(* Slip: a node id that exists is enough.                                  *)
UnresolvedSkipped(c, found, skipped) ==
    c.status \in Advanced /\ \E e \in c.evidence : Kind[e] = "code" \/ (Kind[e] = "node" /\ e \notin found)

(* check_evidence: an advanced claim cites code without a test, or a test  *)
(* that was not collected or was skipped.  Prose resolves to nothing.      *)
Unresolved(c, found, skipped) ==
    /\ c.status \in Advanced
    /\ \E e \in c.evidence : Kind[e] = "code" \/ (Kind[e] = "node" /\ (e \notin found \/ e \in skipped))

Claim(guard) == [kind |-> "claim", guard |-> guard, pc |-> "load", register |-> {}, failed |-> {},
                 copy |-> tree, left |-> {"app", "tools"}, found |-> {}, skipped |-> {},
                 broken |-> FALSE, proof |-> {}]
Suite(guard) == [kind |-> "suite", guard |-> guard, pc |-> "run"]

Top == Last(stack)
Runs(kind, pc) == stack # <<>> /\ Top.kind = kind /\ Top.pc = pc
Become(process) == stack' = [stack EXCEPT ![Len(stack)] = process]

(* What a package's pytest reports, given how its tests would end.         *)
Report(process, outcome) ==
    LET of(o) == {t \in DOMAIN outcome : outcome[t] = o}
    IN IF of("fails") # {} THEN [process EXCEPT !.broken = TRUE]
       ELSE [process EXCEPT !.found = @ \cup of("passes") \cup of("skips"),
                            !.skipped = @ \cup of("skips"), !.proof = @ \cup of("passes")]

In(package, source) == [t \in {u \in Tests : Home[u] = package} |-> source[t]]
---------------------------------------------------------------------------
(* main of the runner: the next gate is a process with its environment.    *)
StartGate ==
    /\ stack = <<>> /\ ci.left # <<>> /\ Head(ci.left) # "app"
    /\ stack' = <<IF Head(ci.left) = "claims" THEN Claim(ci.guard) ELSE Suite(ci.guard)>>
    /\ UNCHANGED <<files, ci, verdict>>

(* run_gate: the exit code, or the timeout, of a gate.                     *)
EndGate(ok) ==
    ci' = [ci EXCEPT !.left = Tail(@), !.failed = IF ok THEN @ ELSE @ \cup {Head(ci.left)}]

(* A gate that only runs the application's tests.                          *)
AppGate ==
    /\ stack = <<>> /\ ci.left # <<>> /\ Head(ci.left) = "app"
    /\ \E timely \in BOOLEAN : EndGate(timely /\ \A t \in Tests : Home[t] = "app" => tree[t] # "fails")
    /\ UNCHANGED <<files, stack, verdict>>

(* main of claim_check: both documents are read before any test runs.      *)
Load ==
    /\ Runs("claim", "load")
    /\ Become([Top EXCEPT !.pc = "copy", !.register = register, !.failed = FailedGates(readiness)])
    /\ UNCHANGED <<files, ci, verdict>>

(* collect_node_ids: the tracked files are copied, or nothing is run.      *)
Copy ==
    /\ Runs("claim", "copy")
    /\ \/ Become([Top EXCEPT !.pc = "walk", !.copy = tree])
       \/ Become([Top EXCEPT !.pc = "walk", !.left = {}, !.broken = TRUE])
    /\ UNCHANGED <<files, ci, verdict>>

(* _walk_packages: the application's tests, from the copy, come last.      *)
WalkApp ==
    /\ Runs("claim", "walk") /\ Top.left = {"app"}
    /\ \E timely \in BOOLEAN :
          LET walked == [Top EXCEPT !.left = {}]
          IN Become(IF timely THEN Report(walked, In("app", walked.copy))
                    ELSE [walked EXCEPT !.broken = TRUE])
    /\ UNCHANGED <<files, ci, verdict>>

(* Slip: the environment of the tests is the gate's own.                   *)
ChildGuardInherited(guard) == guard

(* CLAIM_CHECK_RECURSION_GUARD is set for every process that runs tests.   *)
ChildGuard(guard) == TRUE

(* The tools' tests are listed first; inside another collection they are   *)
(* passed over, and the collection is incomplete.                          *)
WalkTools ==
    /\ Runs("claim", "walk") /\ "tools" \in Top.left
    /\ IF Top.guard THEN Become([Top EXCEPT !.left = @ \ {"tools"}, !.broken = TRUE])
       ELSE stack' = Append(stack, Suite(ChildGuard(Top.guard)))
    /\ UNCHANGED <<files, ci, verdict>>

(* The test that runs the gate does so unless it finds the guard.          *)
Spawn ==
    /\ Runs("suite", "run") /\ ~Top.guard /\ tree[Spawner] = "passes"
    /\ stack' = Append([stack EXCEPT ![Len(stack)].pc = "end"], Claim(Top.guard))
    /\ UNCHANGED <<files, ci, verdict>>

(* The tools' tests end, in time or not: a gate of the runner, or the      *)
(* first package of a collection.                                          *)
EndSuite ==
    /\ stack # <<>> /\ Top.kind = "suite"
    /\ Top.pc = "end" \/ Top.guard \/ tree[Spawner] # "passes"
    /\ \E timely \in BOOLEAN :
          LET outcome == [t \in DOMAIN In("tools", tree) |->
                            IF t = Spawner /\ Top.guard /\ tree[t] = "passes" THEN "skips" ELSE tree[t]]
              above == Front(stack)
          IN IF above = <<>>
             THEN stack' = <<>> /\ EndGate(timely /\ \A t \in DOMAIN outcome : outcome[t] # "fails")
             ELSE LET walked == [Last(above) EXCEPT !.left = @ \ {"tools"}]
                  IN /\ stack' = [above EXCEPT ![Len(above)] =
                                    IF timely THEN Report(walked, outcome) ELSE [walked EXCEPT !.broken = TRUE]]
                     /\ UNCHANGED ci
    /\ UNCHANGED <<files, verdict>>

Accepts(p) ==
    ~p.broken /\ \A c \in p.register : ~Rejected(c, p.failed) /\ ~Unresolved(c, p.found, p.skipped)

(* The verdict: with --allow-not-ready a pending gate does not fail it.    *)
(* The test that started the gate does not look at what it answers.        *)
Judge ==
    /\ Runs("claim", "walk") /\ Top.left = {}
    /\ stack' = Front(stack)
    /\ IF Len(stack) = 1 THEN EndGate(Accepts(Top)) /\ verdict' = Top ELSE UNCHANGED <<ci, verdict>>
    /\ UNCHANGED files

Next == Edit \/ StartGate \/ AppGate \/ Load \/ Copy \/ WalkApp \/ WalkTools \/ Spawn \/ EndSuite \/ Judge

Spec == Init /\ [][Next]_vars
---------------------------------------------------------------------------
(* A green run is earned: every test an advanced claim cites was run, not  *)
(* skipped, in a package that passed as a whole, and the claim's mechanism *)
(* is the one on record (run_gate, main, check_claims, check_evidence).    *)
Green == ci.left = <<>> /\ ci.failed = {}

GreenIsEarned ==
    Green => \A c \in verdict.register : c.status \in Advanced =>
        /\ {e \in c.evidence : Kind[e] = "node"} \subseteq verdict.proof
        /\ c.digest = c.mechanism

(* The claim gate never runs inside another one's collection of evidence,  *)
(* though one of the tests it runs starts it (_walk_packages and the guard *)
(* of test_full_gate_run_leaves_the_tree_unmodified).                      *)
NeverInsideItself == Cardinality({i \in DOMAIN stack : stack[i].kind = "claim"}) <= 1
=============================================================================
