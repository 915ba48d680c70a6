--------------------------- MODULE PurpleExercise ---------------------------
(***************************************************************************)
(* The purple-team exercise store (purple-team/src/aegis_purple): one      *)
(* SQLite file that several command-line processes open.  An exercise is   *)
(* frozen from a plan and moved on by signed commands; while it executes,  *)
(* evidence and the results of its test cases are added to it.             *)
(*                                                                         *)
(* Every operation is one BEGIN IMMEDIATE transaction, hence one action,   *)
(* but for apply_authorized_transition: it looks the nonce up outside any  *)
(* transaction, applies the command in one, and spends the nonce in a      *)
(* second one, and the process may die in between.                         *)
(*                                                                         *)
(* The plan never changes, so its row is not state.  A command stands for  *)
(* its signed envelope and is named by its nonce, which the signer draws   *)
(* afresh for each.  An envelope that is badly signed, not bound to the    *)
(* plan or out of its window is refused before the store is touched: one   *)
(* Abort.  Hashes are taken to be injective.                               *)
(***************************************************************************)
EXTENDS Naturals, Sequences

CONSTANTS Exercises, Tests, Actors,
          Stages,      \* the stages a result may be recorded for
          EvidenceIds,
          Commands,    \* the signed commands in circulation
          Procs,       \* processes that apply them
          None

CONSTANTS Owner(_),    \* plan.owner
          Cases(_)     \* plan.test_cases

States == {"FROZEN", "AUTHORIZED", "EXECUTING", "EXECUTED", "EVIDENCE_VERIFIED",
           "RETESTED", "CLOSED", "STOPPED"}
Roles == {"white", "purple", "exercise_assurance"}

ASSUME PurpleAssumption ==
    /\ \A e \in Exercises : Owner(e) \in Actors /\ Cases(e) \subseteq Tests
    /\ Commands \subseteq [exercise : Exercises, from : States, to : States,
                           actor : Actors, role : Roles, nonce : Nat]
    /\ \A c, d \in Commands : c.nonce = d.nonce => c = d
    /\ None \notin States /\ None \notin Commands
    /\ None \notin [exercise : Exercises, test : Tests]

VARIABLES state,      \* exercises.state, None without a row
          evidence,   \* evidence: the exercise and test case of each record
          results,    \* results: one per exercise, test case and stage
          consumed,   \* consumed_nonces
          log,        \* transitions, in their sequence
          head,       \* meta.audit_head and audit_count: the chain they commit to
          root,       \* meta.state_root: the rows it commits to
          expired,    \* exercises whose plan is past its expires_at
          proc,       \* the processes applying a command
          applied     \* history: how often each command was applied

vars == <<state, evidence, results, consumed, log, head, root, expired, proc, applied>>

(* Slip: execution may be resumed.                                         *)
AllowedTransitionsResume ==
    [s \in States |->
        CASE s = "FROZEN"            -> {"AUTHORIZED", "STOPPED"}
          [] s = "AUTHORIZED"        -> {"EXECUTING", "STOPPED"}
          [] s = "EXECUTING"         -> {"EXECUTED", "STOPPED"}
          [] s = "EXECUTED"          -> {"EVIDENCE_VERIFIED", "EXECUTING", "STOPPED"}
          [] s = "EVIDENCE_VERIFIED" -> {"RETESTED", "STOPPED"}
          [] s = "RETESTED"          -> {"CLOSED", "STOPPED"}
          [] OTHER                   -> {}]

AllowedTransitions ==
    [s \in States |->
        CASE s = "FROZEN"            -> {"AUTHORIZED", "STOPPED"}
          [] s = "AUTHORIZED"        -> {"EXECUTING", "STOPPED"}
          [] s = "EXECUTING"         -> {"EXECUTED", "STOPPED"}
          [] s = "EXECUTED"          -> {"EVIDENCE_VERIFIED", "STOPPED"}
          [] s = "EVIDENCE_VERIFIED" -> {"RETESTED", "STOPPED"}
          [] s = "RETESTED"          -> {"CLOSED", "STOPPED"}
          [] OTHER                   -> {}]

RoleFor ==
    [s \in States \ {"FROZEN"} |->
        CASE s \in {"AUTHORIZED", "CLOSED", "STOPPED"}   -> "white"
          [] s \in {"EXECUTING", "EXECUTED", "RETESTED"} -> "purple"
          [] s = "EVIDENCE_VERIFIED"                     -> "exercise_assurance"]

Idle == [pc |-> "idle", cmd |-> None]
Entry(e, from, to, actor) == [exercise |-> e, from |-> from, to |-> to, actor |-> actor]

(* What the canonical state root is a digest of.                           *)
Root(st, ev, rs, cs) == <<st, ev, rs, cs>>

Init ==
    /\ state = [e \in Exercises |-> None]
    /\ evidence = [i \in EvidenceIds |-> None]
    /\ results = {}
    /\ consumed = {}
    /\ log = <<>> /\ head = <<>>
    /\ root = Root(state, evidence, results, consumed)
    /\ expired = {}
    /\ proc = [p \in Procs |-> Idle]
    /\ applied = [c \in Commands |-> 0]

----------------------------------------------------------------------------
(* create_exercise, add_evidence, record_result                            *)

AppendTransition(entry) ==
    /\ log' = Append(log, entry)
    /\ head' = log'

Create(e, a) ==
    /\ state[e] = None
    /\ state' = [state EXCEPT ![e] = "FROZEN"]
    /\ AppendTransition(Entry(e, None, "FROZEN", a))
    /\ root' = Root(state', evidence, results, consumed)
    /\ UNCHANGED <<evidence, results, consumed, expired, proc, applied>>

AcceptsEvidence(e) == state[e] \in {"EXECUTING", "EXECUTED"}

AddEvidence(e, i, t) ==
    /\ AcceptsEvidence(e)
    /\ t \in Cases(e)
    /\ evidence[i] = None
    /\ evidence' = [evidence EXCEPT ![i] = [exercise |-> e, test |-> t]]
    /\ root' = Root(state, evidence', results, consumed)
    /\ UNCHANGED <<state, results, consumed, log, head, expired, proc, applied>>

EvidenceFor(e, t, i) == evidence[i] = [exercise |-> e, test |-> t]

RecordResult(e, t, s, i) ==
    /\ AcceptsEvidence(e)
    /\ EvidenceFor(e, t, i)
    /\ ~\E r \in results : r.exercise = e /\ r.test = t /\ r.stage = s
    /\ results' = results \cup {[exercise |-> e, test |-> t, stage |-> s, evidence |-> i]}
    /\ root' = Root(state, evidence, results', consumed)
    /\ UNCHANGED <<state, evidence, consumed, log, head, expired, proc, applied>>

----------------------------------------------------------------------------
(* transition and apply_authorized_transition                              *)

Observed(e, t) == {r.stage : r \in {q \in results : q.exercise = e /\ q.test = t}}

(* Slip: a test case with any result is complete.                          *)
CompleteEvidenceSome(e) == \A t \in Cases(e) : Observed(e, t) # {}

CompleteEvidence(e) == \A t \in Cases(e) : Observed(e, t) = Stages

(* Slip: only who finished the execution counts as its operator.           *)
OperatorsLast(e) ==
    {log[k].actor : k \in {j \in DOMAIN log : log[j].exercise = e /\ log[j].to = "EXECUTED"}}

Operators(e) ==
    {log[k].actor : k \in {j \in DOMAIN log : /\ log[j].exercise = e
                                              /\ log[j].to \in {"EXECUTING", "EXECUTED"}}}

MayMove(c) ==
    LET e == c.exercise
    IN  /\ c.to \in AllowedTransitions[c.from]
        /\ c.role = RoleFor[c.to]
        /\ c.to \in {"AUTHORIZED", "EVIDENCE_VERIFIED", "CLOSED"} => c.actor # Owner(e)
        /\ c.to \in {"AUTHORIZED", "EXECUTING"} => e \notin expired
        /\ c.to = "EVIDENCE_VERIFIED" => c.actor \notin Operators(e) /\ CompleteEvidence(e)

Lookup(p, c) ==
    /\ proc[p].pc = "idle"
    /\ state[c.exercise] # None
    /\ c \notin consumed
    /\ proc' = [proc EXCEPT ![p] = [pc |-> "checked", cmd |-> c]]
    /\ UNCHANGED <<state, evidence, results, consumed, log, head, root, expired, applied>>

(* Slip: the state the command expects is not compared.                    *)
AsExpectedBlind(c) == state[c.exercise] # None

(* The state the command expects, compared inside the transaction.         *)
AsExpected(c) == state[c.exercise] = c.from

Transition(p) ==
    LET c == proc[p].cmd
    IN  /\ proc[p].pc = "checked"
        /\ AsExpected(c)
        /\ MayMove(c)
        /\ state' = [state EXCEPT ![c.exercise] = c.to]
        /\ AppendTransition(Entry(c.exercise, c.from, c.to, c.actor))
        /\ root' = Root(state', evidence, results, consumed)
        /\ applied' = [applied EXCEPT ![c] = @ + 1]
        /\ proc' = [proc EXCEPT ![p].pc = "applied"]
        /\ UNCHANGED <<evidence, results, consumed, expired>>

Consume(p) ==
    /\ proc[p].pc = "applied"
    /\ proc[p].cmd \notin consumed
    /\ consumed' = consumed \cup {proc[p].cmd}
    /\ root' = Root(state, evidence, results, consumed')
    /\ proc' = [proc EXCEPT ![p] = Idle]
    /\ UNCHANGED <<state, evidence, results, log, head, expired, applied>>

(* A refusal, a database that stays locked, or the death of the process.   *)
Abort(p) ==
    /\ proc[p].pc # "idle"
    /\ proc' = [proc EXCEPT ![p] = Idle]
    /\ UNCHANGED <<state, evidence, results, consumed, log, head, root, expired, applied>>

Expire(e) ==
    /\ e \notin expired
    /\ expired' = expired \cup {e}
    /\ UNCHANGED <<state, evidence, results, consumed, log, head, root, proc, applied>>

Next ==
    \/ \E e \in Exercises :
          \/ \E a \in Actors : Create(e, a)
          \/ \E t \in Tests, i \in EvidenceIds :
                \/ AddEvidence(e, i, t)
                \/ \E s \in Stages : RecordResult(e, t, s, i)
          \/ Expire(e)
    \/ \E p \in Procs :
          \/ \E c \in Commands : Lookup(p, c)
          \/ Transition(p) \/ Consume(p) \/ Abort(p)

Spec == Init /\ [][Next]_vars

----------------------------------------------------------------------------
(* Properties                                                              *)

Transitions == [exercise : Exercises, from : States \cup {None}, to : States, actor : Actors]

(* A process at work has a command.                                        *)
Process == {Idle} \cup [pc : {"checked", "applied"}, cmd : Commands]

(* Every variable keeps its type.                                          *)
TypeOK ==
    /\ state \in [Exercises -> States \cup {None}]
    /\ evidence \in [EvidenceIds -> [exercise : Exercises, test : Tests] \cup {None}]
    /\ results \in SUBSET [exercise : Exercises, test : Tests, stage : Stages,
                           evidence : EvidenceIds]
    /\ consumed \in SUBSET Commands
    /\ log \in Seq(Transitions)
    /\ expired \in SUBSET Exercises
    /\ proc \in [Procs -> Process]
    /\ applied \in [Commands -> Nat]

(* The store's own check (verify) passes after every transaction: the head *)
(* is that of the chain and the state root is that of the rows.            *)
StoreVerifies == head = log /\ root = Root(state, evidence, results, consumed)

(* A command moves its exercise at most once, though its nonce is looked   *)
(* up before and spent after, and is not spent at all when the process     *)
(* dies in between (apply_authorized_transition).                          *)
CommandAppliedOnce == \A c \in Commands : applied[c] <= 1

(* Spending the nonce of a command that was applied never fails: a command *)
(* that is reported as refused has not moved the exercise.                 *)
AppliedIsUnspent == \A p \in Procs : proc[p].pc = "applied" => proc[p].cmd \notin consumed

(* The transitions of an exercise are a path to the state it is in, each   *)
(* step of which the lifecycle allows.                                     *)
HistoryIsPath ==
    /\ \A e \in Exercises : state[e] = None <=> \A k \in DOMAIN log : log[k].exercise # e
    /\ \A k \in DOMAIN log :
          LET mine == {j \in DOMAIN log : log[j].exercise = log[k].exercise}
              earlier == {j \in mine : j < k}
          IN  /\ earlier = {} => log[k].from = None /\ log[k].to = "FROZEN"
              /\ \A j \in earlier : (\A i \in earlier : i <= j) =>
                     log[k].from = log[j].to /\ log[k].to \in AllowedTransitions[log[k].from]
              /\ (\A i \in mine : i <= k) => state[log[k].exercise] = log[k].to

Verified == {"EVIDENCE_VERIFIED", "RETESTED", "CLOSED"}

(* An exercise whose evidence was verified has a result for every stage of *)
(* every test case of its plan, each with evidence of that very test.      *)
VerifiedIsComplete ==
    \A e \in Exercises : state[e] \in Verified =>
        \A t \in Cases(e), s \in Stages :
            \E r \in results :
                /\ r.exercise = e /\ r.test = t /\ r.stage = s
                /\ evidence[r.evidence] = [exercise |-> e, test |-> t]

(* What was verified stays as it was verified.                             *)
EvidenceFrozen ==
    [][\A e \in Exercises : state[e] \in Verified =>
          /\ {r \in results' : r.exercise = e} = {r \in results : r.exercise = e}
          /\ \A i \in EvidenceIds : evidence'[i] # evidence[i] => evidence'[i].exercise # e]_vars

(* Who verified the evidence neither owned the exercise nor took part in   *)
(* executing it, in whatever order those steps were signed.                *)
VerifiedIndependently ==
    \A j, k \in DOMAIN log :
        /\ log[j].to = "EVIDENCE_VERIFIED" /\ log[k].exercise = log[j].exercise
        => /\ log[j].actor # Owner(log[j].exercise)
           /\ log[k].to \in {"EXECUTING", "EXECUTED"} => log[k].actor # log[j].actor

============================================================================
