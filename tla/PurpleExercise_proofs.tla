----------------------- MODULE PurpleExercise_proofs -----------------------
(***************************************************************************)
(* What the exercise store promises for every set of exercises, plans and  *)
(* signed commands and every number of processes.                          *)
(*                                                                         *)
(* The lifecycle has no way back: Rank grows with every transition.  That, *)
(* and not the nonce table, is what keeps a command from being applied     *)
(* twice when a process dies between applying and recording it.            *)
(***************************************************************************)
EXTENDS PurpleExercise, TLAPS

----------------------------------------------------------------------------
(* Type correctness                                                        *)

LEMMA InitTypeOK == Init => TypeOK
  BY PurpleAssumption DEF Init, TypeOK, Process

LEMMA LogGrows ==
    ASSUME log \in Seq(Transitions), NEW entry \in Transitions, AppendTransition(entry)
    PROVE  /\ log' \in Seq(Transitions)
           /\ Len(log') = Len(log) + 1 /\ log'[Len(log) + 1] = entry
           /\ \A k \in DOMAIN log : k \in DOMAIN log' /\ log'[k] = log[k]
           /\ \A k \in DOMAIN log' : k \in DOMAIN log \/ k = Len(log) + 1
  BY DEF AppendTransition

(* Every operation, command step and crash keeps the types.                *)
LEMMA NextTypeOK == TypeOK /\ [Next]_vars => TypeOK'
<1> USE PurpleAssumption DEF TypeOK
<1> SUFFICES ASSUME TypeOK, [Next]_vars PROVE TypeOK'
  OBVIOUS
<1>1. ASSUME NEW e \in Exercises, NEW a \in Actors, Create(e, a) PROVE TypeOK'
  <2>1. Entry(e, None, "FROZEN", a) \in Transitions
    BY DEF Entry, Transitions, States
  <2>2. log' \in Seq(Transitions)
    BY <1>1, <2>1, LogGrows DEF Create
  <2> QED
    BY <1>1, <2>2 DEF Create, States
<1>2. ASSUME NEW e \in Exercises, NEW t \in Tests, NEW i \in EvidenceIds, AddEvidence(e, i, t)
      PROVE  TypeOK'
  BY <1>2 DEF AddEvidence
<1>3. ASSUME NEW e \in Exercises, NEW t \in Tests, NEW i \in EvidenceIds, NEW s \in Stages,
             RecordResult(e, t, s, i)
      PROVE  TypeOK'
  BY <1>3 DEF RecordResult
<1>4. ASSUME NEW e \in Exercises, Expire(e) PROVE TypeOK'
  BY <1>4 DEF Expire
<1>5. ASSUME NEW p \in Procs, NEW c \in Commands, Lookup(p, c) PROVE TypeOK'
  BY <1>5 DEF Lookup, Process
<1>6. ASSUME NEW p \in Procs, Transition(p) PROVE TypeOK'
  <2> DEFINE c == proc[p].cmd
  <2>1. c \in Commands /\ proc[p] = [pc |-> "checked", cmd |-> c]
    BY <1>6 DEF Transition, Process, Idle
  <2>2. c.exercise \in Exercises /\ c.from \in States /\ c.to \in States /\ c.actor \in Actors
    BY <2>1
  <2>3. Entry(c.exercise, c.from, c.to, c.actor) \in Transitions
    BY <2>2 DEF Entry, Transitions
  <2>4. log' \in Seq(Transitions)
    BY <1>6, <2>3, LogGrows DEF Transition
  <2>5. [proc[p] EXCEPT !.pc = "applied"] \in Process
    BY <2>1 DEF Process
  <2>6. proc' \in [Procs -> Process]
    BY <1>6, <2>5 DEF Transition
  <2> QED
    BY <1>6, <2>1, <2>2, <2>4, <2>6 DEF Transition
<1>7. ASSUME NEW p \in Procs, Consume(p) PROVE TypeOK'
  BY <1>7 DEF Consume, Process, Idle
<1>8. ASSUME NEW p \in Procs, Abort(p) PROVE TypeOK'
  BY <1>8 DEF Abort, Process
<1>9. CASE UNCHANGED vars
  BY <1>9 DEF vars
<1> QED
  BY <1>1, <1>2, <1>3, <1>4, <1>5, <1>6, <1>7, <1>8, <1>9 DEF Next

(* Every variable of the store keeps its type.                             *)
THEOREM TypeCorrect == Spec => []TypeOK
  BY InitTypeOK, NextTypeOK, PTL DEF Spec

----------------------------------------------------------------------------
(* The store's self-check                                                  *)

(* Whatever is written, the chain head and the state root are renewed with *)
(* it: the store's verification never fails on its own writes.             *)
THEOREM SelfCheck == Spec => []StoreVerifies
<1>1. Init => StoreVerifies
  BY DEF Init, StoreVerifies
<1>2. StoreVerifies /\ [Next]_vars => StoreVerifies'
  BY DEF StoreVerifies, Next, vars, Create, AddEvidence, RecordResult, Expire, Lookup,
         Transition, Consume, Abort, AppendTransition, Root
<1> QED
  BY <1>1, <1>2, PTL DEF Spec

----------------------------------------------------------------------------
(* Commands are applied once                                               *)

(* How far an exercise has come.                                           *)
Rank(s) ==
    CASE s = "FROZEN"            -> 1
      [] s = "AUTHORIZED"        -> 2
      [] s = "EXECUTING"         -> 3
      [] s = "EXECUTED"          -> 4
      [] s = "EVIDENCE_VERIFIED" -> 5
      [] s = "RETESTED"          -> 6
      [] s = "CLOSED"            -> 7
      [] s = "STOPPED"           -> 8
      [] OTHER                   -> 0

LEMMA RankType == \A s \in States : Rank(s) \in Nat \ {0}
  BY DEF Rank, States

(* Every transition the lifecycle allows goes forward.                     *)
LEMMA RankGrows ==
    \A s \in States : \A t \in AllowedTransitions[s] : t \in States /\ Rank(s) < Rank(t)
<1> SUFFICES ASSUME NEW s \in States, NEW t \in AllowedTransitions[s]
             PROVE  t \in States /\ Rank(s) < Rank(t)
  OBVIOUS
<1>1. CASE s = "FROZEN"
  BY <1>1 DEF AllowedTransitions, Rank, States
<1>2. CASE s = "AUTHORIZED"
  BY <1>2 DEF AllowedTransitions, Rank, States
<1>3. CASE s = "EXECUTING"
  BY <1>3 DEF AllowedTransitions, Rank, States
<1>4. CASE s = "EXECUTED"
  BY <1>4 DEF AllowedTransitions, Rank, States
<1>5. CASE s = "EVIDENCE_VERIFIED"
  BY <1>5 DEF AllowedTransitions, Rank, States
<1>6. CASE s = "RETESTED"
  BY <1>6 DEF AllowedTransitions, Rank, States
<1>7. CASE s \in {"CLOSED", "STOPPED"}
  BY <1>7 DEF AllowedTransitions, States
<1> QED
  BY <1>1, <1>2, <1>3, <1>4, <1>5, <1>6, <1>7 DEF States

(* A command that was applied has left the state it expects behind; of the *)
(* processes that hold it at most one applied it, and its nonce is unspent *)
(* while that one is on its way to spending it.                            *)
Once(c) ==
    /\ applied[c] <= 1
    /\ applied[c] = 1 => state[c.exercise] \in States /\ Rank(c.from) < Rank(state[c.exercise])
    /\ c \in consumed => applied[c] = 1

CommandInv ==
    /\ \A c \in Commands : Once(c)
    /\ \A p \in Procs : proc[p].pc = "applied" =>
          /\ applied[proc[p].cmd] = 1
          /\ proc[p].cmd \notin consumed
          /\ \A q \in Procs : proc[q].pc = "applied" /\ proc[q].cmd = proc[p].cmd => q = p

LEMMA InitCommand == Init => CommandInv
  BY DEF Init, CommandInv, Once, Idle

LEMMA NextCommand == TypeOK /\ CommandInv /\ [Next]_vars => CommandInv'
<1> USE PurpleAssumption
<1> SUFFICES ASSUME TypeOK, CommandInv, [Next]_vars PROVE CommandInv'
  OBVIOUS
<1>0. \A c \in Commands : c.exercise \in Exercises /\ c.from \in States
  OBVIOUS
<1>1. ASSUME NEW e \in Exercises, NEW a \in Actors, Create(e, a) PROVE CommandInv'
  <2>1. \A c \in Commands : applied[c] = 1 => c.exercise # e
    BY <1>1 DEF Create, CommandInv, Once
  <2> QED
    BY <1>1, <1>0, <2>1 DEF Create, CommandInv, Once, TypeOK
<1>2. CASE \/ \E e \in Exercises :
                 \/ \E t \in Tests, i \in EvidenceIds :
                       AddEvidence(e, i, t) \/ \E s \in Stages : RecordResult(e, t, s, i)
                 \/ Expire(e)
           \/ UNCHANGED vars
  BY <1>2 DEF AddEvidence, RecordResult, Expire, vars, CommandInv, Once
<1>3. ASSUME NEW p \in Procs, (\E c \in Commands : Lookup(p, c)) \/ Abort(p) PROVE CommandInv'
  <2>1. /\ \A q \in Procs : q # p => proc'[q] = proc[q]
        /\ proc'[p].pc # "applied"
    BY <1>3 DEF Lookup, Abort, Idle, TypeOK
  <2> QED
    BY <1>3, <2>1 DEF Lookup, Abort, CommandInv, Once
<1>4. ASSUME NEW p \in Procs, Transition(p) PROVE CommandInv'
  <2> DEFINE c == proc[p].cmd
  <2>1. c \in Commands /\ proc[p] = [pc |-> "checked", cmd |-> c]
    BY <1>4 DEF Transition, Process, Idle, TypeOK
  <2>2. /\ state[c.exercise] = c.from
        /\ c.to \in States /\ Rank(c.from) < Rank(c.to)
    BY <1>4, <1>0, <2>1, RankGrows DEF Transition, AsExpected, MayMove
  <2>3. applied[c] = 0 /\ c \notin consumed
    <3>1. Rank(c.from) \in Nat /\ applied[c] \in Nat
      BY <1>0, <2>1, RankType DEF TypeOK
    <3> QED
      BY <2>1, <2>2, <3>1 DEF CommandInv, Once
  <2>4. /\ applied' = [applied EXCEPT ![c] = 1]
        /\ state' = [state EXCEPT ![c.exercise] = c.to]
        /\ consumed' = consumed
    BY <1>4, <2>3 DEF Transition, TypeOK
  <2>5. /\ \A q \in Procs : q # p => proc'[q] = proc[q]
        /\ proc'[p] = [pc |-> "applied", cmd |-> c]
    BY <1>4, <2>1 DEF Transition, TypeOK
  <2>6. ASSUME NEW d \in Commands PROVE Once(d)'
    <3>1. CASE d = c
      BY <2>1, <2>2, <2>3, <2>4, <3>1, <1>0 DEF Once, TypeOK
    <3>2. CASE d # c /\ d.exercise = c.exercise
      <4>1. applied'[d] = applied[d] /\ state'[d.exercise] = c.to
        BY <2>4, <3>2, <1>0 DEF TypeOK
      <4>2. applied[d] = 1 => Rank(d.from) < Rank(c.from)
        BY <2>2, <3>2 DEF CommandInv, Once
      <4>3. Rank(d.from) \in Nat /\ Rank(c.from) \in Nat /\ Rank(c.to) \in Nat
        BY <1>0, <2>1, <2>2, RankType
      <4> QED
        BY <2>2, <2>4, <4>1, <4>2, <4>3 DEF CommandInv, Once
    <3>3. CASE d # c /\ d.exercise # c.exercise
      BY <2>4, <3>3, <1>0 DEF CommandInv, Once, TypeOK
    <3> QED
      BY <3>1, <3>2, <3>3
  <2>7. \A q \in Procs : proc[q].pc = "applied" => proc[q].cmd # c
    BY <2>3 DEF CommandInv
  <2>8. \A q \in Procs : proc[q].pc = "applied" => applied'[proc[q].cmd] = 1
    <3>1. ASSUME NEW q \in Procs, proc[q].pc = "applied" PROVE applied'[proc[q].cmd] = 1
      <4>1. proc[q].cmd \in Commands
        BY <3>1 DEF TypeOK, Process, Idle
      <4> QED
        BY <2>4, <2>7, <3>1, <4>1 DEF CommandInv, TypeOK
    <3> QED
      BY <3>1
  <2>9. ASSUME NEW q \in Procs, proc'[q].pc = "applied"
        PROVE  /\ applied'[proc'[q].cmd] = 1
               /\ proc'[q].cmd \notin consumed'
               /\ \A o \in Procs : proc'[o].pc = "applied" /\ proc'[o].cmd = proc'[q].cmd => o = q
    <3>1. CASE q = p
      <4>1. proc'[q].cmd = c
        BY <2>5, <3>1
      <4>2. applied'[c] = 1 /\ c \notin consumed'
        BY <2>1, <2>3, <2>4 DEF TypeOK
      <4>3. \A o \in Procs : proc'[o].pc = "applied" /\ proc'[o].cmd = c => o = p
        BY <2>5, <2>7
      <4> QED
        BY <3>1, <4>1, <4>2, <4>3
    <3>2. CASE q # p
      <4>1. proc'[q] = proc[q] /\ proc[q].cmd # c
        BY <2>5, <2>7, <2>9, <3>2
      <4>2. applied'[proc[q].cmd] = 1 /\ proc[q].cmd \notin consumed'
        BY <2>4, <2>8, <2>9, <4>1 DEF CommandInv
      <4>3. ASSUME NEW o \in Procs, proc'[o].pc = "applied", proc'[o].cmd = proc[q].cmd
            PROVE  o = q
        <5>1. o # p
          BY <2>5, <4>1, <4>3
        <5> QED
          BY <2>5, <2>9, <4>1, <4>3, <5>1 DEF CommandInv
      <4> QED
        BY <4>1, <4>2, <4>3
    <3> QED
      BY <3>1, <3>2
  <2> QED
    BY <2>6, <2>9 DEF CommandInv
<1>5. ASSUME NEW p \in Procs, Consume(p) PROVE CommandInv'
  <2>1. /\ \A q \in Procs : q # p => proc'[q] = proc[q]
        /\ proc'[p].pc = "idle"
    BY <1>5 DEF Consume, Idle, TypeOK
  <2>2. applied[proc[p].cmd] = 1
    BY <1>5 DEF Consume, CommandInv
  <2> QED
    BY <1>5, <2>1, <2>2 DEF Consume, CommandInv, Once
<1> QED
  BY <1>1, <1>2, <1>3, <1>4, <1>5 DEF Next

(* A signed command moves its exercise at most once, wherever a process    *)
(* dies and however many hold the command at once.                         *)
THEOREM AppliedOnce == Spec => []CommandAppliedOnce
<1>1. CommandInv => CommandAppliedOnce
  BY DEF CommandInv, Once, CommandAppliedOnce
<1> QED
  BY <1>1, InitTypeOK, NextTypeOK, InitCommand, NextCommand, PTL DEF Spec

(* The second transaction of a command never meets its nonce already spent.*)
THEOREM SpendingSucceeds == Spec => []AppliedIsUnspent
<1>1. CommandInv => AppliedIsUnspent
  BY DEF CommandInv, AppliedIsUnspent
<1> QED
  BY <1>1, InitTypeOK, NextTypeOK, InitCommand, NextCommand, PTL DEF Spec

----------------------------------------------------------------------------
(* Evidence                                                                *)

(* Every result stands on evidence of its own exercise and test case, and  *)
(* a verified exercise has one for every stage.                            *)
Backed(r) == evidence[r.evidence] = [exercise |-> r.exercise, test |-> r.test]

EvidenceInv ==
    /\ \A r \in results : Backed(r)
    /\ \A e \in Exercises : state[e] \in Verified => CompleteEvidence(e)

LEMMA InitEvidence == Init => EvidenceInv
  BY PurpleAssumption DEF Init, EvidenceInv, Verified, States

(* Results are only added to, and a verified exercise adds none.           *)
LEMMA CompleteStays ==
    ASSUME TypeOK, NEW e \in Exercises, CompleteEvidence(e),
           {r \in results' : r.exercise = e} = {r \in results : r.exercise = e}
    PROVE  CompleteEvidence(e)'
<1>1. ASSUME NEW t PROVE Observed(e, t)' = Observed(e, t)
  <2>1. \A r : r \in results' /\ r.exercise = e <=> r \in results /\ r.exercise = e
    OBVIOUS
  <2>2. {q \in results' : q.exercise = e /\ q.test = t}
          = {q \in results : q.exercise = e /\ q.test = t}
    BY <2>1
  <2> QED
    BY <2>2 DEF Observed
<1> QED
  BY <1>1 DEF CompleteEvidence

LEMMA NextEvidence == TypeOK /\ EvidenceInv /\ [Next]_vars => EvidenceInv'
<1> USE PurpleAssumption
<1> SUFFICES ASSUME TypeOK, EvidenceInv, [Next]_vars PROVE EvidenceInv'
  OBVIOUS
<1>1. ASSUME NEW e \in Exercises, NEW a \in Actors, Create(e, a) PROVE EvidenceInv'
  <2>1. \A x \in Exercises : state'[x] \in Verified => state[x] \in Verified
    BY <1>1 DEF Create, Verified, TypeOK
  <2>2. \A x \in Exercises : CompleteEvidence(x)' = CompleteEvidence(x)
    BY <1>1 DEF Create, CompleteEvidence, Observed
  <2> QED
    BY <1>1, <2>1, <2>2 DEF Create, EvidenceInv, Backed
<1>2. ASSUME NEW e \in Exercises, NEW t \in Tests, NEW i \in EvidenceIds, AddEvidence(e, i, t)
      PROVE  EvidenceInv'
  <2>1. \A r \in results : Backed(r)'
    <3>1. \A r \in results : evidence[r.evidence] # None
      <4> SUFFICES ASSUME NEW r \in results PROVE evidence[r.evidence] # None
        OBVIOUS
      <4>1. r.exercise \in Exercises /\ r.test \in Tests
        BY DEF TypeOK
      <4>2. [exercise |-> r.exercise, test |-> r.test] \in [exercise : Exercises, test : Tests]
        BY <4>1
      <4> QED
        BY <4>2 DEF EvidenceInv, Backed
    <3>2. \A r \in results : r.evidence # i /\ r.evidence \in EvidenceIds
      BY <1>2, <3>1 DEF AddEvidence, TypeOK
    <3> QED
      BY <1>2, <3>2 DEF AddEvidence, EvidenceInv, Backed, TypeOK
  <2>2. \A x \in Exercises : CompleteEvidence(x)' = CompleteEvidence(x)
    BY <1>2 DEF AddEvidence, CompleteEvidence, Observed
  <2> QED
    BY <1>2, <2>1, <2>2 DEF AddEvidence, EvidenceInv
<1>3. ASSUME NEW e \in Exercises, NEW t \in Tests, NEW i \in EvidenceIds, NEW s \in Stages,
             RecordResult(e, t, s, i)
      PROVE  EvidenceInv'
  <2>1. \A r \in results' : Backed(r)'
    <3> DEFINE new == [exercise |-> e, test |-> t, stage |-> s, evidence |-> i]
    <3>1. results' = results \cup {new} /\ evidence' = evidence
      BY <1>3 DEF RecordResult
    <3>2. evidence[new.evidence] = [exercise |-> new.exercise, test |-> new.test]
      BY <1>3 DEF RecordResult, EvidenceFor
    <3> HIDE DEF new
    <3> QED
      BY <3>1, <3>2 DEF EvidenceInv, Backed
  <2>2. ASSUME NEW x \in Exercises, state'[x] \in Verified PROVE CompleteEvidence(x)'
    <3>1. x # e /\ state[x] \in Verified
      BY <1>3, <2>2 DEF RecordResult, AcceptsEvidence, Verified
    <3>2. {r \in results' : r.exercise = x} = {r \in results : r.exercise = x}
      BY <1>3, <3>1 DEF RecordResult
    <3> QED
      BY <3>1, <3>2, CompleteStays DEF EvidenceInv
  <2> QED
    BY <2>1, <2>2 DEF EvidenceInv
<1>4. ASSUME NEW p \in Procs, Transition(p) PROVE EvidenceInv'
  <2> DEFINE c == proc[p].cmd
  <2>1. c \in Commands
    BY <1>4 DEF Transition, Process, Idle, TypeOK
  <2>2. /\ state' = [state EXCEPT ![c.exercise] = c.to]
        /\ UNCHANGED <<results, evidence>>
        /\ state[c.exercise] = c.from /\ c.to \in AllowedTransitions[c.from]
        /\ c.to = "EVIDENCE_VERIFIED" => CompleteEvidence(c.exercise)
    BY <1>4 DEF Transition, AsExpected, MayMove
  <2>3. \A x \in Exercises : CompleteEvidence(x)' = CompleteEvidence(x)
    BY <2>2 DEF CompleteEvidence, Observed
  <2>4. c.exercise \in Exercises /\ c.from \in States
    BY <2>1
  <2>5. c.to \in {"RETESTED", "CLOSED"} => c.from \in Verified
    BY <2>2, <2>4 DEF AllowedTransitions, States, Verified
  <2>6. c.to \in Verified => CompleteEvidence(c.exercise)
    BY <2>2, <2>4, <2>5 DEF EvidenceInv, Verified
  <2> HIDE DEF c
  <2>7. ASSUME NEW x \in Exercises, state'[x] \in Verified PROVE CompleteEvidence(x)
    BY <2>2, <2>4, <2>6, <2>7 DEF EvidenceInv, TypeOK
  <2> QED
    BY <2>2, <2>3, <2>7 DEF EvidenceInv, Backed
<1>5. CASE \/ \E e \in Exercises : Expire(e)
           \/ \E p \in Procs : (\E c \in Commands : Lookup(p, c)) \/ Consume(p) \/ Abort(p)
           \/ UNCHANGED vars
  <2>1. UNCHANGED <<state, results, evidence>>
    BY <1>5 DEF Expire, Lookup, Consume, Abort, vars
  <2> QED
    BY <2>1 DEF EvidenceInv, Backed, CompleteEvidence, Observed
<1> QED
  BY <1>1, <1>2, <1>3, <1>4, <1>5 DEF Next

(* A verified, retested or closed exercise has a result for every stage of *)
(* every test case, on evidence of that test case.                         *)
THEOREM VerifiedComplete == Spec => []VerifiedIsComplete
<1>1. EvidenceInv => VerifiedIsComplete
  <2> SUFFICES ASSUME EvidenceInv, NEW e \in Exercises, state[e] \in Verified,
                      NEW t \in Cases(e), NEW s \in Stages
               PROVE  \E r \in results :
                        /\ r.exercise = e /\ r.test = t /\ r.stage = s
                        /\ evidence[r.evidence] = [exercise |-> e, test |-> t]
    BY DEF VerifiedIsComplete
  <2>1. s \in Observed(e, t)
    BY DEF EvidenceInv, CompleteEvidence
  <2>2. PICK r \in results : r.exercise = e /\ r.test = t /\ r.stage = s
    BY <2>1 DEF Observed
  <2> QED
    BY <2>2 DEF EvidenceInv, Backed
<1> QED
  BY <1>1, InitTypeOK, NextTypeOK, InitEvidence, NextEvidence, PTL DEF Spec

(* What was verified stays as it was verified.                             *)
THEOREM EvidenceStays == Spec => EvidenceFrozen
<1> DEFINE Frozen ==
      \A e \in Exercises : state[e] \in Verified =>
        /\ {r \in results' : r.exercise = e} = {r \in results : r.exercise = e}
        /\ \A i \in EvidenceIds : evidence'[i] # evidence[i] => evidence'[i].exercise # e
<1>1. TypeOK /\ [Next]_vars => [Frozen]_vars
  <2> SUFFICES ASSUME TypeOK, Next PROVE Frozen
    OBVIOUS
  <2>1. ASSUME NEW x \in Exercises, NEW t \in Tests, NEW i \in EvidenceIds, AddEvidence(x, i, t)
        PROVE  Frozen
    BY <2>1 DEF AddEvidence, AcceptsEvidence, Verified, TypeOK
  <2>2. ASSUME NEW x \in Exercises, NEW t \in Tests, NEW i \in EvidenceIds, NEW s \in Stages,
               RecordResult(x, t, s, i)
        PROVE  Frozen
    BY <2>2 DEF RecordResult, AcceptsEvidence, Verified
  <2>3. CASE UNCHANGED <<results, evidence>>
    BY <2>3
  <2> QED
    BY <2>1, <2>2, <2>3 DEF Next, Create, Expire, Lookup, Transition, Consume, Abort
<1> QED
  BY <1>1, InitTypeOK, NextTypeOK, PTL DEF Spec, EvidenceFrozen

----------------------------------------------------------------------------
(* Separation of duties                                                    *)

(* No exercise is behind any of its transitions.                           *)
LogInv ==
    \A k \in DOMAIN log :
        LET e == log[k].exercise
        IN  state[e] \in States /\ Rank(log[k].to) <= Rank(state[e])

LEMMA InitLog == Init => LogInv /\ VerifiedIndependently
  BY DEF Init, LogInv, VerifiedIndependently

LEMMA NextLog ==
    TypeOK /\ LogInv /\ VerifiedIndependently /\ [Next]_vars => (LogInv /\ VerifiedIndependently)'
<1> USE PurpleAssumption
<1> SUFFICES ASSUME TypeOK, LogInv, VerifiedIndependently, [Next]_vars
             PROVE  (LogInv /\ VerifiedIndependently)'
  OBVIOUS
<1>0. \A k \in DOMAIN log : log[k] \in Transitions
  BY DEF TypeOK
<1>1. ASSUME NEW e \in Exercises, NEW a \in Actors, Create(e, a)
      PROVE  (LogInv /\ VerifiedIndependently)'
  <2> DEFINE new == Entry(e, None, "FROZEN", a)
             n == Len(log) + 1
  <2>1. new \in Transitions /\ new.exercise = e /\ new.to = "FROZEN"
    BY DEF Entry, Transitions, States
  <2>2. /\ log'[n] = new /\ \A k \in DOMAIN log : log'[k] = log[k]
        /\ \A k \in DOMAIN log' : k \in DOMAIN log \/ k = n
    BY <1>1, <2>1, LogGrows DEF Create, TypeOK
  <2>3. \A k \in DOMAIN log : log[k].exercise # e
    BY <1>1 DEF Create, LogInv
  <2>4. state' = [state EXCEPT ![e] = "FROZEN"]
    BY <1>1 DEF Create
  <2>5. Rank("FROZEN") <= Rank("FROZEN") /\ "FROZEN" \in States
    BY DEF Rank, States
  <2> HIDE DEF new, n
  <2>6. LogInv'
    <3> SUFFICES ASSUME NEW k \in DOMAIN log'
                 PROVE  /\ state'[log'[k].exercise] \in States
                        /\ Rank(log'[k].to) <= Rank(state'[log'[k].exercise])
      BY DEF LogInv
    <3>1. CASE k = n
      BY <2>1, <2>2, <2>4, <2>5, <3>1 DEF TypeOK
    <3>2. CASE k \in DOMAIN log
      <4>1. log'[k] = log[k] /\ log[k].exercise # e /\ log[k].exercise \in Exercises
        BY <1>0, <2>2, <2>3, <3>2 DEF Transitions
      <4>2. state'[log[k].exercise] = state[log[k].exercise]
        BY <2>4, <4>1 DEF TypeOK
      <4> QED
        BY <3>2, <4>1, <4>2 DEF LogInv
    <3> QED
      BY <2>2, <3>1, <3>2
  <2>7. VerifiedIndependently'
    BY <1>0, <2>1, <2>2, <2>3 DEF VerifiedIndependently
  <2> QED
    BY <2>6, <2>7
<1>2. ASSUME NEW p \in Procs, Transition(p) PROVE (LogInv /\ VerifiedIndependently)'
  <2> DEFINE c == proc[p].cmd
             new == Entry(c.exercise, c.from, c.to, c.actor)
             n == Len(log) + 1
  <2>1. /\ c \in Commands /\ c.exercise \in Exercises /\ c.from \in States
        /\ c.to \in States /\ c.actor \in Actors
    BY <1>2 DEF Transition, Process, Idle, TypeOK
  <2>2. /\ new \in Transitions
        /\ new.exercise = c.exercise /\ new.to = c.to /\ new.actor = c.actor
    BY <2>1 DEF Entry, Transitions
  <2>3. /\ log'[n] = new /\ \A k \in DOMAIN log : log'[k] = log[k]
        /\ \A k \in DOMAIN log' : k \in DOMAIN log \/ k = n
    BY <1>2, <2>2, LogGrows DEF Transition, TypeOK
  <2>4. /\ state' = [state EXCEPT ![c.exercise] = c.to]
        /\ state[c.exercise] = c.from /\ Rank(c.from) < Rank(c.to)
    BY <1>2, <2>1, RankGrows DEF Transition, AsExpected, MayMove
  <2>5. c.to = "EVIDENCE_VERIFIED" =>
          /\ c.actor # Owner(c.exercise)
          /\ \A k \in DOMAIN log :
                log[k].exercise = c.exercise /\ log[k].to \in {"EXECUTING", "EXECUTED"}
                => log[k].actor # c.actor
    BY <1>2 DEF Transition, MayMove, Operators
  <2>6. \A k \in DOMAIN log : log[k].exercise = c.exercise => Rank(log[k].to) < Rank(c.to)
    <3> SUFFICES ASSUME NEW k \in DOMAIN log, log[k].exercise = c.exercise
                 PROVE  Rank(log[k].to) < Rank(c.to)
      OBVIOUS
    <3>1. Rank(log[k].to) <= Rank(c.from)
      BY <2>4 DEF LogInv
    <3>2. Rank(log[k].to) \in Nat /\ Rank(c.from) \in Nat /\ Rank(c.to) \in Nat
      BY <1>0, <2>1, RankType DEF Transitions
    <3> QED
      BY <2>4, <3>1, <3>2
  <2>7. \A k \in DOMAIN log :
          log[k].exercise = c.exercise /\ log[k].to = "EVIDENCE_VERIFIED"
          => c.to \notin {"EXECUTING", "EXECUTED", "EVIDENCE_VERIFIED"}
    BY <2>6 DEF Rank
  <2> HIDE DEF c, new, n
  <2>8. LogInv'
    <3> SUFFICES ASSUME NEW k \in DOMAIN log'
                 PROVE  /\ state'[log'[k].exercise] \in States
                        /\ Rank(log'[k].to) <= Rank(state'[log'[k].exercise])
      BY DEF LogInv
    <3>1. CASE k = n
      BY <2>1, <2>2, <2>3, <2>4, <3>1, RankType DEF TypeOK
    <3>2. CASE k \in DOMAIN log /\ log[k].exercise = c.exercise
      <4>1. Rank(log[k].to) \in Nat /\ Rank(c.to) \in Nat
        BY <1>0, <2>1, <3>2, RankType DEF Transitions
      <4> QED
        BY <2>1, <2>3, <2>4, <2>6, <3>2, <4>1 DEF TypeOK
    <3>3. CASE k \in DOMAIN log /\ log[k].exercise # c.exercise
      BY <1>0, <2>3, <2>4, <3>3 DEF LogInv, TypeOK, Transitions
    <3> QED
      BY <2>3, <3>1, <3>2, <3>3
  <2>9. VerifiedIndependently'
    <3> SUFFICES ASSUME NEW j \in DOMAIN log', NEW k \in DOMAIN log',
                        log'[j].to = "EVIDENCE_VERIFIED", log'[k].exercise = log'[j].exercise
                 PROVE  /\ log'[j].actor # Owner(log'[j].exercise)
                        /\ log'[k].to \in {"EXECUTING", "EXECUTED"} => log'[k].actor # log'[j].actor
      BY DEF VerifiedIndependently
    <3>1. CASE j = n /\ k = n
      BY <2>2, <2>3, <2>5, <3>1
    <3>2. CASE j = n /\ k \in DOMAIN log
      BY <2>2, <2>3, <2>5, <3>2
    <3>3. CASE j \in DOMAIN log /\ k = n
      BY <2>2, <2>3, <2>7, <3>3 DEF VerifiedIndependently
    <3>4. CASE j \in DOMAIN log /\ k \in DOMAIN log
      BY <2>3, <3>4 DEF VerifiedIndependently
    <3> QED
      BY <2>3, <3>1, <3>2, <3>3, <3>4
  <2> QED
    BY <2>8, <2>9
<1>3. CASE UNCHANGED <<log, state>>
  BY <1>3 DEF LogInv, VerifiedIndependently
<1> QED
  BY <1>1, <1>2, <1>3
     DEF Next, vars, AddEvidence, RecordResult, Expire, Lookup, Consume, Abort

(* Whoever verified the evidence neither owned nor operated the exercise.  *)
THEOREM VerifiedByOthers == Spec => []VerifiedIndependently
  BY InitTypeOK, NextTypeOK, InitLog, NextLog, PTL DEF Spec

----------------------------------------------------------------------------
(* The history of an exercise                                              *)

(* Entry k of the log lg follows the last entry of its exercise before it, *)
(* or founds it.                                                           *)
Follows(k, lg) ==
    LET earlier == {j \in DOMAIN lg : lg[j].exercise = lg[k].exercise /\ j < k}
    IN  /\ earlier = {} => lg[k].from = None /\ lg[k].to = "FROZEN"
        /\ \A j \in earlier : (\A i \in earlier : i <= j) =>
              lg[k].from = lg[j].to /\ lg[k].to \in AllowedTransitions[lg[k].from]

(* If entry k is the last of its exercise, it led to the state st.         *)
LeadsTo(k, lg, st) ==
    (\A j \in DOMAIN lg : lg[j].exercise = lg[k].exercise => j <= k) => st[lg[k].exercise] = lg[k].to

LEMMA PathByEntries ==
    HistoryIsPath <=>
        /\ \A e \in Exercises : state[e] = None <=> \A k \in DOMAIN log : log[k].exercise # e
        /\ \A k \in DOMAIN log : Follows(k, log) /\ LeadsTo(k, log, state)
<1>1. ASSUME NEW k \in DOMAIN log
      PROVE  LET mine == {j \in DOMAIN log : log[j].exercise = log[k].exercise}
                 earlier == {j \in mine : j < k}
             IN  /\ earlier = {j \in DOMAIN log : log[j].exercise = log[k].exercise /\ j < k}
                 /\ (\A i \in mine : i <= k) <=>
                       \A j \in DOMAIN log : log[j].exercise = log[k].exercise => j <= k
  OBVIOUS
<1> QED
  BY <1>1 DEF HistoryIsPath, Follows, LeadsTo

(* A transition that the state of its exercise admits prolongs its path.   *)
LEMMA PathGrows ==
    ASSUME TypeOK, HistoryIsPath, NEW entry \in Transitions, AppendTransition(entry),
           state' = [state EXCEPT ![entry.exercise] = entry.to],
           \/ state[entry.exercise] = None /\ entry.from = None /\ entry.to = "FROZEN"
           \/ /\ state[entry.exercise] \in States /\ entry.from = state[entry.exercise]
              /\ entry.to \in AllowedTransitions[entry.from]
    PROVE  HistoryIsPath'
<1> USE PurpleAssumption
<1> DEFINE n == Len(log) + 1
           x == entry.exercise
<1>1. /\ log \in Seq(Transitions) /\ state \in [Exercises -> States \cup {None}]
      /\ x \in Exercises /\ entry.to \in States
  BY DEF TypeOK, Transitions
<1>2. n \in Nat /\ DOMAIN log = 1 .. n - 1
  BY <1>1
<1>3. /\ DOMAIN log' = DOMAIN log \cup {n} /\ log'[n] = entry
      /\ \A k \in DOMAIN log : log'[k] = log[k] /\ k < n
  <2>1. log' \in Seq(Transitions) /\ Len(log') = n
    BY <1>1, LogGrows
  <2>2. DOMAIN log' = 1 .. n
    BY <2>1
  <2> QED
    BY <1>1, <1>2, <2>2, LogGrows
<1>4. /\ state'[x] = entry.to /\ \A e \in Exercises : e # x => state'[e] = state[e]
  BY <1>1
<1>5. /\ \A e \in Exercises : state[e] = None <=> \A k \in DOMAIN log : log[k].exercise # e
      /\ \A k \in DOMAIN log : Follows(k, log) /\ LeadsTo(k, log, state)
  BY PathByEntries
<1>6. \A k \in DOMAIN log : log[k].exercise \in Exercises
  <2>1. \A k \in DOMAIN log : log[k] \in Transitions
    BY <1>1
  <2> QED
    BY <2>1 DEF Transitions
<1> HIDE DEF n, x
<1>7. ASSUME NEW e \in Exercises
      PROVE  state'[e] = None <=> \A k \in DOMAIN log' : log'[k].exercise # e
  <2>1. CASE e = x
    BY <1>1, <1>3, <1>4, <2>1 DEF x
  <2>2. CASE e # x
    <3>1. state'[e] = state[e]
      BY <1>4, <2>2
    <3>2. (\A k \in DOMAIN log' : log'[k].exercise # e) <=> \A k \in DOMAIN log : log[k].exercise # e
      BY <1>3, <2>2 DEF x
    <3> QED
      BY <1>5, <3>1, <3>2
  <2> QED
    BY <2>1, <2>2
<1>8. ASSUME NEW k \in DOMAIN log PROVE Follows(k, log') /\ LeadsTo(k, log', state')
  <2>1. log'[k] = log[k] /\ k < n /\ k \in DOMAIN log' /\ k \in Nat
    BY <1>2, <1>3
  <2>2. {j \in DOMAIN log' : log'[j].exercise = log'[k].exercise /\ j < k}
          = {j \in DOMAIN log : log[j].exercise = log[k].exercise /\ j < k}
    BY <1>2, <1>3, <2>1
  <2>3. \A j \in {i \in DOMAIN log : log[i].exercise = log[k].exercise /\ i < k} : log'[j] = log[j]
    BY <1>3
  <2>4. Follows(k, log')
    BY <1>5, <2>1, <2>2, <2>3 DEF Follows
  <2>5. LeadsTo(k, log', state')
    <3> SUFFICES ASSUME \A j \in DOMAIN log' : log'[j].exercise = log'[k].exercise => j <= k
                 PROVE  state'[log'[k].exercise] = log'[k].to
      BY DEF LeadsTo
    <3>1. log[k].exercise # x
      BY <1>2, <1>3, <2>1 DEF x
    <3>2. state'[log[k].exercise] = state[log[k].exercise]
      BY <1>4, <1>6, <3>1
    <3>3. \A j \in DOMAIN log : log[j].exercise = log[k].exercise => j <= k
      BY <1>3, <2>1
    <3> QED
      BY <1>5, <2>1, <3>2, <3>3 DEF LeadsTo
  <2> QED
    BY <2>4, <2>5
<1>9. Follows(n, log')
  <2> DEFINE earlier == {j \in DOMAIN log : log[j].exercise = x}
  <2>1. {j \in DOMAIN log' : log'[j].exercise = log'[n].exercise /\ j < n} = earlier
    BY <1>2, <1>3 DEF x
  <2>2. earlier = {} => entry.from = None /\ entry.to = "FROZEN"
    <3>1. earlier = {} => state[x] = None
      BY <1>1, <1>5
    <3> QED
      BY <3>1 DEF x
  <2>3. ASSUME NEW j \in earlier, \A i \in earlier : i <= j
        PROVE  entry.from = log[j].to /\ entry.to \in AllowedTransitions[entry.from]
    <3>1. state[x] = log[j].to
      BY <1>5, <2>3 DEF LeadsTo
    <3>2. state[x] # None
      BY <1>1, <1>5
    <3> QED
      BY <3>1, <3>2 DEF x
  <2>4. \A j \in earlier : log'[j] = log[j]
    BY <1>3
  <2> HIDE DEF earlier
  <2> QED
    BY <1>3, <2>1, <2>2, <2>3, <2>4 DEF Follows
<1>10. LeadsTo(n, log', state')
  BY <1>3, <1>4 DEF LeadsTo, x
<1>11. \A k \in DOMAIN log' : Follows(k, log') /\ LeadsTo(k, log', state')
  BY <1>3, <1>8, <1>9, <1>10
<1>12. HistoryIsPath' <=>
        /\ \A e \in Exercises : state'[e] = None <=> \A k \in DOMAIN log' : log'[k].exercise # e
        /\ \A k \in DOMAIN log' : Follows(k, log') /\ LeadsTo(k, log', state')
  <2>1. ASSUME NEW k \in DOMAIN log'
        PROVE  LET mine == {j \in DOMAIN log' : log'[j].exercise = log'[k].exercise}
                   earlier == {j \in mine : j < k}
               IN  /\ earlier = {j \in DOMAIN log' : log'[j].exercise = log'[k].exercise /\ j < k}
                   /\ (\A i \in mine : i <= k) <=>
                         \A j \in DOMAIN log' : log'[j].exercise = log'[k].exercise => j <= k
    OBVIOUS
  <2> QED
    BY <2>1 DEF HistoryIsPath, Follows, LeadsTo
<1> QED
  BY <1>7, <1>11, <1>12

(* The transitions of an exercise are a path through the lifecycle that    *)
(* ends in the state it is in, whichever processes apply commands to it    *)
(* and die before they are done (_append_transition, transition).          *)
THEOREM PathsHold == Spec => []HistoryIsPath
<1>1. Init => HistoryIsPath
  BY DEF Init, HistoryIsPath
<1>2. TypeOK /\ HistoryIsPath /\ [Next]_vars => HistoryIsPath'
  <2> SUFFICES ASSUME TypeOK, HistoryIsPath, [Next]_vars PROVE HistoryIsPath'
    OBVIOUS
  <2> USE PurpleAssumption
  <2>1. ASSUME NEW e \in Exercises, NEW a \in Actors, Create(e, a) PROVE HistoryIsPath'
    <3> DEFINE new == Entry(e, None, "FROZEN", a)
    <3>1. new \in Transitions /\ new.exercise = e /\ new.from = None /\ new.to = "FROZEN"
      BY DEF Entry, Transitions, States
    <3>2. AppendTransition(new) /\ state[e] = None /\ state' = [state EXCEPT ![e] = "FROZEN"]
      BY <2>1 DEF Create
    <3> HIDE DEF new
    <3> QED
      BY <3>1, <3>2, PathGrows
  <2>2. ASSUME NEW p \in Procs, Transition(p) PROVE HistoryIsPath'
    <3> DEFINE c == proc[p].cmd
               new == Entry(c.exercise, c.from, c.to, c.actor)
    <3>1. /\ c \in Commands /\ c.exercise \in Exercises /\ c.from \in States
          /\ c.to \in States /\ c.actor \in Actors
      BY <2>2 DEF Transition, Process, Idle, TypeOK
    <3>2. /\ AppendTransition(new) /\ state[c.exercise] = c.from /\ c.to \in AllowedTransitions[c.from]
          /\ state' = [state EXCEPT ![c.exercise] = c.to]
      BY <2>2 DEF Transition, AsExpected, MayMove
    <3> HIDE DEF c
    <3>3. /\ new \in Transitions
          /\ new.exercise = c.exercise /\ new.from = c.from /\ new.to = c.to
      BY <3>1 DEF Entry, Transitions
    <3> HIDE DEF new
    <3> QED
      BY <3>1, <3>2, <3>3, PathGrows
  <2>3. CASE UNCHANGED <<log, state>>
    BY <2>3 DEF HistoryIsPath
  <2> QED
    BY <2>1, <2>2, <2>3 DEF Next, vars, AddEvidence, RecordResult, Expire, Lookup, Consume, Abort
<1> QED
  BY <1>1, <1>2, InitTypeOK, NextTypeOK, PTL DEF Spec

============================================================================
