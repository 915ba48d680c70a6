-------------------------- MODULE Rehearsal_proofs --------------------------
(***************************************************************************)
(* What Rehearsal promises for every number of runners and clearances and  *)
(* every choice of the time constants its assumption allows: a clearance   *)
(* admits one run, and a revocation stops a run within one stage.          *)
(*                                                                         *)
(* AdmissionInv is about the ledger and its lock, ExecutionInv about the   *)
(* stages; both stand on TypeOK.                                           *)
(***************************************************************************)
EXTENDS Rehearsal, TLAPS

----------------------------------------------------------------------------
(* Type correctness                                                        *)

(* A runner that has nothing in hand is a runner.                          *)
LEMMA NoRunType == NoRun \in Runner
  BY DEF NoRun, Runner

(* The next point of a run is a point of a run.                            *)
LEMMA FollowingType ==
    \A pc \in Boundaries : Following(pc) \in Stages \cup Boundaries
BY DEF Following, Boundaries, Stages

LEMMA FollowingStage ==
    \A pc \in Stages : Following(pc) \in Boundaries \cup {"idle"}
BY DEF Following, Boundaries, Stages

(* A runner that moves on is a runner.                                     *)
LEMMA RunnerMoves ==
    ASSUME NEW x \in Runner
    PROVE  /\ \A pc \in Admission \cup Boundaries \cup Stages \cup {"idle", "consumed"} :
                /\ [x EXCEPT !.pc = pc] \in Runner
                /\ \A c \in Nat : [x EXCEPT !.pc = pc, !.clock = c] \in Runner
                /\ \A u \in [Nonces -> Nat] : [x EXCEPT !.pc = pc, !.used = u] \in Runner
                /\ \A d, l \in Nat : [x EXCEPT !.pc = pc, !.done = d, !.late = l] \in Runner
  BY DEF Runner

LEMMA RunMoves ==
    ASSUME run \in [Runners -> Runner], NEW r \in Runners, NEW x \in Runner,
           run' = [run EXCEPT ![r] = x]
    PROVE  run' \in [Runners -> Runner]
  OBVIOUS

(* Every step keeps the types.                                             *)
LEMMA NextTypeOK == TypeOK /\ [Next]_vars => TypeOK'
<1> USE RehearsalAssumption DEF TypeOK
<1> SUFFICES ASSUME TypeOK, [Next]_vars PROVE TypeOK'
  OBVIOUS
<1>1. ASSUME NEW rec \in Records, Revoke(rec) PROVE TypeOK'
  BY <1>1 DEF Revoke
<1>2. ASSUME NEW n \in Nonces, Preflight(n) \/ Issue(n) PROVE TypeOK'
  BY <1>2 DEF Preflight, Issue
<1>3. ASSUME NEW r \in Runners, Load(r) PROVE TypeOK'
  <2>1. [NoRun EXCEPT !.pc = "loaded", !.nonce = current] \in Runner
    BY NoRunType DEF Runner
  <2> QED
    BY <1>3, <2>1 DEF Load, filesVars
<1>4. ASSUME NEW r \in Runners,
             ReadClock(r) \/ Verify(r) \/ Lock(r) \/ ReadLedger(r) \/ Unlock(r)
      PROVE  TypeOK'
  <2>1. \E x \in Runner : run' = [run EXCEPT ![r] = x]
    BY <1>4, RunnerMoves
       DEF ReadClock, Verify, Lock, ReadLedger, Unlock, Admission, Boundaries
  <2>2. run' \in [Runners -> Runner]
    BY <2>1, RunMoves
  <2> QED
    BY <1>4, <2>2 DEF ReadClock, Verify, Lock, ReadLedger, Unlock, filesVars
<1>5. ASSUME NEW r \in Runners, Consume(r) PROVE TypeOK'
  <2>1. run' \in [Runners -> Runner]
    BY <1>5, RunnerMoves, RunMoves DEF Consume
  <2>2. run[r].nonce \in Nonces \cup {None} /\ run[r].clock \in Nat
        /\ run[r].used \in [Nonces -> Nat]
    BY DEF Runner
  <2>3. Pruned(run[r].used, run[r].clock) \in [Nonces -> Nat]
    BY <2>2 DEF Pruned
  <2>4. ledger' \in [Nonces -> Nat]
    BY <1>5, <2>2, <2>3 DEF Consume
  <2>5. accepted' \in [Nonces -> Nat]
    <3>1. accepted' = [accepted EXCEPT ![run[r].nonce] = accepted[run[r].nonce] + 1]
      BY <1>5 DEF Consume
    <3>2. CASE run[r].nonce \in Nonces
      BY <3>1, <3>2
    <3>3. CASE run[r].nonce \notin Nonces
      BY <3>1, <3>3
    <3> QED
      BY <3>2, <3>3
  <2> QED
    BY <1>5, <2>1, <2>4, <2>5 DEF Consume, filesVars
<1>6. ASSUME NEW r \in Runners, PassBoundary(r) \/ Perform(r) PROVE TypeOK'
  <2>1. Following(run[r].pc) \in Stages \cup Boundaries \cup {"idle"}
    BY <1>6, FollowingType, FollowingStage DEF PassBoundary, Perform
  <2>2. run[r].done + 1 \in Nat /\ run[r].late + (IF Revoked THEN 1 ELSE 0) \in Nat
    BY DEF Runner
  <2>3. \E x \in Runner : run' = [run EXCEPT ![r] = x]
    <3>1. CASE PassBoundary(r)
      BY <3>1, <2>1, RunnerMoves DEF PassBoundary
    <3>2. CASE Perform(r)
      <4> DEFINE p == Following(run[r].pc)
                 l == run[r].late + (IF Revoked THEN 1 ELSE 0)
                 x == [run[r] EXCEPT !.pc = p, !.done = run[r].done + 1, !.late = l]
      <4>1. run' = [run EXCEPT ![r] = x]
        BY <3>2 DEF Perform
      <4>2. x \in Runner
        BY <2>1, <2>2, RunnerMoves
      <4> QED
        BY <4>1, <4>2
    <3> QED
      BY <1>6, <3>1, <3>2
  <2>4. run' \in [Runners -> Runner]
    BY <2>3, RunMoves
  <2> QED
    BY <1>6, <2>4 DEF PassBoundary, Perform, filesVars
<1>7. ASSUME NEW r \in Runners, Abort(r) PROVE TypeOK'
  BY <1>7, NoRunType DEF Abort, filesVars
<1>8. CASE Tick
  BY <1>8 DEF Tick, filesVars
<1>9. CASE UNCHANGED vars
  BY <1>9 DEF vars
<1> QED
  BY <1>1, <1>2, <1>3, <1>4, <1>5, <1>6, <1>7, <1>8, <1>9 DEF Next

LEMMA InitTypeOK == Init => TypeOK
  BY RehearsalAssumption, NoRunType DEF Init, TypeOK

(* Every variable of the rehearsal keeps its type.                         *)
THEOREM TypeCorrect == Spec => []TypeOK
  BY InitTypeOK, NextTypeOK, PTL DEF Spec

----------------------------------------------------------------------------
(* The nonce ledger                                                        *)

(* A clearance is issued once and before anybody runs under it.            *)
ClearanceInv ==
    /\ now > 0
    /\ \A n \in Nonces : issued[n] <= now
    /\ \A n \in cleared : issued[n] = 0
    /\ current \in Nonces => issued[current] # 0
    /\ \A r \in Runners :
          /\ run[r].pc # "idle" \/ run[r].done > 0 => run[r].nonce \in Nonces
          /\ run[r].nonce \in Nonces => issued[run[r].nonce] # 0

(* What a runner on its way to the ledger knows: its clock reading was in  *)
(* its clearance's window and is not too old, and what it read of the      *)
(* ledger, holding the lock, is still what is there.                       *)
Knows(r) ==
    LET p == run[r]
    IN  /\ p.pc \in Critical <=> holder = r
        /\ p.pc = "read" => p.used = ledger
        /\ p.pc \in Admission => p.clock <= now /\ now <= p.clock + MaxPause
        /\ p.pc \in Admission \ {"timed"} =>
             issued[p.nonce] <= p.clock /\ p.clock <= issued[p.nonce] + TTL

(* A nonce leaves the ledger only when its clearance is long expired.      *)
Remembered(n) ==
    /\ accepted[n] <= 1
    /\ accepted[n] = 0 => ledger[n] = 0
    /\ accepted[n] = 1 => /\ issued[n] # 0
                          /\ ledger[n] # 0 => issued[n] <= ledger[n]
                          /\ ledger[n] = 0 => issued[n] + Retention < now

AdmissionInv ==
    /\ \A r \in Runners : Knows(r)
    /\ \A n \in Nonces : Remembered(n)

(* A runner's step leaves its clearance, and every other runner, as they   *)
(* were, unless it begins or ends a run.                                   *)
Moves(r, pc) ==
    /\ \A q \in Runners : q # r => run'[q] = run[q]
    /\ run'[r].pc = pc
    /\ run'[r].nonce = run[r].nonce

Steady(r) ==
    /\ run'[r].clock = run[r].clock
    /\ run'[r].done = run[r].done
    /\ run'[r].late = run[r].late

LEMMA RunnerSteps ==
    ASSUME TypeOK, NEW r \in Runners
    PROVE  /\ ReadClock(r) => /\ Moves(r, "timed") /\ run'[r].clock = now
                              /\ run'[r].done = run[r].done /\ run'[r].late = run[r].late
           /\ Verify(r) => Moves(r, "verified") /\ Steady(r)
           /\ Lock(r) => Moves(r, "locked") /\ Steady(r)
           /\ ReadLedger(r) => Moves(r, "read") /\ Steady(r) /\ run'[r].used = ledger
           /\ Consume(r) => Moves(r, "consumed") /\ Steady(r)
           /\ Unlock(r) => Moves(r, "before_baseline") /\ Steady(r)
           /\ PassBoundary(r) => Moves(r, Following(run[r].pc)) /\ Steady(r)
           /\ Perform(r) => /\ Moves(r, Following(run[r].pc))
                            /\ run'[r].clock = run[r].clock
                            /\ run'[r].done = run[r].done + 1
                            /\ run'[r].late = run[r].late + (IF Revoked THEN 1 ELSE 0)
<1> run \in [Runners -> Runner] /\ run[r] \in Runner
  BY DEF TypeOK
<1>1. ReadClock(r) => /\ Moves(r, "timed") /\ run'[r].clock = now
                      /\ run'[r].done = run[r].done /\ run'[r].late = run[r].late
  BY DEF ReadClock, Moves, Runner
<1>8. Verify(r) => Moves(r, "verified") /\ Steady(r)
  BY DEF Verify, Moves, Steady, Runner
<1>2. Lock(r) => Moves(r, "locked") /\ Steady(r)
  BY DEF Lock, Moves, Steady, Runner
<1>3. ReadLedger(r) => Moves(r, "read") /\ Steady(r) /\ run'[r].used = ledger
  BY DEF ReadLedger, Moves, Steady, Runner
<1>4. Consume(r) => Moves(r, "consumed") /\ Steady(r)
  BY DEF Consume, Moves, Steady, Runner
<1>5. Unlock(r) => Moves(r, "before_baseline") /\ Steady(r)
  BY DEF Unlock, Moves, Steady, Runner
<1>6. PassBoundary(r) => Moves(r, Following(run[r].pc)) /\ Steady(r)
  BY DEF PassBoundary, Moves, Steady, Runner
<1>7. Perform(r) => /\ Moves(r, Following(run[r].pc))
                    /\ run'[r].clock = run[r].clock
                    /\ run'[r].done = run[r].done + 1
                    /\ run'[r].late = run[r].late + (IF Revoked THEN 1 ELSE 0)
  BY DEF Perform, Moves, Runner
<1> QED
  BY <1>1, <1>2, <1>3, <1>4, <1>5, <1>6, <1>7, <1>8

LEMMA RunEnds ==
    ASSUME TypeOK, NEW r \in Runners
    PROVE  /\ Load(r) => /\ \A q \in Runners : q # r => run'[q] = run[q]
                         /\ run'[r] = [NoRun EXCEPT !.pc = "loaded", !.nonce = current]
           /\ Abort(r) => /\ \A q \in Runners : q # r => run'[q] = run[q]
                          /\ run'[r] = NoRun
  BY DEF TypeOK, Load, Abort

LEMMA InitClearance == Init => ClearanceInv
  BY RehearsalAssumption DEF Init, ClearanceInv, NoRun

(* Every step keeps clearances issued once, before their use.              *)
LEMMA NextClearance == TypeOK /\ ClearanceInv /\ [Next]_vars => ClearanceInv'
<1> USE RehearsalAssumption
<1> SUFFICES ASSUME TypeOK, ClearanceInv, [Next]_vars PROVE ClearanceInv'
  OBVIOUS
<1>0. TypeOK'
  BY NextTypeOK
<1>1. ASSUME NEW rec \in Records, Revoke(rec) PROVE ClearanceInv'
  BY <1>1 DEF Revoke, ClearanceInv
<1>2. ASSUME NEW n \in Nonces, Preflight(n) PROVE ClearanceInv'
  BY <1>2 DEF Preflight, ClearanceInv
<1>3. ASSUME NEW n \in Nonces, Issue(n) PROVE ClearanceInv'
  BY <1>3 DEF Issue, ClearanceInv, TypeOK
<1>4. ASSUME NEW r \in Runners, Load(r) \/ Abort(r) PROVE ClearanceInv'
  <2>1. \A q \in Runners : q # r => run'[q] = run[q]
    BY <1>4, RunEnds
  <2>2. /\ run'[r].pc # "idle" \/ run'[r].done > 0 => run'[r].nonce \in Nonces
        /\ run'[r].nonce \in Nonces => issued[run'[r].nonce] # 0
    <3>1. CASE Load(r)
      BY <3>1, RunEnds DEF Load, NoRun, ClearanceInv, TypeOK
    <3>2. CASE Abort(r)
      BY <3>2, RunEnds DEF NoRun
    <3> QED
      BY <1>4, <3>1, <3>2
  <2> QED
    BY <1>4, <2>1, <2>2 DEF Load, Abort, filesVars, ClearanceInv
<1>5. ASSUME NEW r \in Runners,
             \/ ReadClock(r) \/ Verify(r) \/ Lock(r) \/ ReadLedger(r) \/ Consume(r) \/ Unlock(r)
             \/ PassBoundary(r) \/ Perform(r)
      PROVE  ClearanceInv'
  <2>1. UNCHANGED <<now, filesVars>>
    BY <1>5 DEF ReadClock, Verify, Lock, ReadLedger, Consume, Unlock, PassBoundary, Perform
  <2>2. \E pc : Moves(r, pc)
    BY <1>5, RunnerSteps
  <2>3. run[r].pc # "idle"
    BY <1>5 DEF ReadClock, Verify, Lock, ReadLedger, Consume, Unlock, PassBoundary, Perform,
                Boundaries, Stages
  <2> QED
    BY <2>1, <2>2, <2>3 DEF Moves, filesVars, ClearanceInv
<1>6. CASE Tick \/ UNCHANGED vars
  BY <1>6 DEF Tick, vars, filesVars, ClearanceInv, TypeOK
<1> QED
  BY <1>1, <1>2, <1>3, <1>4, <1>5, <1>6 DEF Next

(* What a step of one runner leaves of what the others know.               *)
LEMMA OthersKnow ==
    ASSUME NEW r \in Runners, NEW q \in Runners, q # r, Knows(q),
           run'[q] = run[q], UNCHANGED <<now, issued>>,
           \/ UNCHANGED holder
           \/ holder = None /\ holder' = r
           \/ holder = r /\ holder' = None,
           run[q].pc = "read" => ledger' = ledger
    PROVE  Knows(q)'
  BY RehearsalAssumption DEF Knows, Critical

LEMMA InitAdmission == Init => AdmissionInv
  BY RehearsalAssumption DEF Init, AdmissionInv, Knows, Remembered, NoRun, Critical, Admission

(* A step of a runner but Consume leaves every nonce as it was.            *)
LEMMA StillRemembered ==
    ASSUME \A n \in Nonces : Remembered(n), UNCHANGED <<now, issued, ledger, accepted>>
    PROVE  \A n \in Nonces : Remembered(n)'
  BY DEF Remembered

(* Every step, of any runner, of preflight or of the clock, keeps it.      *)
LEMMA NextAdmission ==
    TypeOK /\ ClearanceInv /\ AdmissionInv /\ [Next]_vars => AdmissionInv'
<1> USE RehearsalAssumption
<1> SUFFICES ASSUME TypeOK, ClearanceInv, AdmissionInv, [Next]_vars PROVE AdmissionInv'
  OBVIOUS
<1>a. \A r \in Runners : Knows(r)
  BY DEF AdmissionInv
<1>b. \A n \in Nonces : Remembered(n)
  BY DEF AdmissionInv
<1>1. CASE (\E rec \in Records : Revoke(rec)) \/ (\E n \in Nonces : Preflight(n))
  BY <1>1 DEF Revoke, Preflight, AdmissionInv, Knows, Remembered
<1>2. ASSUME NEW n \in Nonces, Issue(n) PROVE AdmissionInv'
  <2>1. issued[n] = 0 /\ \A m \in Nonces : m # n => issued'[m] = issued[m]
    BY <1>2 DEF Issue, ClearanceInv, TypeOK
  <2>2. ASSUME NEW r \in Runners PROVE Knows(r)'
    <3>1. run[r].pc \in Admission => run[r].nonce \in Nonces /\ run[r].nonce # n
      BY <2>1 DEF ClearanceInv, Admission
    <3> QED
      BY <1>2, <1>a, <2>1, <3>1 DEF Issue, Knows
  <2>3. ASSUME NEW m \in Nonces PROVE Remembered(m)'
    BY <1>2, <1>b, <2>1 DEF Issue, Remembered, TypeOK
  <2> QED
    BY <2>2, <2>3 DEF AdmissionInv
<1>3. ASSUME NEW r \in Runners,
             \/ Load(r) \/ ReadClock(r) \/ Verify(r) \/ Lock(r) \/ ReadLedger(r) \/ Unlock(r)
             \/ PassBoundary(r) \/ Perform(r) \/ Abort(r)
      PROVE  AdmissionInv'
  <2>1. UNCHANGED <<now, filesVars, ledger, accepted>>
    BY <1>3 DEF Load, ReadClock, Verify, Lock, ReadLedger, Unlock, PassBoundary, Perform, Abort
  <2>2. \A n \in Nonces : Remembered(n)'
    BY <1>b, <2>1, StillRemembered DEF filesVars
  <2>3. \A q \in Runners : q # r => run'[q] = run[q]
    BY <1>3, RunnerSteps, RunEnds DEF Moves
  <2>4. \/ UNCHANGED holder
        \/ holder = None /\ holder' = r
        \/ holder = r /\ holder' = None
    BY <1>3, <1>a
       DEF Load, ReadClock, Verify, Lock, ReadLedger, Unlock, PassBoundary, Perform, Abort,
           Knows, Critical
  <2>5. ASSUME NEW q \in Runners, q # r PROVE Knows(q)'
    BY <1>a, <2>1, <2>3, <2>4, <2>5, OthersKnow DEF filesVars
  <2>6. Knows(r)'
    <3>1. CASE Load(r) \/ Abort(r)
      <4>1. run'[r].pc \in {"idle", "loaded"} /\ holder' # r
        <5>1. CASE Load(r)
          <6>1. holder' # r
            BY <5>1, <1>a DEF Load, Knows, Critical
          <6> QED
            BY <5>1, <6>1, RunEnds DEF NoRun
        <5>2. CASE Abort(r)
          <6>1. holder' # r
            BY <5>2 DEF Abort
          <6> QED
            BY <5>2, <6>1, RunEnds DEF NoRun
        <5> QED
          BY <3>1, <5>1, <5>2
      <4> QED
        BY <4>1 DEF Knows, Critical, Admission
    <3>2. CASE ReadClock(r)
      <4>1. holder' = holder /\ holder # r /\ run'[r].pc = "timed"
        BY <3>2, <1>a, RunnerSteps DEF ReadClock, Moves, Knows, Critical
      <4>2. run'[r].clock = now /\ now' = now /\ now \in Nat
        BY <3>2, RunnerSteps DEF ReadClock, TypeOK
      <4> QED
        BY <4>1, <4>2 DEF Knows, Critical, Admission
    <3>5. CASE Verify(r)
      <4>1. holder' = holder /\ holder # r /\ run'[r].pc = "verified"
        BY <3>5, <1>a, RunnerSteps DEF Verify, Moves, Knows, Critical
      <4>2. /\ run'[r].clock = run[r].clock /\ run'[r].nonce = run[r].nonce
            /\ now' = now /\ issued' = issued
            /\ run[r].clock <= now /\ now <= run[r].clock + MaxPause
            /\ issued[run[r].nonce] <= run[r].clock
            /\ run[r].clock <= issued[run[r].nonce] + TTL
        BY <3>5, <1>a, RunnerSteps DEF Verify, Moves, Steady, filesVars, Knows, Admission
      <4> QED
        BY <4>1, <4>2 DEF Knows, Critical, Admission
    <3>3. CASE Lock(r) \/ ReadLedger(r)
      <4>1. /\ run[r].pc \in {"verified", "locked"}
            /\ holder' = r
            /\ run'[r].pc \in {"locked", "read"}
            /\ run'[r].pc = "read" => run'[r].used = ledger'
        BY <3>3, <1>a, RunnerSteps DEF Lock, ReadLedger, Moves, Knows, Critical
      <4>2. /\ run'[r].clock = run[r].clock /\ run'[r].nonce = run[r].nonce
            /\ now' = now /\ issued' = issued
        BY <3>3, RunnerSteps DEF Lock, ReadLedger, Moves, Steady, filesVars
      <4>3. /\ run[r].clock <= now /\ now <= run[r].clock + MaxPause
            /\ issued[run[r].nonce] <= run[r].clock
            /\ run[r].clock <= issued[run[r].nonce] + TTL
        BY <4>1, <1>a DEF Knows, Admission
      <4> QED
        BY <4>1, <4>2, <4>3 DEF Knows, Critical
    <3>6. CASE Unlock(r)
      <4>1. holder' = None /\ run'[r].pc = "before_baseline"
        BY <3>6, RunnerSteps DEF Unlock, Moves
      <4> QED
        BY <4>1 DEF Knows, Critical, Admission
    <3>4. CASE PassBoundary(r) \/ Perform(r)
      <4>1. run[r].pc \notin Critical /\ Following(run[r].pc) \notin Critical \cup Admission
        BY <3>4, FollowingType, FollowingStage
           DEF PassBoundary, Perform, Critical, Admission, Stages, Boundaries
      <4> QED
        BY <3>4, <1>a, <4>1, RunnerSteps
           DEF PassBoundary, Perform, Moves, Knows, Critical, Admission
    <3> QED
      BY <1>3, <3>1, <3>2, <3>3, <3>4, <3>5, <3>6
  <2> QED
    BY <2>2, <2>5, <2>6 DEF AdmissionInv
<1>4. ASSUME NEW r \in Runners, Consume(r) PROVE AdmissionInv'
  <2> DEFINE n == run[r].nonce
             c == run[r].clock
  <2>1. /\ holder = r /\ run[r].used = ledger
        /\ n \in Nonces /\ ledger[n] = 0
        /\ issued[n] <= c /\ c <= issued[n] + TTL /\ c <= now /\ now <= c + MaxPause
        /\ c \in Nat /\ issued[n] # 0
    BY <1>4, <1>a DEF Consume, Knows, Critical, Admission, ClearanceInv, TypeOK, Runner
  <2>2. accepted[n] = 0
    BY <1>b, <2>1 DEF Remembered, TypeOK
  <2>3. ASSUME NEW m \in Nonces PROVE Remembered(m)'
    <3>1. UNCHANGED <<now, issued>>
      BY <1>4 DEF Consume, filesVars
    <3>2. CASE m = n
      <4>1. ledger'[m] = c /\ accepted'[m] = 1
        BY <1>4, <2>1, <2>2, <3>2 DEF Consume, Pruned, TypeOK
      <4>2. issued[m] \in Nat
        BY DEF TypeOK
      <4> QED
        BY <2>1, <3>1, <3>2, <4>1, <4>2 DEF Remembered
    <3>3. CASE m # n
      <4>1. /\ accepted'[m] = accepted[m]
            /\ ledger'[m] = IF c <= ledger[m] + Retention THEN ledger[m] ELSE 0
        BY <1>4, <2>1, <3>3 DEF Consume, Pruned, TypeOK
      <4>2. issued[m] \in Nat /\ ledger[m] \in Nat /\ now \in Nat /\ accepted[m] \in Nat
        BY DEF TypeOK
      <4> QED
        BY <1>b, <2>1, <3>1, <4>1, <4>2 DEF Remembered
    <3> QED
      BY <3>2, <3>3
  <2>4. ASSUME NEW q \in Runners, q # r PROVE Knows(q)'
    <3>1. run[q].pc # "read"
      BY <1>a, <2>1, <2>4 DEF Knows, Critical
    <3> QED
      BY <1>4, <1>a, <2>4, <3>1, OthersKnow, RunnerSteps DEF Consume, Moves, filesVars
  <2>5. Knows(r)'
    BY <1>4, <2>1, RunnerSteps DEF Consume, Moves, Knows, Critical, Admission
  <2> QED
    BY <2>3, <2>4, <2>5 DEF AdmissionInv
<1>5. CASE Tick
  <2>1. \A r \in Runners : Knows(r)'
    BY <1>5, <1>a DEF Tick, filesVars, Knows, TypeOK, Runner
  <2>2. \A n \in Nonces : Remembered(n)'
    BY <1>5, <1>b DEF Tick, filesVars, Remembered, TypeOK
  <2> QED
    BY <2>1, <2>2 DEF AdmissionInv
<1>6. CASE UNCHANGED vars
  BY <1>6 DEF vars, AdmissionInv, Knows, Remembered
<1> QED
  BY <1>1, <1>2, <1>3, <1>4, <1>5, <1>6 DEF Next

(* The ledger's invariant holds in every reachable state.                  *)
LEMMA Admitted == Spec => [](TypeOK /\ ClearanceInv /\ AdmissionInv)
  BY InitTypeOK, NextTypeOK, InitClearance, NextClearance, InitAdmission, NextAdmission,
     PTL DEF Spec

(* The ledger's lock is held by the runner at work on the ledger and by    *)
(* nobody else, and by nobody when that runner was refused or died.        *)
THEOREM LockFollows == Spec => []LockFollowsWriter
<1>1. AdmissionInv => LockFollowsWriter
  BY DEF AdmissionInv, Knows, LockFollowsWriter
<1> QED
  BY <1>1, Admitted, PTL

(* A clearance admits at most one run, however many runners present it     *)
(* and wherever they are overtaken.                                        *)
THEOREM AcceptedOnce == Spec => []NonceAcceptedOnce
<1>1. AdmissionInv => NonceAcceptedOnce
  BY DEF AdmissionInv, Remembered, NonceAcceptedOnce
<1> QED
  BY <1>1, Admitted, PTL

(* Retention longer than the clearance's life and the longest pause keeps  *)
(* a spent nonce in the ledger for as long as anybody could present it.    *)
THEOREM LiveRemembered == Spec => []LiveNonceRemembered
<1>1. TypeOK /\ AdmissionInv => LiveNonceRemembered
  <2> SUFFICES ASSUME TypeOK, AdmissionInv, NEW n \in Nonces, accepted[n] > 0,
                      now <= issued[n] + TTL + MaxPause, ledger[n] = 0
               PROVE  FALSE
    BY DEF LiveNonceRemembered
  <2>1. accepted[n] = 1 /\ issued[n] + Retention < now
    BY DEF AdmissionInv, Remembered, TypeOK
  <2> QED
    BY <2>1, RehearsalAssumption DEF TypeOK
<1> QED
  BY <1>1, Admitted, PTL

(* No runner's write loses an entry another runner's replay check needs.   *)
THEOREM OnlyAgedLeave == Spec => OnlyAgedNoncesLeave
<1> DEFINE Aged == \A n \in Nonces : ledger[n] # 0 /\ ledger'[n] = 0 =>
                                         ledger[n] + Retention < now
<1>1. TypeOK /\ AdmissionInv /\ [Next]_vars => [Aged]_vars
  <2> SUFFICES ASSUME TypeOK, AdmissionInv, Next,
                      NEW n \in Nonces, ledger[n] # 0, ledger'[n] = 0
               PROVE  ledger[n] + Retention < now
    OBVIOUS
  <2>1. PICK r \in Runners : Consume(r)
    BY DEF Next, Revoke, Preflight, Issue, Load, ReadClock, Verify, Lock, ReadLedger, Unlock,
           PassBoundary, Perform, Abort, Tick
  <2>2. Knows(r) /\ run[r].pc = "read"
    BY <2>1 DEF AdmissionInv, Consume
  <2>3. run[r].used = ledger /\ run[r].clock <= now
    BY <2>2 DEF Knows, Admission
  <2>4. run[r].clock \in Nat /\ ledger[n] \in Nat /\ now \in Nat
    BY DEF TypeOK, Runner
  <2>5. run[r].nonce # n
    BY <2>1, <2>3 DEF Consume
  <2>6. ledger'[n] = IF run[r].clock <= ledger[n] + Retention THEN ledger[n] ELSE 0
    BY <2>1, <2>3, <2>5 DEF Consume, Pruned, TypeOK
  <2> QED
    BY <2>3, <2>4, <2>6, RehearsalAssumption
<1> QED
  BY <1>1, Admitted, PTL DEF Spec, OnlyAgedNoncesLeave

----------------------------------------------------------------------------
(* Revocation                                                              *)

(* What a runner has done, against the revocations in force when it was    *)
(* admitted and since.                                                     *)
Bounded(r) ==
    LET p == run[r]
    IN  /\ p.pc \in Admission \cup {"loaded", "consumed", "before_baseline"} =>
             p.done = 0 /\ p.late = 0
        /\ p.pc \in Stages => p.late = 0
        /\ p.late > 0 => Revoked
        /\ p.late <= 1

(* It began under a clearance that nothing it was pinned to revoked.       *)
Cleared(r) ==
    LET p == run[r]
    IN  /\ p.pc \notin {"idle", "loaded"} => p.clock <= now
        /\ p.done > 0 \/ p.pc \in Stages => ~RevokedBy(pinned[p.nonce], p.clock)

ExecutionInv ==
    /\ \A n \in Nonces : pinned[n] \subseteq revocations
    /\ \A r \in Runners : Bounded(r) /\ Cleared(r)

(* A revocation is never withdrawn.                                        *)
LEMMA RevocationStays ==
    ASSUME NEW A \in SUBSET Records, NEW B \in SUBSET Records, A \subseteq B,
           NEW t \in Nat, NEW u \in Nat, t <= u, RevokedBy(A, t)
    PROVE  RevokedBy(B, u)
<1>1. PICK rec \in A : rec.ours /\ rec.at <= t
  BY DEF RevokedBy
<1>2. rec \in B /\ rec.at \in Nat
  BY RehearsalAssumption
<1>3. rec.at <= u
  BY <1>1, <1>2
<1> QED
  BY <1>1, <1>2, <1>3 DEF RevokedBy

(* Pins, records and the clock only grow, and a pin is written once, so a  *)
(* runner that does not move keeps what is known of it.                    *)
LEMMA StillBounded ==
    ASSUME TypeOK, TypeOK', ClearanceInv, NEW r \in Runners, Bounded(r), Cleared(r),
           run'[r] = run[r], revocations \subseteq revocations', now <= now',
           \A n \in Nonces : issued[n] # 0 => pinned'[n] = pinned[n]
    PROVE  Bounded(r)' /\ Cleared(r)'
<1>1. Revoked => Revoked'
  BY RevocationStays DEF TypeOK, Revoked
<1>2. run[r].clock <= now => run[r].clock <= now'
  BY DEF TypeOK, Runner
<1>3. run[r].done > 0 \/ run[r].pc \in Stages => pinned'[run[r].nonce] = pinned[run[r].nonce]
  BY DEF ClearanceInv, Stages
<1>4. Bounded(r)'
  BY <1>1 DEF Bounded
<1>5. Cleared(r)'
  BY <1>2, <1>3 DEF Cleared, RevokedBy
<1> QED
  BY <1>4, <1>5

LEMMA InitExecution == Init => ExecutionInv
  BY RehearsalAssumption
     DEF Init, ExecutionInv, Bounded, Cleared, NoRun, Admission, Stages

(* Every step keeps it.                                                    *)
LEMMA NextExecution ==
    TypeOK /\ ClearanceInv /\ ExecutionInv /\ [Next]_vars => ExecutionInv'
<1> SUFFICES ASSUME TypeOK, ClearanceInv, ExecutionInv, [Next]_vars PROVE ExecutionInv'
  OBVIOUS
<1>0. TypeOK'
  BY NextTypeOK
<1>a. \A r \in Runners : Bounded(r) /\ Cleared(r)
  BY DEF ExecutionInv
<1>b. \A n \in Nonces : pinned[n] \subseteq revocations
  BY DEF ExecutionInv
<1>1. CASE \/ \E rec \in Records : Revoke(rec)
           \/ \E n \in Nonces : Preflight(n) \/ Issue(n)
           \/ Tick
           \/ UNCHANGED vars
  <2>1. run' = run /\ revocations \subseteq revocations' /\ now <= now'
    BY <1>1 DEF Revoke, Preflight, Issue, Tick, vars, filesVars, TypeOK
  <2>2. \A n \in Nonces : issued[n] # 0 => pinned'[n] = pinned[n]
    BY <1>1 DEF Revoke, Preflight, Issue, Tick, vars, filesVars, TypeOK, ClearanceInv
  <2>3. \A n \in Nonces : pinned'[n] \subseteq revocations'
    BY <1>1, <1>b, <2>1 DEF Revoke, Preflight, Issue, Tick, vars, filesVars, TypeOK
  <2>4. \A r \in Runners : Bounded(r)' /\ Cleared(r)'
    BY <1>0, <1>a, <2>1, <2>2, StillBounded
  <2> QED
    BY <2>3, <2>4 DEF ExecutionInv
<1>2. ASSUME NEW r \in Runners,
             \/ Load(r) \/ ReadClock(r) \/ Verify(r) \/ Lock(r) \/ ReadLedger(r)
             \/ Consume(r) \/ Unlock(r) \/ PassBoundary(r) \/ Perform(r) \/ Abort(r)
      PROVE  ExecutionInv'
  <2>1. UNCHANGED <<now, revocations, issued, pinned>>
    BY <1>2 DEF Load, ReadClock, Verify, Lock, ReadLedger, Consume, Unlock, PassBoundary,
                Perform, Abort, filesVars
  <2>2. \A q \in Runners : q # r => run'[q] = run[q]
    BY <1>2, RunnerSteps, RunEnds DEF Moves
  <2>3. ASSUME NEW q \in Runners, q # r PROVE Bounded(q)' /\ Cleared(q)'
    <3>1. now <= now'
      BY <2>1 DEF TypeOK
    <3> QED
      BY <1>0, <1>a, <2>1, <2>2, <2>3, <3>1, StillBounded
  <2>4. Revoked' = Revoked
    BY <2>1 DEF Revoked, RevokedBy
  <2>5. Bounded(r)' /\ Cleared(r)'
    <3>1. CASE Load(r) \/ Abort(r)
      <4>1. /\ run'[r].pc \in {"idle", "loaded"}
            /\ run'[r].done = 0 /\ run'[r].late = 0
        <5>1. CASE Load(r)
          BY <5>1, RunEnds DEF NoRun
        <5>2. CASE Abort(r)
          BY <5>2, RunEnds DEF NoRun
        <5> QED
          BY <3>1, <5>1, <5>2
      <4> QED
        BY <4>1 DEF Bounded, Cleared, Stages
    <3>2. CASE ReadClock(r)
      <4>1. /\ run'[r].pc = "timed" /\ run'[r].clock = now
            /\ run'[r].done = 0 /\ run'[r].late = 0
        BY <1>a, <3>2, RunnerSteps DEF ReadClock, Moves, Bounded
      <4> QED
        BY <4>1, <2>1 DEF Bounded, Cleared, Stages, TypeOK
    <3>3. CASE Verify(r) \/ Lock(r) \/ ReadLedger(r) \/ Consume(r) \/ Unlock(r)
      <4>1. /\ run'[r].pc \in {"verified", "locked", "read", "consumed", "before_baseline"}
            /\ Steady(r)
        BY <3>3, RunnerSteps DEF Moves
      <4>2. run[r].pc \in {"timed", "verified", "locked", "read", "consumed"}
        BY <3>3 DEF Verify, Lock, ReadLedger, Consume, Unlock
      <4>3. run[r].done = 0 /\ run[r].late = 0 /\ run[r].clock <= now
        BY <1>a, <4>2 DEF Bounded, Cleared, Admission
      <4> QED
        BY <4>1, <4>3, <2>1 DEF Steady, Bounded, Cleared, Stages
    <3>4. CASE PassBoundary(r)
      <4>1. /\ run[r].pc \in Boundaries /\ ~Revoked
            /\ run[r].late = 0 /\ run[r].clock <= now /\ run[r].nonce \in Nonces
        BY <1>a, <3>4 DEF PassBoundary, Bounded, Cleared, Boundaries, ClearanceInv, TypeOK, Runner
      <4>2. run'[r].pc \in Stages \cup (Boundaries \ {"before_baseline"})
        BY <3>4, <4>1, RunnerSteps DEF Moves, Following, Boundaries, Stages
      <4>3. run'[r].nonce = run[r].nonce /\ Steady(r)
        BY <3>4, RunnerSteps DEF Moves
      <4>4. ~RevokedBy(pinned[run[r].nonce], run[r].clock)
        BY <1>b, <4>1, RevocationStays DEF Revoked, TypeOK, Runner
      <4>5. Bounded(r)'
        BY <4>1, <4>2, <4>3 DEF Steady, Bounded, Boundaries, Stages, Admission
      <4>6. Cleared(r)'
        BY <4>1, <4>2, <4>3, <4>4, <2>1 DEF Steady, Cleared, RevokedBy
      <4> QED
        BY <4>5, <4>6
    <3>5. CASE Perform(r)
      <4>1. /\ run[r].pc \in Stages /\ run[r].late = 0 /\ run[r].clock <= now
            /\ ~RevokedBy(pinned[run[r].nonce], run[r].clock)
        BY <1>a, <3>5 DEF Perform, Bounded, Cleared, Stages
      <4>2. run'[r].pc \in (Boundaries \ {"before_baseline"}) \cup {"idle"}
        BY <3>5, <4>1, RunnerSteps DEF Moves, Following, Boundaries, Stages
      <4>3. /\ run'[r].nonce = run[r].nonce /\ run'[r].clock = run[r].clock
            /\ run'[r].late = IF Revoked THEN 1 ELSE 0
        BY <3>5, <4>1, RunnerSteps DEF Moves
      <4>4. Bounded(r)'
        BY <4>2, <4>3, <2>4 DEF Bounded, Boundaries, Stages, Admission
      <4>5. Cleared(r)'
        BY <4>1, <4>3, <2>1 DEF Cleared, RevokedBy
      <4> QED
        BY <4>4, <4>5
    <3> QED
      BY <1>2, <3>1, <3>2, <3>3, <3>4, <3>5
  <2>6. \A n \in Nonces : pinned'[n] \subseteq revocations'
    BY <1>b, <2>1
  <2> QED
    BY <2>3, <2>5, <2>6 DEF ExecutionInv
<1> QED
  BY <1>1, <1>2 DEF Next

(* However a revocation falls between a runner's steps, at most the stage  *)
(* it is in is still performed, and none under a clearance that was        *)
(* already revoked when it was verified.                                   *)
THEOREM RevocationStops == Spec => []RevocationStopsRun
<1>1. ExecutionInv => RevocationStopsRun
  BY DEF ExecutionInv, Bounded, Cleared, RevocationStopsRun
<1> QED
  BY <1>1, InitTypeOK, NextTypeOK, InitClearance, NextClearance, InitExecution, NextExecution,
     PTL DEF Spec

============================================================================
