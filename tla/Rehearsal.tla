------------------------------ MODULE Rehearsal ------------------------------
(***************************************************************************)
(* The exercise runner (exercise/): preflight clears an exercise and signs *)
(* a short-lived, single-use clearance; the runner verifies it, spends its *)
(* nonce in a file-backed ledger, and then executes its stages, asking for *)
(* revocations again at every safety boundary.                             *)
(*                                                                         *)
(* Each runner is a process of its own.  Processes share three files: the  *)
(* current clearance, the revocation list and the nonce ledger; only the   *)
(* ledger has a lock, an advisory one the operating system releases when   *)
(* its holder dies.  A runner decides on expiry by a clock it read before  *)
(* it waited for that lock, so how long it may be paused in between is a   *)
(* parameter: retention must cover it.                                     *)
(*                                                                         *)
(* Signatures, key roles, the manifest, the boundaries of the environment  *)
(* and the readiness gates do not change while an exercise runs: they are  *)
(* taken to hold, and a document that fails them is one Abort.             *)
(***************************************************************************)
EXTENDS Naturals, FiniteSets

CONSTANTS Runners,     \* runner processes
          Nonces,      \* a clearance is named by its nonce
          None

CONSTANTS TTL,         \* CLEARANCE_TTL_SECONDS
          Retention,   \* NONCE_RETENTION_SECONDS
          MaxEntries,  \* NONCE_LEDGER_MAX_ENTRIES
          MaxPause,    \* longest time from a runner's clock reading to its ledger write
          AuthEnd,     \* expires_at of White's authorization
          Records,     \* bound: the revocation records that may be published
          MaxTime      \* bound: the clock stops here

(* Retention > TTL is what clearance.py asserts when it is imported; that  *)
(* it also covers a pause is what its comment calls a wide safety margin.  *)
ASSUME RehearsalAssumption ==
    /\ None \notin Runners \cup Nonces
    /\ TTL \in Nat \ {0}
    /\ Retention \in Nat /\ Retention > TTL
    /\ MaxEntries \in Nat \ {0}
    /\ MaxPause \in Nat
    /\ TTL + MaxPause <= Retention
    /\ AuthEnd \in Nat
    /\ Records \subseteq [at : Nat, ours : BOOLEAN]
    /\ MaxTime \in Nat

VARIABLES now,          \* the clock; 0 stands for "never"
          revocations,  \* config/revocations.json: when each record takes effect, and for whom
          cleared,      \* nonces of the preflights that passed and have yet to sign
          issued,       \* issued_at of each clearance
          pinned,       \* revocation_list_digest of each clearance
          current,      \* evidence/clearance.json: the last clearance written
          ledger,       \* evidence/used_nonces.json: when each nonce was used
          holder,       \* who holds used_nonces.json.lock
          accepted,     \* history: how many runners spent each nonce
          run           \* the runners

vars == <<now, revocations, cleared, issued, pinned, current, ledger, holder, accepted, run>>
filesVars == <<revocations, cleared, issued, pinned, current>>

Boundaries == {"before_baseline", "after_baseline", "before_retest", "before_evidence_write"}
Stages == {"baseline", "retest", "evidence"}

(* Where a runner goes once it has passed a boundary or finished a stage.  *)
Following(pc) ==
    CASE pc = "before_baseline"       -> "baseline"
      [] pc = "baseline"              -> "after_baseline"
      [] pc = "after_baseline"        -> "before_retest"
      [] pc = "before_retest"         -> "retest"
      [] pc = "retest"                -> "before_evidence_write"
      [] pc = "before_evidence_write" -> "evidence"
      [] OTHER                        -> "idle"

(* From the clock reading to the ledger write, and under the lock.         *)
Admission == {"timed", "verified", "locked", "read"}
Critical == {"locked", "read", "consumed"}

(* done and late count the stages a run performed, in all and after a      *)
(* revocation had taken effect.                                            *)
NoRun == [pc |-> "idle", nonce |-> None, clock |-> 0, used |-> [n \in Nonces |-> 0],
          done |-> 0, late |-> 0]

Init ==
    /\ now = 1
    /\ revocations = {}
    /\ cleared = {}
    /\ issued = [n \in Nonces |-> 0]
    /\ pinned = [n \in Nonces |-> {}]
    /\ current = None
    /\ ledger = [n \in Nonces |-> 0]
    /\ holder = None
    /\ accepted = [n \in Nonces |-> 0]
    /\ run = [r \in Runners |-> NoRun]

(* A record revokes this exercise from its effective time on.              *)
RevokedBy(list, time) == \E rec \in list : rec.ours /\ rec.at <= time
Revoked == RevokedBy(revocations, now)

----------------------------------------------------------------------------
(* White and preflight                                                     *)

Revoke(rec) ==
    /\ revocations' = revocations \cup {rec}
    /\ UNCHANGED <<now, cleared, issued, pinned, current, ledger, holder, accepted, run>>

Preflight(n) ==
    /\ n \notin cleared
    /\ issued[n] = 0
    /\ now <= AuthEnd
    /\ ~Revoked
    /\ cleared' = cleared \cup {n}
    /\ UNCHANGED <<now, revocations, issued, pinned, current, ledger, holder, accepted, run>>

(* The list is read again to be pinned, not to be checked again.           *)
Issue(n) ==
    /\ n \in cleared
    /\ cleared' = cleared \ {n}
    /\ issued' = [issued EXCEPT ![n] = now]
    /\ pinned' = [pinned EXCEPT ![n] = revocations]
    /\ current' = n
    /\ UNCHANGED <<now, revocations, ledger, holder, accepted, run>>

----------------------------------------------------------------------------
(* The runner: admission                                                   *)

Load(r) ==
    /\ run[r].pc = "idle"
    /\ now <= AuthEnd
    /\ current # None
    /\ run' = [run EXCEPT ![r] = [NoRun EXCEPT !.pc = "loaded", !.nonce = current]]
    /\ UNCHANGED <<now, filesVars, ledger, holder, accepted>>

(* The clock is read once: expiry, pruning and the ledger entry use it.    *)
ReadClock(r) ==
    /\ run[r].pc = "loaded"
    /\ run' = [run EXCEPT ![r] = [@ EXCEPT !.pc = "timed", !.clock = now]]
    /\ UNCHANGED <<now, filesVars, ledger, holder, accepted>>

Verify(r) ==
    LET p == run[r]
    IN  /\ p.pc = "timed"
        /\ pinned[p.nonce] = revocations
        /\ issued[p.nonce] <= p.clock /\ p.clock <= issued[p.nonce] + TTL
        /\ run' = [run EXCEPT ![r].pc = "verified"]
        /\ UNCHANGED <<now, filesVars, ledger, holder, accepted>>

(* Slip: the read and the write of the ledger are not under a lock.        *)
LockShared(r) ==
    /\ run[r].pc = "verified"
    /\ run' = [run EXCEPT ![r].pc = "locked"]
    /\ UNCHANGED <<now, filesVars, ledger, holder, accepted>>

Lock(r) ==
    /\ run[r].pc = "verified"
    /\ holder = None
    /\ holder' = r
    /\ run' = [run EXCEPT ![r].pc = "locked"]
    /\ UNCHANGED <<now, filesVars, ledger, accepted>>

ReadLedger(r) ==
    /\ run[r].pc = "locked"
    /\ run' = [run EXCEPT ![r] = [@ EXCEPT !.pc = "read", !.used = ledger]]
    /\ UNCHANGED <<now, filesVars, ledger, holder, accepted>>

Pruned(used, clock) ==
    [n \in Nonces |-> IF clock <= used[n] + Retention THEN used[n] ELSE 0]

Entries(used) == {n \in Nonces : used[n] # 0}

HasRoom(used) == Cardinality(Entries(used)) < MaxEntries

(* A nonce in the ledger, however old, is a replay: it is looked up before *)
(* the ledger is pruned.                                                   *)
Consume(r) ==
    LET n == run[r].nonce
        kept == Pruned(run[r].used, run[r].clock)
    IN  /\ run[r].pc = "read"
        /\ run[r].used[n] = 0
        /\ HasRoom(kept)
        /\ ledger' = [kept EXCEPT ![n] = run[r].clock]
        /\ accepted' = [accepted EXCEPT ![n] = accepted[n] + 1]
        /\ run' = [run EXCEPT ![r].pc = "consumed"]
        /\ UNCHANGED <<now, filesVars, holder>>

Unlock(r) ==
    /\ run[r].pc = "consumed"
    /\ holder' = None
    /\ run' = [run EXCEPT ![r].pc = "before_baseline"]
    /\ UNCHANGED <<now, filesVars, ledger, accepted>>

----------------------------------------------------------------------------
(* The runner: execution                                                   *)

(* Slip: the revocation list is not consulted again.                       *)
PassBoundaryBlind(r) ==
    /\ run[r].pc \in Boundaries
    /\ run' = [run EXCEPT ![r].pc = Following(@)]
    /\ UNCHANGED <<now, filesVars, ledger, holder, accepted>>

PassBoundary(r) ==
    /\ run[r].pc \in Boundaries
    /\ ~Revoked
    /\ run' = [run EXCEPT ![r].pc = Following(@)]
    /\ UNCHANGED <<now, filesVars, ledger, holder, accepted>>

Perform(r) ==
    LET p == run[r]
    IN  /\ p.pc \in Stages
        /\ run' = [run EXCEPT ![r] = [p EXCEPT
                      !.pc = Following(p.pc), !.done = p.done + 1,
                      !.late = p.late + (IF Revoked THEN 1 ELSE 0)]]
        /\ UNCHANGED <<now, filesVars, ledger, holder, accepted>>

(* A refusal (expired, replayed, revoked, ledger full or unreadable, lock  *)
(* not to be had in time) or the death of the process.  The nonce, once    *)
(* spent, stays spent.                                                     *)
Abort(r) ==
    /\ run[r].pc # "idle"
    /\ run' = [run EXCEPT ![r] = NoRun]
    /\ holder' = IF holder = r THEN None ELSE holder
    /\ UNCHANGED <<now, filesVars, ledger, accepted>>

Tick ==
    /\ now < MaxTime
    /\ \A r \in Runners : run[r].pc \in Admission => now < run[r].clock + MaxPause
    /\ now' = now + 1
    /\ UNCHANGED <<filesVars, ledger, holder, accepted, run>>

Next ==
    \/ \E rec \in Records : Revoke(rec)
    \/ \E n \in Nonces : Preflight(n) \/ Issue(n)
    \/ \E r \in Runners :
          \/ Load(r) \/ ReadClock(r) \/ Verify(r) \/ Lock(r) \/ ReadLedger(r)
          \/ Consume(r) \/ Unlock(r) \/ PassBoundary(r) \/ Perform(r) \/ Abort(r)
    \/ Tick

Spec == Init /\ [][Next]_vars

----------------------------------------------------------------------------
(* Properties                                                              *)

Runner == [pc : {"idle", "loaded", "consumed"} \cup Admission \cup Boundaries \cup Stages,
           nonce : Nonces \cup {None}, clock : Nat, used : [Nonces -> Nat],
           done : Nat, late : Nat]

(* Every variable keeps its type.                                          *)
TypeOK ==
    /\ now \in Nat
    /\ revocations \in SUBSET Records
    /\ cleared \in SUBSET Nonces
    /\ issued \in [Nonces -> Nat]
    /\ pinned \in [Nonces -> SUBSET Records]
    /\ current \in Nonces \cup {None}
    /\ ledger \in [Nonces -> Nat]
    /\ holder \in Runners \cup {None}
    /\ accepted \in [Nonces -> Nat]
    /\ run \in [Runners -> Runner]

(* The lock of the ledger is held by exactly the runner that is reading or *)
(* writing it, so a runner that was refused, or died, does not bar the     *)
(* others for good (exclusive_lock).                                       *)
LockFollowsWriter == \A r \in Runners : run[r].pc \in Critical <=> holder = r

(* A clearance admits at most one run (consume): however runners overlap,  *)
(* wait for the lock, die, or prune each other's entries.                  *)
NonceAcceptedOnce == \A n \in Nonces : accepted[n] <= 1

(* A spent nonce is in the ledger for as long as a runner that judged its  *)
(* clearance valid may still be on its way to the ledger (_prune).         *)
LiveNonceRemembered ==
    \A n \in Nonces :
        accepted[n] > 0 /\ now <= issued[n] + TTL + MaxPause => ledger[n] # 0

(* Only entries past their retention are ever forgotten: no write of one   *)
(* runner loses the entry another has just made.                           *)
OnlyAgedNoncesLeave ==
    [][\A n \in Nonces : ledger[n] # 0 /\ ledger'[n] = 0 =>
          ledger[n] + Retention < now]_vars

(* A revocation takes hold in the middle of a run: at most the stage whose *)
(* boundary was already passed is still performed, and none at all in a    *)
(* run whose clearance was already revoked when it was verified.           *)
RevocationStopsRun ==
    \A r \in Runners :
        /\ run[r].late <= 1
        /\ run[r].done > 0 => ~RevokedBy(pinned[run[r].nonce], run[r].clock)

============================================================================
