---------------------------- MODULE MCRehearsal ----------------------------
(* Instances of Rehearsal for TLC.  TTL + MaxPause = Retention: the margin *)
(* is as small as the assumption allows.                                   *)
EXTENDS Rehearsal, TLC

CONSTANTS r1, r2, n1, n2

(* One record revokes this exercise from tick 2 on, one another exercise.  *)
MCRecords == {[at |-> 2, ours |-> TRUE], [at |-> 1, ours |-> FALSE]}
NoRecords == {}

Symmetry == Permutations(Runners) \cup Permutations(Nonces)
============================================================================
