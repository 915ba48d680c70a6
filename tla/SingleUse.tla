------------------------------ MODULE SingleUse ------------------------------
(***************************************************************************)
(* What a token that may be used once promises, whoever keeps the record:  *)
(* the nonce of an exercise authorization, the id of a command, the        *)
(* idempotency key of a report.  spent[t] counts how often t took effect.  *)
(***************************************************************************)
EXTENDS Naturals

CONSTANT Tokens

VARIABLE spent

Init == spent = [t \in Tokens |-> 0]

(* Tokens presented together are spent together, and only fresh ones are.  *)
Spend(S) ==
    /\ \A t \in S : spent[t] = 0
    /\ spent' = [t \in Tokens |-> IF t \in S THEN 1 ELSE spent[t]]

Next == \E S \in SUBSET Tokens : Spend(S)

Spec == Init /\ [][Next]_spent
=============================================================================
