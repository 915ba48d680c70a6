------------------------------ MODULE MCPlatform ------------------------------
(***************************************************************************)
(* The parts of the platform with small values for their parameters.  A    *)
(* behaviour picks one part and explores it, so one run covers them all at *)
(* the sum of their state spaces and not at the product.                   *)
(***************************************************************************)
EXTENDS Platform

CONSTANTS e1, k1, a1, dom, sub, i1, i2, ann, bob, p1, p2

VARIABLE part

vars == <<part, evidence, reports, membership>>

(* Every domain is below dom.                                              *)
ParentDomain == [d \in {dom, sub} |-> dom]

(* The rules a behaviour can have: approval by default, and one that       *)
(* watches, blocks the parent domain and approves the subdomain.           *)
Rules ==
    {[default |-> "require-approval", sensitive |-> "block", approved |-> {}, blocked |-> {}],
     [default |-> "monitor", sensitive |-> "require-approval", approved |-> {sub}, blocked |-> {dom}]}

(* Only the part that is explored starts from each of its initial states.  *)
Init ==
    /\ part \in {"evidence", "reports", "membership"}
    /\ E!Init /\ R!Init /\ M!Init
    /\ part # "evidence" => policy = [days |-> 0, hold |-> FALSE]
    /\ part # "reports" => rules = CHOOSE r \in Rules : TRUE

Next ==
    /\ UNCHANGED part
    /\ \/ part = "evidence" /\ E!Next /\ UNCHANGED <<reports, membership>>
       \/ part = "reports" /\ R!Next /\ UNCHANGED <<evidence, membership>>
       \/ part = "membership" /\ M!Next /\ UNCHANGED <<evidence, reports>>

Spec == Init /\ [][Next]_vars

(* Requests that accept an invitation end (Membership).                    *)
Serve(p) == part = "membership" /\ M!Serve(p) /\ UNCHANGED <<part, evidence, reports>>

FairSpec == Spec /\ \A p \in Procs : WF_vars(Serve(p))
=============================================================================
