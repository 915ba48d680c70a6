-------------------------------- MODULE MCWork --------------------------------
(***************************************************************************)
(* Work on its way with small values for its parameters.  A behaviour      *)
(* picks the platform or the edge, so one run covers both at the sum of    *)
(* their state spaces.                                                     *)
(***************************************************************************)
EXTENDS Work, TLC

CONSTANTS p1, p2, ta, tg, w1, w2

VARIABLE part

vars == <<part, platform, edge>>

Target(kind, scheme, user, password) ==
    [kind |-> kind, scheme |-> scheme, host |-> scheme # "none", user |-> user, password |-> password]

(* Target lists of an engagement; the last two are refused.                *)
TargetLists ==
    {{Target("website", "https", FALSE, FALSE), Target("repository", "none", FALSE, FALSE)},
     {Target("repository", "ssh", TRUE, TRUE), Target("other", "none", FALSE, FALSE)},
     {Target("website", "https", FALSE, FALSE), Target("api", "https", TRUE, TRUE)}}

(* An assessment shorter than its lease and a gate longer than it.         *)
Actions == ta :> "assessment.execute" @@ tg :> "gate.run"
Durations == ta :> 2 @@ tg :> 4

Init == part \in {"platform", "edge"} /\ A!Init /\ C!Init

Platform(step) == part = "platform" /\ step /\ UNCHANGED <<part, edge>>
Edge(step) == part = "edge" /\ step /\ UNCHANGED <<part, platform>>

Next == Platform(A!Next) \/ Edge(C!Next)

(* The fairness of Assessments and ConnectorWorker, for each in its part.  *)
Spec ==
    /\ Init /\ [][Next]_vars
    /\ \A p \in {p1, p2} : SF_vars(Platform(A!Serve(p)))
    /\ WF_vars(Edge(C!Tick /\ UNCHANGED scope))
    /\ \A w \in {w1, w2} : WF_vars(Edge(C!Work(w) /\ UNCHANGED scope))
---------------------------------------------------------------------------
(* ConnectorWorker: every task ends.                                       *)
WorkEnds == \A t \in {ta, tg} : <>(part = "edge" => job[t].status \in {"finished", "blocked"})
=============================================================================
