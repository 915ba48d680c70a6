------------------------------ MODULE MCToolkits ------------------------------
(***************************************************************************)
(* The tools with small values for their parameters.  A behaviour picks    *)
(* one tool and explores it, so one run covers them at the sum of their    *)
(* state spaces.                                                           *)
(***************************************************************************)
EXTENDS Toolkits, TLC

CONSTANTS r1, r2, s1, s2, t1, t2, d1, d2, d3, d4, h1, h2, p1, p2, c1, v1, g1, g2,
          ta, tt, tu, gone, doc, code, prose, m1, m2, f1, f2, l1, x1, x2

VARIABLE part

vars == <<part, engine, store, console, gate, handoff, program>>

(* An engagement of two checks, and one of a single check.                 *)
RedRequests == t1 :> 1 @@ t2 :> 2
RedPlan == s1 :> {t1, t2} @@ s2 :> {t1}

(* Three events of one host, two at whole seconds and one half a second    *)
(* after the second of them, and one of another; they arrive in any order. *)
BlueTime == d1 :> 0 @@ d2 :> 4 @@ d3 :> 5 @@ d4 :> 4
BlueHost == d1 :> h1 @@ d2 :> h1 @@ d3 :> h1 @@ d4 :> h2

Burst == [critical |-> FALSE, allowSuppression |-> TRUE, suppression |-> 1, enabled |-> TRUE,
          count |-> 2, within |-> 1, matches |-> {d1, d2, d3, d4}]
Single == [critical |-> TRUE, allowSuppression |-> FALSE, suppression |-> 1, enabled |-> TRUE,
           count |-> 1, within |-> 1, matches |-> {d1, d2}]
BlueRules ==
    {<<Burst, Single>>, <<[Burst EXCEPT !.within = 2]>>, <<[Burst EXCEPT !.within = 4]>>,
     <<Burst, [Single EXCEPT !.allowSuppression = TRUE]>>}

(* One claim per register: sound, operational, on prose, on the test that  *)
(* starts the gate, on a missing test, on a changed mechanism, on a        *)
(* document, on code.                                                      *)
Sound == [status |-> "EVIDENCED", mechanism |-> m1, digest |-> m1, evidence |-> {ta, tt},
          gap |-> FALSE, reviewer |-> TRUE]

ClaimKind == ta :> "node" @@ tt :> "node" @@ tu :> "node" @@ gone :> "node"
             @@ doc :> "doc" @@ code :> "code" @@ prose :> "prose"
ClaimHome == ta :> "app" @@ tt :> "tools" @@ tu :> "tools"
ClaimRegisters ==
    {{Sound}, {[Sound EXCEPT !.status = "OPERATIONAL", !.evidence = {ta}]},
     {[Sound EXCEPT !.evidence = {prose}]}, {[Sound EXCEPT !.evidence = {ta, tu}]},
     {[Sound EXCEPT !.evidence = {gone, prose}]}, {[Sound EXCEPT !.mechanism = m2]},
     {[Sound EXCEPT !.status = "SCOPED", !.evidence = {doc}]},
     {[Sound EXCEPT !.evidence = {code, prose}]}}

(* Two findings at one place, one of them critical.                        *)
TwoDefects == <<f1, f2>>
SamePlace == f1 :> l1 @@ f2 :> l1
OneCritical == f1 :> "critical" @@ f2 :> "high"
WithCriteria == f1 :> TRUE @@ f2 :> TRUE

(* Two teams, three weight sets, one of them inconsistent; a team that     *)
(* failed, one that did well, one with half its evidence, one with none.   *)
TeamCards == {(x1 :> 3 @@ x2 :> 1), (x1 :> 2 @@ x2 :> 2), (x1 :> 3 @@ x2 :> 2)}
TeamDocuments ==
    {[score |-> 50, failed |-> TRUE, scored |-> 1, components |-> 2],
     [score |-> 60, failed |-> FALSE, scored |-> 2, components |-> 2],
     [score |-> 96, failed |-> FALSE, scored |-> 1, components |-> 2],
     [score |-> 100, failed |-> FALSE, scored |-> 0, components |-> 2]}

(* Only the part that is explored starts from each of its initial states.  *)
Init ==
    /\ part \in {"red", "fleet", "blue", "owner", "claims", "handoff", "program"}
    /\ Red!Init /\ Blue!Init /\ Owner!Init /\ Claims!Init /\ Handoff!Init /\ Program!Init
    /\ part # "red" => file.scope = s2
    /\ part # "owner" => mode = "demo"
    /\ part # "claims" => /\ register = {Sound} /\ ~ci.guard
                          /\ readiness = [verified |-> {}, required |-> {}]
    /\ part # "handoff" => present = {}

(* Bound: one run of either engagement, or two runs of the small one on    *)
(* one state directory.                                                    *)
OneRun == part = "red" /\ run'[r2] = run[r2]
TwoRuns == part = "fleet" /\ file'.scope = s2

Next ==
    /\ UNCHANGED part
    /\ \/ part \in {"red", "fleet"} /\ Red!Next /\ (OneRun \/ TwoRuns)
          /\ UNCHANGED <<store, console, gate, handoff, program>>
       \/ part = "blue" /\ Blue!Next /\ UNCHANGED <<engine, console, gate, handoff, program>>
       \/ part = "owner" /\ Owner!Next /\ UNCHANGED <<engine, store, gate, handoff, program>>
       \/ part = "claims" /\ Claims!Next /\ UNCHANGED <<engine, store, console, handoff, program>>
       \/ part = "handoff" /\ Handoff!Next /\ UNCHANGED <<engine, store, console, gate, program>>
       \/ part = "program" /\ Program!Next /\ UNCHANGED <<engine, store, console, gate, handoff>>

Spec == Init /\ [][Next]_vars

(* Bound: a console that was started again makes one more run.             *)
SecondLife == restarts > 0 => Len(runs) < 2
=============================================================================
