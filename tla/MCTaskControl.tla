-------------------------- MODULE MCTaskControl --------------------------
(* Two instances of TaskControl for TLC, side by side: "critical" makes a  *)
(* dry run and its real counterpart out of two tasks of one critical       *)
(* action; "leases" has work that needs no approval, and makes room for    *)
(* two connector requests in flight, a third clock value and two leases of *)
(* a task.  The variable part says which of them a behaviour explores.     *)
EXTENDS TaskControl, TLC

CONSTANTS t1, t2, u1, u2, c1, block, observe

VARIABLE part

MCRisk == [a \in Actions |-> IF a = block THEN "critical" ELSE "low"]

MCInit == Init /\ part \in {"critical", "leases"}

MCNext == Next /\ UNCHANGED part

MCSpec == MCInit /\ [][MCNext]_<<vars, part>>

(* One action, one connector request at a time, one lease of a task, and   *)
(* room for the approval to run out.  Of the two levels that stop work,    *)
(* and of the two that do not, the model treats both alike: each part has  *)
(* three of the four.                                                      *)
CriticalWork ==
    /\ now <= 2
    /\ safety # "restricted"
    /\ \A r \in Requests \ {1} : request[r] = Idle
    /\ \A t \in Tasks : /\ work[t].action \in {block, None}
                        /\ lease[t].issued <= 1
    /\ \A c \in Connectors : /\ caps[c] = provided[c]
                             /\ provided[c] \cup agentCaps[c] \subseteq {block}

(* Work with no connector stays queued for ever, and agents repeat what    *)
(* the heartbeat says of capabilities.  All tasks observe, at the request  *)
(* of one person; the connector is provisioned for that at most, and block is *)
(* one it may claim, so that heartbeats drop a capability, restore it and  *)
(* try to enlarge it.                                                      *)
PlainWork ==
    /\ safety # "cautious"
    /\ \A t \in Tasks :
          /\ ~work[t].scoped
          /\ status[t] # "absent" => work[t].conn # None /\ work[t].action = observe
    /\ \E u \in Users : \A t \in Tasks : work[t].by \in {u, None}
    /\ \A c \in Connectors : agentCaps[c] = {} /\ provided[c] \subseteq {observe}

InPart == (part = "critical" /\ CriticalWork) \/ (part = "leases" /\ PlainWork)

Symmetry == Permutations(Tasks) \cup Permutations(Users)
==========================================================================
