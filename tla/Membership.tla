------------------------------ MODULE Membership ------------------------------
(***************************************************************************)
(* Invitations to one workspace and the members they are meant to make.    *)
(* The token of an invitation is shown once; whoever presents it has to be *)
(* the invited identity, in time, and the first.  Two people, or the same  *)
(* person twice, can present tokens at once; acceptance locks the          *)
(* invitation row and appends to the audit chain before it commits.        *)
(***************************************************************************)
EXTENDS Integers, FiniteSets

CONSTANTS Invitations,  \* invitation ids, one token each
          Emails,       \* normalized identities
          Founder,      \* the bootstrap owner
          Hours,        \* bound: the lifetimes an invitation is given
          Procs,        \* requests that can be in flight at once
          MaxTime,      \* bound: the clock stops here
          None

Roles == {"owner", "admin", "operator", "approver", "auditor", "viewer"}
Managers == {"owner", "admin"}

Invitation == [email : Emails, role : Roles, status : {"pending", "accepted"}, expires : Nat]

MembershipAssumption ==
    /\ Founder \in Emails
    /\ Hours \subseteq Nat \ {0}
    /\ MaxTime \in Nat
    /\ None \notin Invitation

VARIABLES now,         \* utcnow()
          invitation,  \* invitations rows, None before they are created
          member,      \* role of each identity in the workspace, None if not a member
          txn,         \* the acceptance each process is serving
          accepted     \* history: how often an invitation was accepted

vars == <<now, invitation, member, txn, accepted>>

Idle == [id |-> None, email |-> None]

Init ==
    /\ now = 0
    /\ invitation = [i \in Invitations |-> None]
    /\ member = [e \in Emails |-> IF e = Founder THEN "owner" ELSE None]
    /\ txn = [p \in Procs |-> Idle]
    /\ accepted = [i \in Invitations |-> 0]

Tick == now < MaxTime /\ now' = now + 1 /\ UNCHANGED <<invitation, member, txn, accepted>>

(* create_invitation: a manager of the workspace invites anybody to any    *)
(* role but owner.                                                         *)
CreateInvitation(by, i, e, role, hours) ==
    /\ member[by] \in Managers
    /\ role # "owner"
    /\ invitation[i] = None
    /\ invitation' = [invitation EXCEPT ![i] = [email |-> e, role |-> role, status |-> "pending",
                                                expires |-> now + hours]]
    /\ UNCHANGED <<now, member, txn, accepted>>

(* Slip: the invitation is read without a lock.                            *)
LockedNever(i) == FALSE

(* SELECT ... FOR UPDATE: nobody else is looking at this invitation.       *)
Locked(i) == \E p \in Procs : txn[p].id = i

(* accept_invitation up to its first write.  An invitation found expired   *)
(* is marked so, but the refusal rolls the mark back: it stays pending.    *)
AcceptBegin(p, i, e) ==
    /\ txn[p] = Idle /\ ~Locked(i)
    /\ invitation[i] # None
    /\ invitation[i].status = "pending"
    /\ invitation[i].expires >= now
    /\ invitation[i].email = e
    /\ txn' = [txn EXCEPT ![p] = [id |-> i, email |-> e]]
    /\ UNCHANGED <<now, invitation, member, accepted>>

(* The membership that append_audit is given as its target: one that is    *)
(* only added to the session has no id before a flush, and cutting None to *)
(* 80 characters is a TypeError.                                           *)
TargetKnown(p) == member[txn[p].email] # None

AcceptCommit(p) ==
    /\ txn[p] # Idle
    /\ TargetKnown(p)
    /\ invitation' = [invitation EXCEPT ![txn[p].id].status = "accepted"]
    /\ accepted' = [accepted EXCEPT ![txn[p].id] = @ + 1]
    /\ txn' = [txn EXCEPT ![p] = Idle]
    /\ UNCHANGED <<now, member>>

AcceptFails(p) ==
    /\ txn[p] # Idle
    /\ ~TargetKnown(p)
    /\ txn' = [txn EXCEPT ![p] = Idle]
    /\ UNCHANGED <<now, invitation, member, accepted>>

Serve(p) == AcceptCommit(p) \/ AcceptFails(p)

Next ==
    \/ Tick
    \/ \E by, e \in Emails, i \in Invitations, role \in Roles, hours \in Hours :
        CreateInvitation(by, i, e, role, hours)
    \/ \E p \in Procs, i \in Invitations, e \in Emails : AcceptBegin(p, i, e)
    \/ \E p \in Procs : Serve(p)

Spec == Init /\ [][Next]_vars /\ \A p \in Procs : WF_vars(Serve(p))
---------------------------------------------------------------------------
(* An invitation is good for one acceptance, however many requests present *)
(* its token at once (accept_invitation).                                  *)
Once == INSTANCE SingleUse WITH Tokens <- Invitations, spent <- accepted
InvitationUsedOnce == Once!Spec

(* The workspace is for "invited users": the invited identity that         *)
(* presents a valid token becomes a member (accept_invitation).            *)
InvitedBecomesMember ==
    \A e \in Emails : (\E p \in Procs : txn[p].email = e) ~> member[e] # None
=============================================================================
