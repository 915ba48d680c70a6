------------------------------- MODULE Platform -------------------------------
(***************************************************************************)
(* The parts of the platform that share no table with each other: evidence,*)
(* what connectors report, and invitations.  Each is an instance of its    *)
(* module on variables of its own.                                         *)
(***************************************************************************)
EXTENDS Deployment, Integers, Sequences, FiniteSets

CONSTANTS Ids, Scanner, Days,                       \* EvidenceStore
          Keys, Assets, Domains, Parent, Policies,  \* EdgeReports
          Invitations, Emails, Founder, Hours       \* Membership

VARIABLES now, policy, object, row, asset, task, etxn, judged, served,
          rules, aiasset, usage, violation, telemetry, accepted, rtxn,
          clock, invitation, member, mtxn, admitted

evidence == <<now, policy, object, row, asset, task, etxn, judged, served>>
reports == <<rules, aiasset, usage, violation, telemetry, accepted, rtxn>>
membership == <<clock, invitation, member, mtxn, admitted>>

E == INSTANCE EvidenceStore WITH txn <- etxn

R == INSTANCE EdgeReports WITH policy <- rules, asset <- aiasset, txn <- rtxn

M == INSTANCE Membership WITH now <- clock, txn <- mtxn, accepted <- admitted

ASSUME PlatformAssumption == E!EvidenceAssumption /\ R!ReportAssumption /\ M!MembershipAssumption
---------------------------------------------------------------------------
(* EvidenceStore: what is held or still inside its retention can be read.  *)
RetainedIsReadable == E!RetainedIsReadable

(* EvidenceStore: only bytes that were called clean are served.            *)
ServedWasClean == E!ServedWasClean

(* EdgeReports: a usage report counts once.                                *)
UsageCountedOnce == R!UsageCountedOnce

(* EdgeReports: sensitive usage is acted on and on record.                 *)
SensitiveUseFlagged == R!SensitiveUseFlagged

(* Membership: an invitation is accepted once.                             *)
InvitationUsedOnce == M!InvitationUsedOnce

(* Membership: the invited identity becomes a member.                      *)
InvitedBecomesMember == M!InvitedBecomesMember
=============================================================================
