------------------------------- MODULE Staff -------------------------------
(***************************************************************************)
(* Invitations to a partner's team and the memberships they give:          *)
(* apps/api/src/modules/partners/services/partnerStaffService.js and       *)
(* repositories/mysqlPartnerStaffRepository.js.                            *)
(*                                                                         *)
(* Accepting, revoking, a change of role and a removal each read the row,  *)
(* and write later by its id alone: what was read may have ended by then.  *)
(* Only the insertions are guarded, by the unique keys on the pending      *)
(* invitations of an address and the active memberships of a user.         *)
(* A user is identified with the address that is invited.                  *)
(***************************************************************************)
EXTENDS Naturals, FiniteSets

CONSTANTS
    Invitee,       \* users other than the owner
    StaffRole,     \* ASSIGNABLE_ROLE_CODES
    Invitation,    \* partner_employee_invitations rows that may be created
    Member,        \* partner_employees rows that may be created
    StaffRequest   \* requests at a time

VARIABLES
    invitations,   \* partner_employee_invitations
    members,       \* partner_employees
    staffTask      \* requests between their read and their write

staffVars == <<invitations, members, staffTask>>

NoUser == "nobody"

ASSUME StaffAssumption ==
    NoUser \notin Invitee /\ StaffRole # {} /\ Invitation # {}

InvitationRow == [email: Invitee \cup {NoUser}, role: StaffRole,
                  accepted: BOOLEAN, revoked: BOOLEAN, expired: BOOLEAN]
\* by: the invitation the membership was accepted from.
MemberRow == [user: Invitee \cup {NoUser}, role: StaffRole, deleted: BOOLEAN,
              by: Invitation]
StaffTask ==
    [op: {"accept", "revoke"}, row: Invitation]
    \cup [op: {"remove"}, row: Member]
    \cup [op: {"changeRole"}, row: Member, role: StaffRole]
Waiting == [op |-> "none"]

InitStaff ==
    /\ invitations = [i \in Invitation |->
          [email |-> NoUser, role |-> CHOOSE r \in StaffRole : TRUE,
           accepted |-> FALSE, revoked |-> FALSE, expired |-> FALSE]]
    /\ members = [m \in Member |->
          [user |-> NoUser, role |-> CHOOSE r \in StaffRole : TRUE,
           deleted |-> FALSE, by |-> CHOOSE i \in Invitation : TRUE]]
    /\ staffTask = [q \in StaffRequest |-> Waiting]

\* MUTANT: an invitation that was revoked can still be accepted.
PendingUnlessAccepted(i) ==
    invitations[i].email # NoUser /\ ~invitations[i].accepted

\* findPendingInvitationByTokenHash, findPendingInvitationById
PendingInvitation(i) ==
    invitations[i].email # NoUser /\ ~invitations[i].accepted
    /\ ~invitations[i].revoked

ActiveMember(m) == members[m].user # NoUser /\ ~members[m].deleted

FreeInvitations == {i \in Invitation : invitations[i].email = NoUser}
FreeMembers == {m \in Member : members[m].user = NoUser}

-----------------------------------------------------------------------------

\* revokeAllPendingForEmail and createInvitation, in one transaction: a resend
\* supersedes the link that was sent before.
InviteStaff(user, role) ==
    /\ FreeInvitations # {}
    /\ LET i == CHOOSE i \in FreeInvitations : TRUE IN
       invitations' = [j \in Invitation |->
          IF j = i
          THEN [email |-> user, role |-> role, accepted |-> FALSE,
                revoked |-> FALSE, expired |-> FALSE]
          ELSE IF invitations[j].email = user /\ PendingInvitation(j)
          THEN [invitations[j] EXCEPT !.revoked = TRUE]
          ELSE invitations[j]]
    /\ UNCHANGED <<members, staffTask>>

\* INVITATION_EXPIRY_DAYS have passed.
InvitationExpires(i) ==
    /\ PendingInvitation(i) /\ ~invitations[i].expired
    /\ invitations' = [invitations EXCEPT ![i].expired = TRUE]
    /\ UNCHANGED <<members, staffTask>>

\* What each request reads and checks.  Accepting is left to the user whose
\* address it is.
BeginStaffTask(q) ==
    /\ staffTask[q] = Waiting
    /\ \E task \in StaffTask :
          /\ \/ /\ task.op = "accept" /\ PendingInvitation(task.row)
                /\ ~invitations[task.row].expired
             \/ task.op = "revoke" /\ PendingInvitation(task.row)
             \/ task.op \in {"remove", "changeRole"} /\ ActiveMember(task.row)
          /\ staffTask' = [staffTask EXCEPT ![q] = task]
    /\ UNCHANGED <<invitations, members>>

\* uq_partner_employees_active_user
MayInsert(user) == ~\E m \in Member : ActiveMember(m) /\ members[m].user = user

\* insertStaff and markInvitationAccepted, in one transaction.
AcceptInvitation(q) ==
    LET i == staffTask[q].row
        user == invitations[i].email
    IN /\ staffTask[q].op = "accept"
       /\ \/ /\ MayInsert(user)
             /\ FreeMembers # {}
             /\ members' = [members EXCEPT ![CHOOSE m \in FreeMembers : TRUE] =
                   [user |-> user, role |-> invitations[i].role,
                    deleted |-> FALSE, by |-> i]]
             /\ invitations' = [invitations EXCEPT ![i].accepted = TRUE]
          \/ ~MayInsert(user) /\ UNCHANGED <<members, invitations>>

\* revokeInvitation
RevokeInvitation(q) ==
    /\ staffTask[q].op = "revoke"
    /\ invitations' = [invitations EXCEPT ![staffTask[q].row].revoked = TRUE]
    /\ UNCHANGED members

\* removeStaff
RemoveStaff(q) ==
    /\ staffTask[q].op = "remove"
    /\ members' = [members EXCEPT ![staffTask[q].row].deleted = TRUE]
    /\ UNCHANGED invitations

\* updateStaffRole
UpdateStaffRole(q) ==
    /\ staffTask[q].op = "changeRole"
    /\ members' = [members EXCEPT ![staffTask[q].row].role = staffTask[q].role]
    /\ UNCHANGED invitations

EndStaffTask(q) ==
    /\ AcceptInvitation(q) \/ RevokeInvitation(q) \/ RemoveStaff(q)
       \/ UpdateStaffRole(q)
    /\ staffTask' = [staffTask EXCEPT ![q] = Waiting]

StaffNext ==
    \/ \E i \in Invitation : InvitationExpires(i)
    \/ \E user \in Invitee, role \in StaffRole : InviteStaff(user, role)
    \/ \E q \in StaffRequest : BeginStaffTask(q) \/ EndStaffTask(q)

StaffSpec == InitStaff /\ [][StaffNext]_staffVars

-----------------------------------------------------------------------------
(* Properties *)

StaffTypeOK ==
    /\ invitations \in [Invitation -> InvitationRow]
    /\ members \in [Member -> MemberRow]
    /\ staffTask \in [StaffRequest -> StaffTask \cup {Waiting}]

BeingAccepted(i) ==
    \E q \in StaffRequest : staffTask[q].op = "accept" /\ staffTask[q].row = i

DeadLink(i) == invitations[i].accepted \/ invitations[i].revoked
               \/ invitations[i].expired

\* A link that was used, revoked, superseded by a resend or has expired, and
\* that no accept had read before, is dead for good: it is never accepted and
\* gives no membership, so that a removed member does not come back by it
\* (findPendingInvitationByTokenHash, revokeAllPendingForEmail).
DeadLinksStayDead ==
    [][\A i \in Invitation :
          DeadLink(i) /\ ~BeingAccepted(i) =>
              /\ DeadLink(i)' /\ ~BeingAccepted(i)'
              /\ \A m \in Member :
                    ActiveMember(m)' /\ members'[m].by = i => ActiveMember(m)
      ]_staffVars
=============================================================================
