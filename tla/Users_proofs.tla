---------------------------- MODULE Users_proofs ----------------------------
(***************************************************************************)
(* What holds of Staff, Sessions, Notifications and Messaging, for every   *)
(* number of users, rows, requests, tabs, events and windows.  All four    *)
(* are about rows that several requests read and then write: what a        *)
(* request still knows of its row when it writes, what a mail job has sent *)
(* against what is recorded of it, and that every read position there is,  *)
(* or is about to be, has nothing unseen within a page below it.           *)
(***************************************************************************)
EXTENDS Staff, Sessions, Notifications, Messaging, Sums_proofs

-----------------------------------------------------------------------------
(* Staff of a partner *)

\* A request is about a row that exists, and a row that does not exist is not
\* dead.
StaffRowsInv ==
    /\ \A q \in StaffRequest :
          /\ staffTask[q].op \in {"accept", "revoke"} =>
                /\ staffTask[q].row \in Invitation
                /\ invitations[staffTask[q].row].email # NoUser
          /\ staffTask[q].op \in {"remove", "changeRole"} =>
                /\ staffTask[q].row \in Member
                /\ members[staffTask[q].row].user # NoUser
    /\ \A i \in Invitation : invitations[i].email = NoUser => ~DeadLink(i)

StaffInv == StaffTypeOK /\ StaffRowsInv

\* A request is about an invitation or about a membership.
LEMMA StaffTasks ==
    ASSUME NEW task \in StaffTask \cup {Waiting}
    PROVE  /\ task.op \in {"none", "accept", "revoke", "remove", "changeRole"}
           /\ task.op \in {"accept", "revoke"} => task.row \in Invitation
           /\ task.op \in {"remove", "changeRole"} => task.row \in Member
           /\ task.op = "changeRole" => task.role \in StaffRole
           /\ task.op = "none" => task = Waiting
BY DEF StaffTask, Waiting

\* The invariant holds before anybody is invited.
LEMMA StaffInitially == InitStaff => StaffInv
<1> SUFFICES ASSUME InitStaff PROVE StaffInv
  OBVIOUS
<1>1. /\ (CHOOSE r \in StaffRole : TRUE) \in StaffRole
      /\ (CHOOSE i \in Invitation : TRUE) \in Invitation
  BY StaffAssumption
<1>2. StaffTypeOK
  BY <1>1 DEF InitStaff, StaffTypeOK, InvitationRow, MemberRow
<1>3. StaffRowsInv
  BY DEF InitStaff, StaffRowsInv, DeadLink, Waiting
<1> QED BY <1>2, <1>3 DEF StaffInv

\* An invitation keeps the invariant and revives no link.
LEMMA InviteStaffKeeps ==
    ASSUME StaffInv, NEW user \in Invitee, NEW role \in StaffRole,
           InviteStaff(user, role)
    PROVE  /\ StaffInv'
           /\ \A j \in Invitation : DeadLink(j) => DeadLink(j)'
<1> USE DEF StaffInv
<1> DEFINE i == CHOOSE j \in FreeInvitations : TRUE
<1>1. i \in Invitation /\ invitations[i].email = NoUser
  <2>1. i \in FreeInvitations
    BY DEF InviteStaff
  <2> QED BY <2>1 DEF FreeInvitations
<1>2. invitations' = [j \in Invitation |->
          IF j = i
          THEN [email |-> user, role |-> role, accepted |-> FALSE,
                revoked |-> FALSE, expired |-> FALSE]
          ELSE IF invitations[j].email = user /\ PendingInvitation(j)
          THEN [invitations[j] EXCEPT !.revoked = TRUE]
          ELSE invitations[j]]
      /\ UNCHANGED <<members, staffTask>>
  BY DEF InviteStaff
<1> HIDE DEF i
<1>3. /\ invitations'[i] =
            [email |-> user, role |-> role, accepted |-> FALSE,
             revoked |-> FALSE, expired |-> FALSE]
      /\ \A j \in Invitation : j # i =>
            \/ invitations'[j] = invitations[j]
            \/ /\ invitations[j].email = user
               /\ invitations'[j] = [invitations[j] EXCEPT !.revoked = TRUE]
  BY <1>1, <1>2
<1>4. \A j \in Invitation : invitations[j] \in InvitationRow
  BY DEF StaffTypeOK
<1>5. \A j \in Invitation : j # i =>
         /\ invitations'[j].email = invitations[j].email
         /\ invitations'[j] \in InvitationRow
         /\ DeadLink(j) => DeadLink(j)'
  BY <1>3, <1>4 DEF InvitationRow, DeadLink
<1>6. StaffTypeOK'
  <2>1. invitations'[i] \in InvitationRow
    BY <1>3 DEF InvitationRow
  <2> QED BY <1>2, <1>5, <2>1 DEF StaffTypeOK
<1>7. user # NoUser
  BY StaffAssumption
<1>8. StaffRowsInv'
  <2>1. \A j \in Invitation :
           invitations'[j].email = NoUser => ~DeadLink(j)'
    <3> SUFFICES ASSUME NEW j \in Invitation, invitations'[j].email = NoUser
                 PROVE  ~DeadLink(j)'
      OBVIOUS
    <3>1. j # i
      BY <1>3, <1>7
    <3>2. invitations'[j] = invitations[j]
      BY <1>3, <1>5, <1>7, <3>1
    <3> QED BY <3>2 DEF StaffRowsInv, DeadLink
  <2>2. \A j \in Invitation :
           invitations[j].email # NoUser => invitations'[j].email # NoUser
    BY <1>1, <1>5
  <2> QED BY <1>2, <2>1, <2>2 DEF StaffRowsInv
<1>9. ASSUME NEW j \in Invitation, DeadLink(j) PROVE DeadLink(j)'
  <2>1. j # i
    BY <1>1, <1>9 DEF StaffRowsInv
  <2> QED BY <1>5, <1>9, <2>1
<1> QED BY <1>6, <1>8, <1>9

\* So does an invitation that expires.
LEMMA InvitationExpiresKeeps ==
    ASSUME StaffInv, NEW i \in Invitation, InvitationExpires(i)
    PROVE  /\ StaffInv'
           /\ \A j \in Invitation : DeadLink(j) => DeadLink(j)'
<1> USE DEF StaffInv
<1>1. /\ invitations[i].email # NoUser /\ UNCHANGED <<members, staffTask>>
      /\ invitations' = [invitations EXCEPT ![i].expired = TRUE]
  BY DEF InvitationExpires, PendingInvitation
<1>2. StaffTypeOK'
  BY <1>1 DEF StaffTypeOK, InvitationRow
<1>3. \A j \in Invitation :
         /\ invitations'[j].email = invitations[j].email
         /\ DeadLink(j) => DeadLink(j)'
         /\ j # i => invitations'[j] = invitations[j]
  BY <1>1 DEF StaffTypeOK, InvitationRow, DeadLink
<1>4. StaffRowsInv'
  BY <1>1, <1>3 DEF StaffRowsInv, DeadLink
<1> QED BY <1>2, <1>3, <1>4

\* A request that reads its row writes nothing, and reads no dead link as a
\* link to accept.
LEMMA BeginStaffTaskKeeps ==
    ASSUME StaffInv, NEW q \in StaffRequest, BeginStaffTask(q)
    PROVE  /\ StaffInv' /\ UNCHANGED <<invitations, members>>
           /\ \A i \in Invitation :
                 DeadLink(i) /\ ~BeingAccepted(i) => ~BeingAccepted(i)'
<1> USE DEF StaffInv
<1>1. PICK task \in StaffTask :
          /\ \/ /\ task.op = "accept" /\ PendingInvitation(task.row)
                /\ ~invitations[task.row].expired
             \/ task.op = "revoke" /\ PendingInvitation(task.row)
             \/ task.op \in {"remove", "changeRole"} /\ ActiveMember(task.row)
          /\ staffTask' = [staffTask EXCEPT ![q] = task]
  BY DEF BeginStaffTask
<1>2. UNCHANGED <<invitations, members>>
  BY DEF BeginStaffTask
<1>3. StaffTypeOK'
  BY <1>1, <1>2 DEF StaffTypeOK
<1>4. /\ staffTask'[q] = task
      /\ \A r \in StaffRequest : r # q => staffTask'[r] = staffTask[r]
  BY <1>1 DEF StaffTypeOK
<1>5. StaffRowsInv'
  <2>1. /\ task.op \in {"accept", "revoke"} =>
              task.row \in Invitation /\ invitations[task.row].email # NoUser
        /\ task.op \in {"remove", "changeRole"} =>
              task.row \in Member /\ members[task.row].user # NoUser
    BY <1>1, StaffTasks DEF PendingInvitation, ActiveMember
  <2> QED BY <1>2, <1>4, <2>1 DEF StaffRowsInv, DeadLink
<1>6. task.op = "accept" => ~DeadLink(task.row)
  BY <1>1 DEF PendingInvitation, DeadLink
<1>7. ASSUME NEW i \in Invitation, DeadLink(i), ~BeingAccepted(i)
      PROVE  ~BeingAccepted(i)'
  BY <1>4, <1>6, <1>7 DEF BeingAccepted
<1> QED BY <1>2, <1>3, <1>5, <1>7

\* The four ways to end, each after what it read may have changed.
LEMMA EndStaffTaskKeeps ==
    ASSUME StaffInv, NEW q \in StaffRequest, EndStaffTask(q)
    PROVE  /\ StaffInv'
           /\ \A i \in Invitation :
                 /\ DeadLink(i) => DeadLink(i)'
                 /\ BeingAccepted(i)' => BeingAccepted(i)
                 /\ ~BeingAccepted(i) =>
                       \A m \in Member :
                          ActiveMember(m)' /\ members'[m].by = i =>
                             ActiveMember(m)
<1> USE DEF StaffInv
<1> DEFINE x == staffTask[q].row
<1>1. /\ staffTask' = [staffTask EXCEPT ![q] = Waiting]
      /\ \A r \in StaffRequest : r # q => staffTask'[r] = staffTask[r]
      /\ staffTask'[q].op = "none"
  BY DEF EndStaffTask, StaffTypeOK, Waiting
<1>2. \A i \in Invitation : BeingAccepted(i)' => BeingAccepted(i)
  BY <1>1 DEF BeingAccepted
<1>3. staffTask[q] \in StaffTask \cup {Waiting}
  BY DEF StaffTypeOK
\* Rows keep their owners.
<1>4. ASSUME StaffTypeOK',
             \A i \in Invitation :
                /\ invitations'[i].email = invitations[i].email
                /\ DeadLink(i) => DeadLink(i)'
                /\ invitations[i].email = NoUser =>
                      invitations'[i] = invitations[i],
             \A m \in Member :
                members[m].user # NoUser => members'[m].user # NoUser
      PROVE  StaffInv'
  BY <1>1, <1>4 DEF StaffRowsInv, DeadLink
<1>5. CASE AcceptInvitation(q)
  <2>1. x \in Invitation /\ invitations[x].email # NoUser /\ BeingAccepted(x)
        /\ invitations[x] \in InvitationRow
    BY <1>5 DEF AcceptInvitation, StaffRowsInv, BeingAccepted, StaffTypeOK
  <2>2. CASE UNCHANGED <<members, invitations>>
    <3>1. StaffTypeOK'
      BY <1>1, <2>2 DEF StaffTypeOK
    <3>2. StaffInv'
      BY <1>4, <2>2, <3>1 DEF DeadLink
    <3> QED BY <1>2, <2>2, <3>2 DEF DeadLink, ActiveMember
  <2>3. CASE ~(UNCHANGED <<members, invitations>>)
    <3> DEFINE new == CHOOSE m \in FreeMembers : TRUE
               row == [user |-> invitations[x].email,
                       role |-> invitations[x].role,
                       deleted |-> FALSE, by |-> x]
    <3>1. /\ FreeMembers # {}
          /\ members' = [members EXCEPT ![new] = row]
          /\ invitations' = [invitations EXCEPT ![x].accepted = TRUE]
      BY <1>5, <2>3 DEF AcceptInvitation
    <3>2. new \in Member /\ members[new].user = NoUser
      <4>1. new \in FreeMembers
        BY <3>1
      <4> QED BY <4>1 DEF FreeMembers
    <3>3. row \in MemberRow
      BY <2>1 DEF MemberRow, InvitationRow
    <3> HIDE DEF new
    <3>4. StaffTypeOK'
      BY <1>1, <2>1, <3>1, <3>2, <3>3 DEF StaffTypeOK, InvitationRow
    <3>5. /\ members'[new] = row
          /\ \A m \in Member : m # new => members'[m] = members[m]
      BY <3>1, <3>2 DEF StaffTypeOK
    <3>6. \A m \in Member : m # new /\ ActiveMember(m)' => ActiveMember(m)
      BY <3>5 DEF ActiveMember
    <3>7. \A i \in Invitation :
             /\ invitations'[i].email = invitations[i].email
             /\ DeadLink(i) => DeadLink(i)'
             /\ invitations[i].email = NoUser =>
                   invitations'[i] = invitations[i]
      BY <2>1, <3>1 DEF StaffTypeOK, InvitationRow, DeadLink
    <3>8. \A m \in Member :
             members[m].user # NoUser => members'[m].user # NoUser
      BY <3>2, <3>5
    <3>9. StaffInv'
      BY <1>4, <3>4, <3>7, <3>8
    <3>10. \A i \in Invitation : ~BeingAccepted(i) =>
              \A m \in Member :
                 ActiveMember(m)' /\ members'[m].by = i => ActiveMember(m)
      BY <2>1, <3>5, <3>6
    <3> QED BY <1>2, <3>7, <3>9, <3>10
  <2> QED BY <2>2, <2>3
<1>6. CASE RevokeInvitation(q)
  <2>1. /\ x \in Invitation /\ invitations[x].email # NoUser
        /\ invitations' = [invitations EXCEPT ![x].revoked = TRUE]
        /\ UNCHANGED members
    BY <1>6 DEF RevokeInvitation, StaffRowsInv
  <2>2. StaffTypeOK'
    BY <1>1, <2>1 DEF StaffTypeOK, InvitationRow
  <2>3. \A i \in Invitation :
           /\ invitations'[i].email = invitations[i].email
           /\ DeadLink(i) => DeadLink(i)'
           /\ invitations[i].email = NoUser => invitations'[i] = invitations[i]
    BY <2>1 DEF StaffTypeOK, InvitationRow, DeadLink
  <2>4. StaffInv'
    BY <1>4, <2>1, <2>2, <2>3
  <2> QED BY <1>2, <2>1, <2>3, <2>4 DEF ActiveMember
<1>7. CASE RemoveStaff(q) \/ UpdateStaffRole(q)
  <2>1. /\ x \in Member /\ UNCHANGED invitations
        /\ staffTask[q].op = "changeRole" => staffTask[q].role \in StaffRole
        /\ \/ members' = [members EXCEPT ![x].deleted = TRUE]
           \/ /\ staffTask[q].role \in StaffRole
              /\ members' = [members EXCEPT ![x].role = staffTask[q].role]
    BY <1>3, <1>7, StaffTasks DEF RemoveStaff, UpdateStaffRole, StaffRowsInv
  <2>2. StaffTypeOK'
    <3>1. members[x] \in MemberRow
      BY <2>1 DEF StaffTypeOK
    <3>2. /\ [members[x] EXCEPT !.deleted = TRUE] \in MemberRow
          /\ staffTask[q].role \in StaffRole =>
                [members[x] EXCEPT !.role = staffTask[q].role] \in MemberRow
      BY <3>1 DEF MemberRow
    <3>3. members' \in [Member -> MemberRow]
      BY <2>1, <3>2 DEF StaffTypeOK
    <3> QED BY <1>1, <2>1, <3>3 DEF StaffTypeOK
  <2>3. \A m \in Member :
           /\ members'[m].user = members[m].user
           /\ members'[m].by = members[m].by
           /\ ActiveMember(m)' => ActiveMember(m)
    BY <2>1 DEF StaffTypeOK, MemberRow, ActiveMember
  <2>4. StaffInv'
    BY <1>4, <2>1, <2>2, <2>3 DEF DeadLink
  <2> QED BY <1>2, <2>1, <2>3, <2>4 DEF DeadLink
<1> QED BY <1>5, <1>6, <1>7 DEF EndStaffTask

\* Every step of the component keeps the invariant.
LEMMA StaffStepKeeps == StaffInv /\ [StaffNext]_staffVars => StaffInv'
<1> SUFFICES ASSUME StaffInv, [StaffNext]_staffVars PROVE StaffInv'
  OBVIOUS
<1>1. CASE UNCHANGED staffVars
  BY <1>1 DEF StaffInv, StaffTypeOK, StaffRowsInv, DeadLink, staffVars
<1>2. CASE StaffNext
  BY <1>2, InvitationExpiresKeeps, InviteStaffKeeps, BeginStaffTaskKeeps,
     EndStaffTaskKeeps DEF StaffNext
<1> QED BY <1>1, <1>2

\* The invariant holds in every state.
THEOREM StaffInvariant == StaffSpec => []StaffInv
BY StaffInitially, StaffStepKeeps, PTL DEF StaffSpec

\* An invitation link that has been accepted or revoked, and that no request
\* is accepting just then, never works again (findPendingByToken).
THEOREM DeadLinks == StaffSpec => DeadLinksStayDead
<1> DEFINE Stays ==
       \A i \in Invitation :
          DeadLink(i) /\ ~BeingAccepted(i) =>
              /\ DeadLink(i)' /\ ~BeingAccepted(i)'
              /\ \A m \in Member :
                    ActiveMember(m)' /\ members'[m].by = i => ActiveMember(m)
<1>1. ASSUME StaffInv, StaffNext PROVE Stays
  <2>1. ASSUME NEW i \in Invitation, InvitationExpires(i) PROVE Stays
    <3>1. UNCHANGED <<members, staffTask>>
      BY <2>1 DEF InvitationExpires
    <3> QED BY <1>1, <2>1, <3>1, InvitationExpiresKeeps
            DEF BeingAccepted, ActiveMember
  <2>2. ASSUME NEW user \in Invitee, NEW role \in StaffRole,
               InviteStaff(user, role)
        PROVE  Stays
    <3>1. UNCHANGED <<members, staffTask>>
      BY <2>2 DEF InviteStaff
    <3> QED BY <1>1, <2>2, <3>1, InviteStaffKeeps
            DEF BeingAccepted, ActiveMember
  <2>3. ASSUME NEW q \in StaffRequest, BeginStaffTask(q) PROVE Stays
    BY <1>1, <2>3, BeginStaffTaskKeeps DEF DeadLink, ActiveMember
  <2>4. ASSUME NEW q \in StaffRequest, EndStaffTask(q) PROVE Stays
    BY <1>1, <2>4, EndStaffTaskKeeps
  <2> QED BY <1>1, <2>1, <2>2, <2>3, <2>4 DEF StaffNext
<1>2. StaffInv /\ [StaffNext]_staffVars => [Stays]_staffVars
  BY <1>1
<1> QED BY <1>2, StaffInvariant, PTL DEF StaffSpec, DeadLinksStayDead

-----------------------------------------------------------------------------
(* Sessions *)

\* What the rows, the cookie and the requests under way say of each other.
TokensInv ==
    /\ cookie \in Issued \cup {NoToken}
    /\ \A t \in Issued : tokens[t].family \in Issued
    /\ \A c \in Tab :
          /\ tabCall[c].pc # "idle" => tabCall[c].token \in Issued
          /\ tabCall[c].pc \in {"issued", "answered"} =>
                tabCall[c].next \in Issued

TheSession == IF endedElsewhere THEN {} ELSE {cookie} \ {NoToken}

\* While requests do not overlap and are answered, how far the one under way
\* has come is how far the session has.
OneRequestInv ==
    ~unsettled =>
        /\ \A c, d \in Tab :
              tabCall[c].pc # "idle" /\ tabCall[d].pc # "idle" => c = d
        /\ \A c \in Tab :
              /\ tabCall[c].pc \in {"sent", "leaving"} =>
                    tabCall[c].token = cookie /\ LiveTokens = TheSession
              /\ tabCall[c].pc = "checked" =>
                    /\ tabCall[c].token = cookie /\ ~endedElsewhere
                    /\ LiveTokens = {cookie}
              /\ tabCall[c].pc = "issued" =>
                    /\ tabCall[c].token = cookie /\ ~endedElsewhere
                    /\ LiveTokens = {cookie, tabCall[c].next}
                    /\ tabCall[c].next # cookie
              /\ tabCall[c].pc = "answered" =>
                    ~endedElsewhere /\ LiveTokens = {tabCall[c].next}

SessionsInv == /\ SessionsTypeOK /\ TokensInv /\ OneRequestInv
               /\ CookieIsTheSession

\* There is a smallest id among those that no row has.
LEMMA FreshIsNew ==
    ASSUME Issued # TokenId
    PROVE  FreshToken \in TokenId \ Issued
<1>1. TokenId \ Issued \in SUBSET Nat /\ TokenId \ Issued # {}
  BY DEF TokenId, Issued
<1>2. \E t \in TokenId \ Issued : \A u \in TokenId \ Issued : t <= u
  BY <1>1, SmallestNumber
<1> QED BY <1>2 DEF FreshToken

\* A new row: its id is new, and no row that exists changes.
LEMMA IssueFacts ==
    ASSUME SessionsTypeOK, NEW family \in TokenId, Issue(family)
    PROVE  /\ FreshToken \in TokenId \ Issued
           /\ tokens' \in [TokenId -> TokenRow]
           /\ tokens'[FreshToken].family = family
           /\ \A t \in Issued : tokens'[t] = tokens[t]
           /\ Issued' = Issued \cup {FreshToken}
           /\ LiveTokens' = LiveTokens \cup {FreshToken}
<1>1. FreshToken \in TokenId \ Issued
  BY FreshIsNew DEF Issue
<1>2. tokens' = [tokens EXCEPT ![FreshToken] =
                    [family |-> family, live |-> TRUE]]
  BY DEF Issue
<1>3. /\ tokens' \in [TokenId -> TokenRow]
      /\ tokens'[FreshToken] = [family |-> family, live |-> TRUE]
      /\ \A t \in TokenId : t # FreshToken => tokens'[t] = tokens[t]
  BY <1>1, <1>2 DEF SessionsTypeOK, TokenRow
<1>4. family # NoToken
  BY DEF TokenId, NoToken
<1>5. Issued' = Issued \cup {FreshToken}
  BY <1>1, <1>3, <1>4 DEF Issued
<1>6. LiveTokens' = LiveTokens \cup {FreshToken}
  BY <1>1, <1>3, <1>5 DEF LiveTokens, Issued
<1> QED BY <1>1, <1>3, <1>5, <1>6 DEF Issued

\* Revoking keeps the rows and their families.
LEMMA RevokeFacts ==
    ASSUME SessionsTypeOK, NEW S, Revoke(S)
    PROVE  /\ tokens' \in [TokenId -> TokenRow]
           /\ \A t \in TokenId : tokens'[t].family = tokens[t].family
           /\ Issued' = Issued
           /\ LiveTokens' = LiveTokens \ S
<1>1. /\ tokens' \in [TokenId -> TokenRow]
      /\ \A t \in TokenId : tokens'[t].family = tokens[t].family
      /\ \A t \in TokenId :
            tokens'[t].live = IF t \in S THEN FALSE ELSE tokens[t].live
  <2>1. \A t \in TokenId : tokens[t] \in TokenRow
    BY DEF SessionsTypeOK
  <2>2. \A t \in TokenId :
           LET row == IF t \in S THEN [tokens[t] EXCEPT !.live = FALSE]
                                 ELSE tokens[t]
           IN  /\ row \in TokenRow /\ row.family = tokens[t].family
               /\ row.live = IF t \in S THEN FALSE ELSE tokens[t].live
    BY <2>1 DEF TokenRow
  <2> QED BY <2>2 DEF Revoke
<1>2. Issued' = Issued
  BY <1>1 DEF Issued
<1> QED BY <1>1, <1>2 DEF LiveTokens, Issued

\* The invariant holds before anybody has logged in.
LEMMA SessionsInitially == InitSessions => SessionsInv
<1> SUFFICES ASSUME InitSessions PROVE SessionsInv
  OBVIOUS
<1>1. SessionsTypeOK
  BY DEF InitSessions, SessionsTypeOK, TokenRow, TabCall, NoCall
<1>2. Issued = {} /\ LiveTokens = {}
  BY DEF InitSessions, Issued, LiveTokens
<1>3. \A c \in Tab : tabCall[c].pc = "idle"
  BY DEF InitSessions, NoCall
<1> QED BY <1>1, <1>2, <1>3
        DEF InitSessions, SessionsInv, TokensInv, OneRequestInv,
            CookieIsTheSession

\* A login starts a family of its own and makes its token the cookie.
LEMMA LoginKeeps == ASSUME SessionsInv, Login PROVE SessionsInv'
<1> USE DEF SessionsInv
<1>0. Issue(FreshToken) /\ FreshToken \in TokenId
  BY FreshIsNew DEF Issue, Login
<1>1. /\ tokens' \in [TokenId -> TokenRow]
      /\ FreshToken \in TokenId \ Issued
      /\ tokens'[FreshToken].family = FreshToken
      /\ \A t \in Issued : tokens'[t] = tokens[t]
      /\ Issued' = Issued \cup {FreshToken}
      /\ LiveTokens' = LiveTokens \cup {FreshToken}
  BY <1>0, IssueFacts
<1>2. /\ cookie \notin LiveTokens /\ cookie' = FreshToken
      /\ endedElsewhere' = FALSE /\ UNCHANGED tabCall
      /\ unsettled' = (unsettled \/ TabsBusy(Tab))
  BY DEF Login
<1> HIDE DEF FreshToken
<1>3. SessionsTypeOK'
  BY <1>1, <1>2 DEF SessionsTypeOK, TabsBusy
<1>4. TokensInv'
  BY <1>1, <1>2 DEF TokensInv
<1>5. ASSUME ~unsettled' PROVE ~TabsBusy(Tab) /\ LiveTokens' = {FreshToken}
  <2>1. ~unsettled /\ ~TabsBusy(Tab)
    BY <1>2, <1>5
  <2>2. LiveTokens = IF endedElsewhere THEN {} ELSE {cookie} \ {NoToken}
    BY <2>1 DEF CookieIsTheSession
  <2> QED BY <1>1, <1>2, <2>1, <2>2
<1>6. OneRequestInv'
  BY <1>2, <1>5 DEF OneRequestInv, TabsBusy
<1>7. CookieIsTheSession'
  BY <1>1, <1>2, <1>5 DEF CookieIsTheSession, TokenId, NoToken
<1> QED BY <1>3, <1>4, <1>6, <1>7

\* Logging out everywhere revokes every token, wherever a refresh is.
LEMMA LogoutAllKeeps == ASSUME SessionsInv, LogoutAll PROVE SessionsInv'
<1> USE DEF SessionsInv
<1>1. /\ tokens' \in [TokenId -> TokenRow]
      /\ \A t \in TokenId : tokens'[t].family = tokens[t].family
      /\ Issued' = Issued /\ LiveTokens' = LiveTokens \ TokenId
  BY RevokeFacts DEF LogoutAll
<1>2. /\ \/ cookie' = NoToken /\ UNCHANGED endedElsewhere
         \/ endedElsewhere' = TRUE /\ UNCHANGED cookie
      /\ unsettled' = (unsettled \/ TabsBusy(Tab)) /\ UNCHANGED tabCall
  BY DEF LogoutAll
<1>3. SessionsTypeOK'
  BY <1>1, <1>2 DEF SessionsTypeOK, TabsBusy
<1>4. TokensInv'
  BY <1>1, <1>2 DEF TokensInv, Issued
<1>5. LiveTokens' = {}
  BY <1>1 DEF LiveTokens, Issued
<1>6. OneRequestInv'
  BY <1>2 DEF OneRequestInv, TabsBusy
<1>7. CookieIsTheSession'
  BY <1>2, <1>5 DEF CookieIsTheSession
<1> QED BY <1>3, <1>4, <1>6, <1>7

\* A request takes the cookie as it is when it is sent.
LEMMA SendCookieKeeps ==
    ASSUME SessionsInv, NEW c \in Tab, NEW pc \in {"sent", "leaving"},
           Send(c, pc)
    PROVE  SessionsInv'
<1> USE DEF SessionsInv
<1> DEFINE call == [pc |-> pc, token |-> cookie, next |-> NoToken]
<1>1. /\ tabCall[c].pc = "idle" /\ cookie # NoToken
      /\ tabCall' = [tabCall EXCEPT ![c] = call]
      /\ unsettled' = (unsettled \/ TabsBusy(Tab \ {c}))
      /\ UNCHANGED <<tokens, cookie, endedElsewhere>>
  BY DEF Send
<1>2. call \in TabCall
  BY DEF SessionsTypeOK, TabCall
<1>3. /\ tabCall' \in [Tab -> TabCall] /\ tabCall'[c] = call
      /\ \A d \in Tab : d # c => tabCall'[d] = tabCall[d]
  BY <1>1, <1>2 DEF SessionsTypeOK
<1>4. Issued' = Issued /\ LiveTokens' = LiveTokens
  BY <1>1 DEF Issued, LiveTokens
<1>5. SessionsTypeOK'
  BY <1>1, <1>3 DEF SessionsTypeOK, TabsBusy
<1>6. TokensInv'
  BY <1>1, <1>3, <1>4 DEF TokensInv
<1>7. ASSUME ~unsettled'
      PROVE  /\ \A d \in Tab : tabCall'[d].pc # "idle" => d = c
             /\ LiveTokens = TheSession
  <2>1. ~unsettled /\ ~TabsBusy(Tab \ {c}) /\ ~TabsBusy(Tab)
    BY <1>1, <1>7 DEF TabsBusy
  <2> QED BY <1>3, <2>1 DEF TabsBusy, CookieIsTheSession, TheSession
<1>8. OneRequestInv'
  BY <1>1, <1>3, <1>4, <1>7 DEF OneRequestInv, TheSession
<1>9. CookieIsTheSession'
  BY <1>3 DEF CookieIsTheSession, TabsBusy
<1> QED BY <1>5, <1>6, <1>8, <1>9

\* The check ends a reused token's family, or finds the token live.
LEMMA RefreshCheckKeeps ==
    ASSUME SessionsInv, NEW c \in Tab, RefreshCheck(c) PROVE SessionsInv'
<1> USE DEF SessionsInv
<1> DEFINE t == tabCall[c].token
<1>1. /\ tabCall[c].pc = "sent" /\ t \in Issued
      /\ UNCHANGED <<cookie, endedElsewhere, unsettled>>
  BY DEF RefreshCheck, TokensInv
<1>2. ASSUME ~unsettled
      PROVE  /\ t = cookie /\ LiveTokens = TheSession
             /\ \A d \in Tab : tabCall[d].pc # "idle" => d = c
  BY <1>1, <1>2 DEF OneRequestInv
<1>3. CASE NotRevoked(t) /\ Call(c, "checked") /\ UNCHANGED tokens
  <2>1. /\ tabCall' \in [Tab -> TabCall] /\ tabCall'[c].pc = "checked"
        /\ tabCall'[c].token = t
        /\ \A d \in Tab : d # c => tabCall'[d] = tabCall[d]
    BY <1>3 DEF Call, SessionsTypeOK, TabCall
  <2>2. Issued' = Issued /\ LiveTokens' = LiveTokens
    BY <1>3 DEF Issued, LiveTokens
  <2>3. SessionsTypeOK'
    BY <1>1, <1>3, <2>1 DEF SessionsTypeOK
  <2>4. TokensInv'
    BY <1>1, <1>3, <2>1, <2>2 DEF TokensInv
  <2>5. t \in LiveTokens
    BY <1>1, <1>3 DEF NotRevoked, LiveTokens
  <2>6. ~unsettled => ~endedElsewhere /\ LiveTokens = {cookie}
    BY <1>2, <2>5 DEF TheSession
  <2>7. OneRequestInv'
    BY <1>1, <1>2, <2>1, <2>2, <2>6 DEF OneRequestInv
  <2>8. CookieIsTheSession'
    BY <2>1 DEF CookieIsTheSession, TabsBusy
  <2> QED BY <2>3, <2>4, <2>7, <2>8
<1>4. CASE ~NotRevoked(t) /\ Revoke(Family(t)) /\ End(c)
  <2>1. /\ tabCall' \in [Tab -> TabCall] /\ tabCall'[c].pc = "idle"
        /\ \A d \in Tab : d # c => tabCall'[d] = tabCall[d]
    BY <1>4 DEF End, SessionsTypeOK, TabCall, NoCall
  <2>2. /\ tokens' \in [TokenId -> TokenRow]
        /\ \A u \in TokenId : tokens'[u].family = tokens[u].family
        /\ Issued' = Issued /\ LiveTokens' = LiveTokens \ Family(t)
    BY <1>4, RevokeFacts
  <2>3. SessionsTypeOK'
    BY <1>1, <2>1, <2>2 DEF SessionsTypeOK
  <2>4. TokensInv'
    BY <1>1, <2>1, <2>2 DEF TokensInv, Issued
  <2>5. t \notin LiveTokens
    BY <1>4 DEF NotRevoked, LiveTokens
  <2>6. ~unsettled => endedElsewhere /\ LiveTokens' = {}
    BY <1>1, <1>2, <2>2, <2>5 DEF TheSession, Issued, TokenId, NoToken
  <2>7. OneRequestInv'
    BY <1>1, <1>2, <2>1 DEF OneRequestInv
  <2>8. CookieIsTheSession'
    BY <1>1, <2>6 DEF CookieIsTheSession
  <2> QED BY <2>3, <2>4, <2>7, <2>8
<1> QED BY <1>3, <1>4 DEF RefreshCheck

\* The new token is of the old one's family.
LEMMA RefreshIssueKeeps ==
    ASSUME SessionsInv, NEW c \in Tab, RefreshIssue(c) PROVE SessionsInv'
<1> USE DEF SessionsInv
<1> DEFINE t == tabCall[c].token
<1>1. /\ tabCall[c].pc = "checked" /\ t \in Issued
      /\ tokens[t].family \in Issued
      /\ Issue(tokens[t].family)
      /\ UNCHANGED <<cookie, endedElsewhere, unsettled>>
  BY DEF RefreshIssue, TokensInv
<1>2. /\ tokens' \in [TokenId -> TokenRow]
      /\ FreshToken \in TokenId \ Issued
      /\ tokens'[FreshToken].family = tokens[t].family
      /\ \A u \in Issued : tokens'[u] = tokens[u]
      /\ Issued' = Issued \cup {FreshToken}
      /\ LiveTokens' = LiveTokens \cup {FreshToken}
  <2>1. tokens[t].family \in TokenId
    BY <1>1 DEF Issued
  <2> QED BY <1>1, <2>1, IssueFacts
<1>3. /\ tabCall' \in [Tab -> TabCall] /\ tabCall'[c].pc = "issued"
      /\ tabCall'[c].token = t /\ tabCall'[c].next = FreshToken
      /\ \A d \in Tab : d # c => tabCall'[d] = tabCall[d]
  <2>1. tabCall' = [tabCall EXCEPT ![c].pc = "issued", ![c].next = FreshToken]
    BY DEF RefreshIssue
  <2> HIDE DEF FreshToken
  <2> QED BY <1>2, <2>1 DEF SessionsTypeOK, TabCall
<1> HIDE DEF FreshToken
<1>4. SessionsTypeOK'
  BY <1>1, <1>2, <1>3 DEF SessionsTypeOK
<1>5. TokensInv'
  BY <1>1, <1>2, <1>3 DEF TokensInv
<1>6. ASSUME ~unsettled
      PROVE  /\ t = cookie /\ ~endedElsewhere /\ LiveTokens = {cookie}
             /\ \A d \in Tab : tabCall[d].pc # "idle" => d = c
  BY <1>1, <1>6 DEF OneRequestInv
<1>7. FreshToken # cookie
  BY <1>2 DEF TokensInv, TokenId, NoToken
<1>8. OneRequestInv'
  BY <1>1, <1>2, <1>3, <1>6, <1>7 DEF OneRequestInv
<1>9. CookieIsTheSession'
  BY <1>3 DEF CookieIsTheSession, TabsBusy
<1> QED BY <1>4, <1>5, <1>8, <1>9

\* The old token goes after the new one has been issued.
LEMMA RefreshRevokeKeeps ==
    ASSUME SessionsInv, NEW c \in Tab, RefreshRevoke(c) PROVE SessionsInv'
<1> USE DEF SessionsInv
<1> DEFINE t == tabCall[c].token
<1>1. /\ tabCall[c].pc = "issued" /\ Revoke({t}) /\ Call(c, "answered")
      /\ UNCHANGED <<cookie, endedElsewhere, unsettled>>
  BY DEF RefreshRevoke, RevokeOld
<1>2. /\ tokens' \in [TokenId -> TokenRow]
      /\ \A u \in TokenId : tokens'[u].family = tokens[u].family
      /\ Issued' = Issued /\ LiveTokens' = LiveTokens \ {t}
  BY <1>1, RevokeFacts
<1>3. /\ tabCall' \in [Tab -> TabCall] /\ tabCall'[c].pc = "answered"
      /\ tabCall'[c].next = tabCall[c].next /\ tabCall'[c].token = t
      /\ \A d \in Tab : d # c => tabCall'[d] = tabCall[d]
  BY <1>1 DEF Call, SessionsTypeOK, TabCall
<1>4. SessionsTypeOK'
  BY <1>1, <1>2, <1>3 DEF SessionsTypeOK
<1>5. TokensInv'
  BY <1>1, <1>2, <1>3 DEF TokensInv, Issued
<1>6. ASSUME ~unsettled
      PROVE  /\ ~endedElsewhere /\ LiveTokens' = {tabCall[c].next}
             /\ \A d \in Tab : tabCall[d].pc # "idle" => d = c
  BY <1>1, <1>2, <1>6 DEF OneRequestInv
<1>7. OneRequestInv'
  BY <1>1, <1>3, <1>6 DEF OneRequestInv
<1>8. CookieIsTheSession'
  BY <1>3 DEF CookieIsTheSession, TabsBusy
<1> QED BY <1>4, <1>5, <1>7, <1>8

\* An answer sets the cookie, a logout ends the family, a lost call leaves
\* the session unsettled.
LEMMA RequestEndsKeeps ==
    ASSUME SessionsInv, NEW c \in Tab,
           RefreshAnswer(c) \/ LogoutRevoke(c) \/ CallLost(c)
    PROVE  SessionsInv'
<1> USE DEF SessionsInv
<1>1. /\ tabCall' \in [Tab -> TabCall] /\ tabCall'[c].pc = "idle"
      /\ \A d \in Tab : d # c => tabCall'[d] = tabCall[d]
      /\ endedElsewhere' = endedElsewhere
  BY DEF RefreshAnswer, LogoutRevoke, CallLost, End, SessionsTypeOK, TabCall,
         NoCall
<1>2. ASSUME ~unsettled, tabCall[c].pc # "idle"
      PROVE  \A d \in Tab : tabCall'[d].pc = "idle"
  BY <1>1, <1>2 DEF OneRequestInv
<1>3. CASE RefreshAnswer(c)
  <2>1. /\ tabCall[c].pc = "answered" /\ cookie' = tabCall[c].next
        /\ UNCHANGED <<tokens, unsettled>>
    BY <1>3 DEF RefreshAnswer
  <2>2. Issued' = Issued /\ LiveTokens' = LiveTokens
    BY <2>1 DEF Issued, LiveTokens
  <2>3. cookie' \in Issued
    BY <2>1 DEF TokensInv
  <2>4. SessionsTypeOK'
    BY <1>1, <2>1, <2>3 DEF SessionsTypeOK, Issued
  <2>5. TokensInv'
    BY <1>1, <2>1, <2>2, <2>3 DEF TokensInv
  <2>6. OneRequestInv'
    BY <1>2, <2>1 DEF OneRequestInv
  <2>7. CookieIsTheSession'
    <3>1. cookie' # NoToken
      BY <2>3 DEF Issued, TokenId, NoToken
    <3> QED BY <1>1, <2>1, <2>2, <3>1 DEF CookieIsTheSession, OneRequestInv
  <2> QED BY <2>4, <2>5, <2>6, <2>7
<1>4. CASE LogoutRevoke(c)
  <2>1. /\ tabCall[c].pc = "leaving" /\ cookie' = NoToken
        /\ UNCHANGED unsettled /\ Revoke({tabCall[c].token})
    BY <1>4 DEF LogoutRevoke
  <2>2. /\ tokens' \in [TokenId -> TokenRow]
        /\ \A u \in TokenId : tokens'[u].family = tokens[u].family
        /\ Issued' = Issued /\ LiveTokens' = LiveTokens \ {tabCall[c].token}
    BY <2>1, RevokeFacts
  <2>3. SessionsTypeOK'
    BY <1>1, <2>1, <2>2 DEF SessionsTypeOK
  <2>4. TokensInv'
    BY <1>1, <2>1, <2>2 DEF TokensInv, Issued
  <2>5. OneRequestInv'
    BY <1>2, <2>1 DEF OneRequestInv
  <2>6. CookieIsTheSession'
    BY <1>1, <2>1, <2>2 DEF CookieIsTheSession, OneRequestInv, TheSession
  <2> QED BY <2>3, <2>4, <2>5, <2>6
<1>5. CASE CallLost(c)
  <2>1. unsettled' = TRUE /\ UNCHANGED <<tokens, cookie>>
    BY <1>5 DEF CallLost
  <2>2. Issued' = Issued
    BY <2>1 DEF Issued
  <2>3. SessionsTypeOK' /\ TokensInv'
    BY <1>1, <2>1, <2>2 DEF SessionsTypeOK, TokensInv
  <2> QED BY <2>1, <2>3 DEF OneRequestInv, CookieIsTheSession
<1> QED BY <1>3, <1>4, <1>5

\* Every step keeps the invariant.
LEMMA SessionsStepKeeps ==
    SessionsInv /\ [SessionsNext]_sessionVars => SessionsInv'
<1> SUFFICES ASSUME SessionsInv, [SessionsNext]_sessionVars
             PROVE  SessionsInv'
  OBVIOUS
<1>1. CASE UNCHANGED sessionVars
  BY <1>1 DEF sessionVars, SessionsInv, SessionsTypeOK, TokensInv,
              OneRequestInv, CookieIsTheSession, TheSession, Issued,
              LiveTokens, TabsBusy
<1>2. CASE SessionsNext
  BY <1>2, LoginKeeps, LogoutAllKeeps, SendCookieKeeps, RefreshCheckKeeps,
     RefreshIssueKeeps, RefreshRevokeKeeps, RequestEndsKeeps
     DEF SessionsNext
<1> QED BY <1>1, <1>2

\* The invariant holds in every state.
THEOREM SessionsInvariant == SessionsSpec => []SessionsInv
BY SessionsInitially, SessionsStepKeeps, PTL DEF SessionsSpec

\* As long as requests do not overlap and are answered, the cookie is the one
\* live token of the session (refresh, logout).
THEOREM TheCookieWorks == SessionsSpec => []CookieIsTheSession
<1>1. SessionsInv => CookieIsTheSession
  BY DEF SessionsInv
<1> QED BY <1>1, SessionsInvariant, PTL

\* A family that is over stays so when no row joins it, no row comes back, and
\* no request passes the check with a row of it.
LEMMA StaysOver ==
    ASSUME SessionsInv, NEW t \in Issued, Over(t),
           \A u \in Issued : tokens'[u].family = tokens[u].family,
           \A u \in Issued' :
              u \in Issued \/ tokens'[u].family # tokens[t].family,
           \A u \in LiveTokens' : u \in LiveTokens \/ u \notin Issued,
           \A c \in Tab :
              tabCall'[c].pc = "checked" =>
                 /\ tabCall'[c].token \in Issued
                 /\ \/ tabCall'[c].token \in LiveTokens
                    \/ /\ tabCall[c].pc = "checked"
                       /\ tabCall'[c].token = tabCall[c].token
    PROVE  Over(t)'
<1>1. Family(t)' \subseteq Family(t)
  BY DEF Family
<1>2. Family(t) \subseteq Issued
  BY DEF Family
<1>3. Family(t)' \cap LiveTokens' = {}
  BY <1>1, <1>2 DEF Over
<1>4. ASSUME NEW c \in Tab, tabCall'[c].pc = "checked"
      PROVE  tabCall'[c].token \notin Family(t)'
  BY <1>1, <1>4 DEF Over
<1> QED BY <1>3, <1>4 DEF Over

\* A family of tokens that has ended stays ended: no refresh under way at
\* that moment, and no reuse, gives it a live token again (refresh's check).
THEOREM SessionsEndForGood == SessionsSpec => EndedSessionsStayEnded
<1>1. ASSUME SessionsInv, SessionsNext, NEW t \in Issued, Over(t)
      PROVE  Over(t)'
  <2> USE <1>1 DEF SessionsInv
  <2>1. t \in TokenId /\ tokens[t].family \in Issued
    BY DEF Issued, TokensInv
  <2>2. \A c \in Tab : tabCall[c].pc # "idle" => tabCall[c].token \in Issued
    BY DEF TokensInv
  <2>3. CASE Login
    <3>0. Issue(FreshToken) /\ FreshToken \in TokenId
      BY <2>3, FreshIsNew DEF Issue, Login
    <3>1. /\ FreshToken \in TokenId \ Issued
          /\ tokens'[FreshToken].family = FreshToken
          /\ \A u \in Issued : tokens'[u] = tokens[u]
          /\ Issued' = Issued \cup {FreshToken}
          /\ LiveTokens' = LiveTokens \cup {FreshToken}
      BY <3>0, IssueFacts
    <3>2. UNCHANGED tabCall
      BY <2>3 DEF Login
    <3> HIDE DEF FreshToken
    <3> QED BY <2>1, <2>2, <3>1, <3>2, StaysOver
  <2>4. CASE LogoutAll \/ \E c \in Tab : LogoutRevoke(c)
    <3>1. PICK S : Revoke(S)
      BY <2>4 DEF LogoutAll, LogoutRevoke
    <3>2. /\ \A u \in Issued : tokens'[u].family = tokens[u].family
          /\ Issued' = Issued /\ LiveTokens' \subseteq LiveTokens
      BY <3>1, RevokeFacts DEF Issued
    <3>3. \A c \in Tab : tabCall'[c].pc = "checked" => tabCall'[c] = tabCall[c]
      <4>1. CASE LogoutAll
        BY <4>1 DEF LogoutAll
      <4>2. ASSUME NEW d \in Tab, LogoutRevoke(d)
            PROVE  \A c \in Tab :
                      tabCall'[c].pc = "checked" => tabCall'[c] = tabCall[c]
        BY <4>2 DEF LogoutRevoke, End, NoCall, SessionsTypeOK
      <4> QED BY <2>4, <4>1, <4>2
    <3> QED BY <2>2, <3>2, <3>3, StaysOver
  <2>5. CASE \E c \in Tab : Send(c, "sent") \/ Send(c, "leaving")
                            \/ RefreshAnswer(c) \/ CallLost(c)
    <3>1. UNCHANGED tokens
      BY <2>5 DEF Send, RefreshAnswer, CallLost
    <3>2. \A c \in Tab : tabCall'[c].pc = "checked" => tabCall'[c] = tabCall[c]
      BY <2>5 DEF Send, RefreshAnswer, CallLost, End, NoCall, SessionsTypeOK
    <3>3. Issued' = Issued /\ LiveTokens' = LiveTokens
      BY <3>1 DEF Issued, LiveTokens
    <3> QED BY <2>2, <3>1, <3>2, <3>3, StaysOver
  <2>6. ASSUME NEW c \in Tab, RefreshCheck(c) PROVE Over(t)'
    <3>1. CASE /\ NotRevoked(tabCall[c].token) /\ Call(c, "checked")
               /\ UNCHANGED tokens
      <4>1. Issued' = Issued /\ LiveTokens' = LiveTokens
        BY <3>1 DEF Issued, LiveTokens
      <4>2. tabCall[c].token \in LiveTokens
        BY <2>2, <2>6, <3>1 DEF NotRevoked, LiveTokens, RefreshCheck
      <4>3. /\ tabCall'[c].token = tabCall[c].token
            /\ \A d \in Tab : d # c => tabCall'[d] = tabCall[d]
        BY <3>1 DEF Call, SessionsTypeOK, TabCall
      <4>4. tabCall[c].token \in Issued
        BY <4>2 DEF LiveTokens
      <4> QED BY <2>2, <3>1, <4>1, <4>2, <4>3, <4>4, StaysOver
    <3>2. CASE Revoke(Family(tabCall[c].token)) /\ End(c)
      <4>1. /\ \A u \in TokenId : tokens'[u].family = tokens[u].family
            /\ Issued' = Issued
            /\ LiveTokens' = LiveTokens \ Family(tabCall[c].token)
        BY <3>2, RevokeFacts
      <4>2. \A d \in Tab :
               tabCall'[d].pc = "checked" => tabCall'[d] = tabCall[d]
        BY <3>2 DEF End, NoCall, SessionsTypeOK
      <4> QED BY <2>2, <4>1, <4>2, StaysOver DEF Issued
    <3> QED BY <2>6, <3>1, <3>2 DEF RefreshCheck
  <2>7. ASSUME NEW c \in Tab, RefreshIssue(c) PROVE Over(t)'
    <3> DEFINE x == tabCall[c].token
    <3>1. tabCall[c].pc = "checked" /\ Issue(tokens[x].family) /\ x \in Issued
      BY <2>2, <2>7 DEF RefreshIssue
    <3>2. tokens[x].family # tokens[t].family /\ tokens[x].family \in TokenId
      BY <3>1 DEF Over, Family, TokensInv, Issued
    <3>3. /\ FreshToken \in TokenId \ Issued
          /\ tokens'[FreshToken].family = tokens[x].family
          /\ \A u \in Issued : tokens'[u] = tokens[u]
          /\ Issued' = Issued \cup {FreshToken}
          /\ LiveTokens' = LiveTokens \cup {FreshToken}
      BY <3>1, <3>2, IssueFacts
    <3>4. \A d \in Tab : tabCall'[d].pc = "checked" => tabCall'[d] = tabCall[d]
      BY <2>7 DEF RefreshIssue, SessionsTypeOK, TabCall
    <3> HIDE DEF FreshToken
    <3> QED BY <2>2, <3>2, <3>3, <3>4, StaysOver
  <2>8. ASSUME NEW c \in Tab, RefreshRevoke(c) PROVE Over(t)'
    <3>1. /\ \A u \in TokenId : tokens'[u].family = tokens[u].family
          /\ Issued' = Issued
          /\ LiveTokens' = LiveTokens \ {tabCall[c].token}
      BY <2>8, RevokeFacts DEF RefreshRevoke, RevokeOld
    <3>2. \A d \in Tab : tabCall'[d].pc = "checked" => tabCall'[d] = tabCall[d]
      BY <2>8 DEF RefreshRevoke, Call, SessionsTypeOK, TabCall
    <3> QED BY <2>2, <3>1, <3>2, StaysOver DEF Issued
  <2> QED BY <2>3, <2>4, <2>5, <2>6, <2>7, <2>8 DEF SessionsNext
<1>2. SessionsInv /\ [SessionsNext]_sessionVars =>
         [\A t \in Issued : Over(t) => Over(t)']_sessionVars
  BY <1>1
<1> QED BY <1>2, SessionsInvariant, PTL DEF SessionsSpec, EndedSessionsStayEnded

-----------------------------------------------------------------------------
(* Notifications and their mail *)

\* What a notification's mail is, at each point of its delivery.
MailedSoFar(job, row) ==
    LET rerun == IF job.stalled THEN 1 ELSE 0
        rows == row.sentRows + row.failedRows
        used == DeliveryAttempts - job.left
    IN  /\ row.sentRows <= row.received
        /\ job.pc = "answered" /\ job.delivered =>
              row.sentRows + 1 <= row.received
        /\ job.pc \in {"none", "waiting", "sending", "answered"} =>
              rows <= rerun
        /\ job.pc \notin {"none", "waiting", "sending", "answered"} =>
              rows <= rerun + 1
        /\ job.pc # "answered" => row.received <= row.unrecorded + rows
        /\ job.pc = "answered" => row.received <= row.unrecorded + rows + 1
        /\ job.pc \notin {"done", "failed"} => job.left >= 1
        /\ job.pc \in {"none", "waiting", "sending"} =>
              row.received <= used + rerun
        /\ job.pc \in {"answered", "returned"} =>
              row.received <= used + rerun + 1
        /\ row.received <= DeliveryAttempts + 1

MailAt(n) ==
    /\ delivery[n].pc # "none" => notice[n].pc = "over"
    /\ MailedSoFar(delivery[n], mail[n])

NoticesInv == NotificationsTypeOK /\ \A n \in Notice : MailAt(n)

\* The invariant holds before any event.
LEMMA NoticesInitially == InitNotifications => NoticesInv
<1> SUFFICES ASSUME InitNotifications PROVE NoticesInv
  OBVIOUS
<1>1. NotificationsTypeOK
  BY NoticeAssumption
     DEF InitNotifications, NotificationsTypeOK, NoticeRow, Delivery, Mail
<1>2. \A n \in Notice : MailAt(n)
  BY NoticeAssumption DEF InitNotifications, MailAt, MailedSoFar
<1> QED BY <1>1, <1>2 DEF NoticesInv

\* Steps that leave the deliveries and the mails alone; a handler that has
\* handed over to a delivery is over.
LEMMA HandlersKeep ==
    ASSUME NoticesInv, UNCHANGED <<delivery, mail>>, NotificationsTypeOK',
           \A n \in Notice : notice[n].pc = "over" => notice'[n].pc = "over"
    PROVE  NoticesInv'
BY DEF NoticesInv, MailAt, MailedSoFar

\* Steps of one delivery.
LEMMA DeliveryKeeps ==
    ASSUME NoticesInv, NEW n \in Notice, NEW job \in Delivery,
           NEW row \in Mail, notice' \in [Notice -> NoticeRow],
           delivery' = [delivery EXCEPT ![n] = job],
           mail' = [mail EXCEPT ![n] = row],
           UNCHANGED preference, noticeFaults' \in Nat,
           \A k \in Notice : k # n => notice'[k] = notice[k],
           MailAt(n)'
    PROVE  NoticesInv'
<1>1. NotificationsTypeOK'
  BY DEF NoticesInv, NotificationsTypeOK
<1>2. \A k \in Notice :
         k # n => delivery'[k] = delivery[k] /\ mail'[k] = mail[k]
  BY DEF NoticesInv, NotificationsTypeOK
<1>3. \A k \in Notice : MailAt(k)'
  BY <1>2 DEF NoticesInv, MailAt, MailedSoFar
<1> QED BY <1>1, <1>3 DEF NoticesInv

\* What the handlers and the recipients do leaves deliveries alone.
LEMMA NoticeStepKeeps ==
    ASSUME NoticesInv,
           \/ SetPreference \/ \E e \in DomainEvent : Publish(e)
           \/ \E u \in Recipient : RecipientActs(u)
           \/ \E n \in Notice : ReadVisibility(n) \/ StoreNotice(n)
                                \/ Dispatch(n) \/ HandlerLost(n)
    PROVE  NoticesInv'
<1> USE DEF NoticesInv, NotificationsTypeOK
<1>1. CASE SetPreference
  BY <1>1, HandlersKeep DEF SetPreference
<1>2. ASSUME NEW e \in DomainEvent, Publish(e) PROVE NoticesInv'
  <2>1. /\ UNCHANGED <<preference, delivery, mail, noticeFaults>>
        /\ \A n \in Notice :
              n[1] = e /\ n[2] \in Audience[e] => notice[n].pc = "none"
    <3>1. \A n \in Notice : n[1] = e => n = <<e, n[2]>> /\ n[2] \in Recipient
      BY DEF Notice
    <3> QED BY <1>2, <3>1 DEF Publish
  <2>2. \A n \in Notice : [notice[n] EXCEPT !.pc = "running"] \in NoticeRow
    BY DEF NoticeRow
  <2>3. notice' \in [Notice -> NoticeRow]
    BY <1>2, <2>2 DEF Publish
  <2>4. \A n \in Notice : notice[n].pc = "over" => notice'[n] = notice[n]
    BY <1>2, <2>1 DEF Publish
  <2> QED BY <2>1, <2>3, <2>4, HandlersKeep
<1>3. ASSUME NEW u \in Recipient, RecipientActs(u) PROVE NoticesInv'
  <2>1. UNCHANGED <<preference, delivery, mail, noticeFaults>>
    BY <1>3 DEF RecipientActs
  <2>2. \A n \in Notice :
           /\ [notice[n] EXCEPT !.read = TRUE] \in NoticeRow
           /\ [notice[n] EXCEPT !.read = TRUE].pc = notice[n].pc
           /\ [notice[n] EXCEPT !.archived = TRUE] \in NoticeRow
           /\ [notice[n] EXCEPT !.archived = TRUE].pc = notice[n].pc
           /\ [notice[n] EXCEPT !.deleted = TRUE] \in NoticeRow
           /\ [notice[n] EXCEPT !.deleted = TRUE].pc = notice[n].pc
    BY DEF NoticeRow
  <2>3. /\ notice' \in [Notice -> NoticeRow]
        /\ \A n \in Notice : notice'[n].pc = notice[n].pc
    <3>1. CASE \E n \in Notice :
                  \/ notice' = [notice EXCEPT ![n].read = TRUE]
                  \/ notice' = [notice EXCEPT ![n].archived = TRUE]
                  \/ notice' = [notice EXCEPT ![n].deleted = TRUE]
      BY <2>2, <3>1
    <3>2. CASE notice' = [n \in Notice |->
                  IF n[2] = u /\ Present(n)
                  THEN [notice[n] EXCEPT !.read = TRUE] ELSE notice[n]]
      BY <2>2, <3>2
    <3> QED BY <1>3, <3>1, <3>2 DEF RecipientActs
  <2> QED BY <2>1, <2>3, HandlersKeep
<1>4. ASSUME NEW n \in Notice,
             ReadVisibility(n) \/ StoreNotice(n) \/ Dispatch(n)
             \/ HandlerLost(n)
      PROVE  NoticesInv'
  <2>1. /\ UNCHANGED <<preference, delivery, mail>>
        /\ noticeFaults' \in Nat
        /\ notice[n].pc # "over"
    BY <1>4, NoticeAssumption
       DEF ReadVisibility, StoreNotice, Dispatch, HandlerLost, NoticeFault
  <2>2. preference[n[2]].inApp \in BOOLEAN
    BY DEF Notice
  <2>3. /\ notice' \in [Notice -> NoticeRow]
        /\ \A k \in Notice : k # n => notice'[k] = notice[k]
    <3>1. ASSUME NEW row \in NoticeRow, notice' = [notice EXCEPT ![n] = row]
          PROVE  /\ notice' \in [Notice -> NoticeRow]
                 /\ \A k \in Notice : k # n => notice'[k] = notice[k]
      BY <3>1
    <3>2. notice[n] \in NoticeRow
      OBVIOUS
    <3>3. CASE ReadVisibility(n)
      <4>1. [notice[n] EXCEPT !.pc = "storing",
                              !.shown = preference[n[2]].inApp] \in NoticeRow
        BY <2>2, <3>2 DEF NoticeRow
      <4> QED BY <3>1, <3>3, <4>1 DEF ReadVisibility
    <3>4. CASE StoreNotice(n)
      <4>1. [notice[n] EXCEPT !.pc = "dispatching", !.stored = TRUE]
               \in NoticeRow
        BY <3>2 DEF NoticeRow
      <4> QED BY <3>1, <3>4, <4>1 DEF StoreNotice
    <3>5. CASE Dispatch(n) \/ HandlerLost(n)
      <4>1. /\ [notice[n] EXCEPT !.pc = "queueing"] \in NoticeRow
            /\ [notice[n] EXCEPT !.pc = "over"] \in NoticeRow
        BY <3>2 DEF NoticeRow
      <4>2. \/ notice' = [notice EXCEPT ![n] =
                              [notice[n] EXCEPT !.pc = "queueing"]]
            \/ notice' = [notice EXCEPT ![n] =
                              [notice[n] EXCEPT !.pc = "over"]]
        BY <3>5 DEF Dispatch, HandlerLost
      <4> QED BY <3>1, <4>1, <4>2
    <3> QED BY <1>4, <3>3, <3>4, <3>5
  <2> QED BY <2>1, <2>3, HandlersKeep
<1> QED BY <1>1, <1>2, <1>3, <1>4

\* A step of a delivery that leaves its notice alone.
LEMMA JobKeeps ==
    ASSUME NoticesInv, NEW n \in Notice, NEW job \in Delivery,
           NEW row \in Mail, UNCHANGED <<preference, notice>>,
           noticeFaults' \in Nat, delivery[n].pc # "none",
           delivery' = [delivery EXCEPT ![n] = job],
           mail' = [mail EXCEPT ![n] = row],
           MailedSoFar(job, row)
    PROVE  NoticesInv'
<1>1. notice' \in [Notice -> NoticeRow] /\ notice[n].pc = "over"
  BY DEF NoticesInv, NotificationsTypeOK, MailAt
<1>2. delivery'[n] = job /\ mail'[n] = row
  BY DEF NoticesInv, NotificationsTypeOK
<1>3. MailAt(n)'
  BY <1>1, <1>2 DEF MailAt, MailedSoFar
<1> QED BY <1>1, <1>3, DeliveryKeeps

\* The numbers of a delivery and of its mails.
LEMMA JobAndRow ==
    ASSUME NoticesInv, NEW n \in Notice
    PROVE  /\ delivery[n] \in Delivery /\ mail[n] \in Mail
           /\ delivery[n].left \in Nat /\ delivery[n].left <= DeliveryAttempts
           /\ delivery[n].stalled \in BOOLEAN
           /\ mail[n].received \in Nat /\ mail[n].sentRows \in Nat
           /\ mail[n].failedRows \in Nat /\ mail[n].unrecorded \in Nat
           /\ MailedSoFar(delivery[n], mail[n])
           /\ delivery = [delivery EXCEPT ![n] = delivery[n]]
           /\ mail = [mail EXCEPT ![n] = mail[n]]
           /\ noticeFaults \in Nat /\ DeliveryAttempts \in Nat \ {0}
BY NoticeAssumption
   DEF NoticesInv, NotificationsTypeOK, MailAt, Delivery, Mail

\* The job is handed to the queue.
LEMMA EnqueueKeeps ==
    ASSUME NoticesInv, NEW n \in Notice, EnqueueDelivery(n)
    PROVE  NoticesInv'
<1> DEFINE next == [delivery[n] EXCEPT !.pc = "waiting"]
<1>1. /\ notice[n].pc = "queueing"
      /\ UNCHANGED <<preference, mail, noticeFaults>>
      /\ notice' = [notice EXCEPT ![n].pc = "over"]
      /\ delivery' = [delivery EXCEPT ![n] = next]
  BY DEF EnqueueDelivery
<1>2. /\ notice' \in [Notice -> NoticeRow] /\ notice'[n].pc = "over"
      /\ \A k \in Notice : k # n => notice'[k] = notice[k]
  BY <1>1 DEF NoticesInv, NotificationsTypeOK, NoticeRow
<1>3. /\ next \in Delivery /\ next.pc = "waiting"
      /\ next.left = delivery[n].left /\ next.stalled = delivery[n].stalled
      /\ delivery[n].pc = "none"
  BY <1>1, JobAndRow DEF NoticesInv, MailAt, Delivery
<1>4. MailedSoFar(next, mail[n])
  <2> HIDE DEF next
  <2> QED BY <1>3, JobAndRow DEF MailedSoFar
<1>5. delivery'[n] = next /\ mail'[n] = mail[n]
  BY <1>1 DEF NoticesInv, NotificationsTypeOK
<1>6. MailAt(n)'
  BY <1>2, <1>4, <1>5 DEF MailAt, MailedSoFar
<1>7. /\ mail' = [mail EXCEPT ![n] = mail[n]] /\ mail[n] \in Mail
      /\ noticeFaults' \in Nat
  BY <1>1, JobAndRow
<1> QED BY <1>1, <1>2, <1>3, <1>6, <1>7, DeliveryKeeps

\* The worker's own steps.
LEMMA JobStepKeeps ==
    ASSUME NoticesInv, NEW n \in Notice,
           \/ StartDelivery(n) \/ SendMail(n)
           \/ RecordDelivery(n) \/ CompleteDelivery(n)
    PROVE  NoticesInv'
<1> DEFINE job == delivery[n]
           row == mail[n]
<1>1. /\ job \in Delivery /\ row \in Mail
      /\ job.left \in Nat /\ job.left <= DeliveryAttempts
      /\ job.stalled \in BOOLEAN /\ DeliveryAttempts \in Nat \ {0}
      /\ row.received \in Nat /\ row.sentRows \in Nat
      /\ row.failedRows \in Nat /\ row.unrecorded \in Nat
      /\ MailedSoFar(job, row) /\ noticeFaults \in Nat
      /\ mail = [mail EXCEPT ![n] = row]
  BY JobAndRow
<1>2. CASE StartDelivery(n) \/ CompleteDelivery(n)
  <2>1. PICK pc \in {"sending", "returned", "done"} :
           /\ delivery' = [delivery EXCEPT ![n] = [job EXCEPT !.pc = pc]]
           /\ \/ job.pc = "waiting" /\ pc \in {"sending", "returned"}
              \/ job.pc = "returned" /\ pc = "done"
    <3>1. CASE StartDelivery(n)
      <4> DEFINE pc == IF Present(n) THEN "sending" ELSE "returned"
      <4>1. /\ job.pc = "waiting"
            /\ delivery' = [delivery EXCEPT ![n] = [job EXCEPT !.pc = pc]]
        BY <3>1 DEF StartDelivery
      <4>2. pc \in {"sending", "returned"}
        OBVIOUS
      <4> HIDE DEF job, pc
      <4> QED BY <4>1, <4>2
    <3>2. CASE CompleteDelivery(n)
      BY <3>2 DEF CompleteDelivery, Completed
    <3> QED BY <1>2, <3>1, <3>2
  <2> DEFINE next == [job EXCEPT !.pc = pc]
  <2>2. /\ next \in Delivery /\ next.pc = pc /\ next.left = job.left
        /\ next.stalled = job.stalled
    BY <1>1 DEF Delivery
  <2>3. MailedSoFar(next, row)
    <3> HIDE DEF next
    <3> QED BY <1>1, <2>1, <2>2 DEF MailedSoFar
  <2>4. UNCHANGED <<preference, notice, mail, noticeFaults>>
    BY <1>2 DEF StartDelivery, CompleteDelivery
  <2> QED BY <1>1, <2>1, <2>2, <2>3, <2>4, JobKeeps
<1>3. CASE SendMail(n)
  <2>1. PICK received \in BOOLEAN, delivered \in BOOLEAN :
           /\ delivered => received
           /\ mail' = [mail EXCEPT
                 ![n].received = @ + IF received THEN 1 ELSE 0]
           /\ delivery' = [delivery EXCEPT ![n].pc = "answered",
                                           ![n].delivered = delivered]
    BY <1>3 DEF SendMail
  <2> DEFINE next == [job EXCEPT !.pc = "answered", !.delivered = delivered]
             copies == IF received THEN 1 ELSE 0
             sent == [row EXCEPT !.received = @ + copies]
  <2>2. copies \in 0..1 /\ (delivered => copies = 1)
    BY <2>1
  <2>3. /\ next \in Delivery /\ next.pc = "answered" /\ next.left = job.left
        /\ next.stalled = job.stalled /\ next.delivered = delivered
    BY <1>1 DEF Delivery
  <2>4. /\ sent.received = row.received + copies
        /\ sent.sentRows = row.sentRows /\ sent.failedRows = row.failedRows
        /\ sent.unrecorded = row.unrecorded
    BY <1>1 DEF Mail
  <2>5. sent \in Mail
    <3>1. row.received + copies \in Nat
      BY <1>1, <2>2
    <3> QED BY <1>1, <3>1 DEF Mail
  <2>6. /\ job.pc = "sending" /\ UNCHANGED <<preference, notice, noticeFaults>>
        /\ delivery' = [delivery EXCEPT ![n] = next]
        /\ mail' = [mail EXCEPT ![n] = sent]
    BY <1>3, <2>1 DEF SendMail
  <2>7. MailedSoFar(next, sent)
    <3> HIDE DEF next, sent, copies
    <3> QED BY <1>1, <2>2, <2>3, <2>4, <2>6 DEF MailedSoFar
  <2> HIDE DEF next, sent
  <2> QED BY <1>1, <2>3, <2>5, <2>6, <2>7, JobKeeps
<1>4. CASE RecordDelivery(n)
  <2> DEFINE next == [job EXCEPT !.pc = "returned"]
             recorded == IF job.delivered
                         THEN [row EXCEPT !.sentRows = @ + 1]
                         ELSE [row EXCEPT !.failedRows = @ + 1]
  <2>1. /\ job.pc = "answered" /\ UNCHANGED <<preference, notice, noticeFaults>>
        /\ delivery' = [delivery EXCEPT ![n] = next]
        /\ mail' = [mail EXCEPT ![n] = recorded]
    BY <1>4 DEF RecordDelivery
  <2>2. next \in Delivery /\ recorded \in Mail
    BY <1>1 DEF Delivery, Mail
  <2>3. /\ next.pc = "returned" /\ next.left = job.left
        /\ next.stalled = job.stalled
    BY <1>1 DEF Delivery
  <2>4. /\ recorded.received = row.received
        /\ recorded.unrecorded = row.unrecorded
        /\ \/ /\ job.delivered /\ recorded.sentRows = row.sentRows + 1
              /\ recorded.failedRows = row.failedRows
           \/ /\ recorded.sentRows = row.sentRows
              /\ recorded.failedRows = row.failedRows + 1
    BY <1>1 DEF Mail
  <2>5. MailedSoFar(next, recorded)
    <3> HIDE DEF next, recorded
    <3> QED BY <1>1, <2>1, <2>3, <2>4 DEF MailedSoFar
  <2> HIDE DEF next, recorded
  <2> QED BY <1>1, <2>1, <2>2, <2>5, JobKeeps
<1> QED BY <1>2, <1>3, <1>4

\* The faults of a delivery.
LEMMA JobFaultKeeps ==
    ASSUME NoticesInv, NEW n \in Notice, DeliveryThrows(n) \/ WorkerDies(n)
    PROVE  NoticesInv'
<1> DEFINE job == delivery[n]
           row == mail[n]
           missed == IF job.pc = "answered" THEN 1 ELSE 0
           lost == [row EXCEPT !.unrecorded = @ + missed]
<1>1. /\ job \in Delivery /\ row \in Mail
      /\ job.left \in Nat /\ job.left <= DeliveryAttempts
      /\ job.stalled \in BOOLEAN /\ DeliveryAttempts \in Nat \ {0}
      /\ row.received \in Nat /\ row.sentRows \in Nat
      /\ row.failedRows \in Nat /\ row.unrecorded \in Nat
      /\ MailedSoFar(job, row) /\ noticeFaults \in Nat
  BY JobAndRow
<1>2. /\ mail' = [mail EXCEPT ![n] = lost] /\ UNCHANGED <<preference, notice>>
      /\ noticeFaults' \in Nat
      /\ job.pc \in {"waiting", "sending", "answered", "returned"}
  BY <1>1 DEF DeliveryThrows, WorkerDies, Unrecorded, NoticeFault
<1>3. job.left >= 1
  BY <1>1, <1>2 DEF MailedSoFar
<1>4. lost \in Mail
  BY <1>1 DEF Mail
<1>5. /\ lost.received = row.received /\ lost.sentRows = row.sentRows
      /\ lost.failedRows = row.failedRows
      /\ lost.unrecorded = row.unrecorded + missed
  BY <1>1 DEF Mail
<1>6. CASE DeliveryThrows(n)
  <2> DEFINE next == [job EXCEPT
                !.pc = IF job.left = 1 THEN "failed" ELSE "waiting",
                !.left = @ - 1]
  <2>1. /\ delivery' = [delivery EXCEPT ![n] = next]
        /\ job.pc \in {"waiting", "sending", "answered"}
    BY <1>6 DEF DeliveryThrows
  <2>2. /\ next.pc = IF job.left = 1 THEN "failed" ELSE "waiting"
        /\ next.left = job.left - 1 /\ next.stalled = job.stalled
    BY <1>1 DEF Delivery
  <2>3. next \in Delivery
    <3>1. job.left - 1 \in 0..DeliveryAttempts
      BY <1>1, <1>3
    <3> QED BY <1>1, <3>1 DEF Delivery
  <2>4. MailedSoFar(next, lost)
    <3> HIDE DEF next, lost
    <3> QED BY <1>1, <1>3, <1>5, <2>1, <2>2 DEF MailedSoFar
  <2> HIDE DEF next, lost
  <2> QED BY <1>2, <1>4, <2>1, <2>3, <2>4, JobKeeps
<1>7. CASE WorkerDies(n)
  <2> DEFINE next == [job EXCEPT
                !.pc = IF job.stalled THEN "failed" ELSE "waiting",
                !.stalled = TRUE]
  <2>1. delivery' = [delivery EXCEPT ![n] = next]
    BY <1>7 DEF WorkerDies
  <2>2. /\ next.pc = IF job.stalled THEN "failed" ELSE "waiting"
        /\ next.left = job.left /\ next.stalled = TRUE
    BY <1>1 DEF Delivery
  <2>3. next \in Delivery
    BY <1>1 DEF Delivery
  <2>4. MailedSoFar(next, lost)
    <3> HIDE DEF next, lost
    <3> QED BY <1>1, <1>2, <1>3, <1>5, <2>2 DEF MailedSoFar
  <2> HIDE DEF next, lost
  <2> QED BY <1>2, <1>4, <2>1, <2>3, <2>4, JobKeeps
<1> QED BY <1>6, <1>7

\* Every step keeps the invariant.
LEMMA NoticesStepKeeps ==
    NoticesInv /\ [NotificationsNext]_noticeVars => NoticesInv'
<1> SUFFICES ASSUME NoticesInv, [NotificationsNext]_noticeVars
             PROVE  NoticesInv'
  OBVIOUS
<1>1. CASE UNCHANGED noticeVars
  BY <1>1, HandlersKeep DEF NoticesInv, NotificationsTypeOK, noticeVars
<1>2. CASE NotificationsNext
  BY <1>2, NoticeStepKeeps, EnqueueKeeps, JobStepKeeps, JobFaultKeeps
     DEF NotificationsNext
<1> QED BY <1>1, <1>2

\* The invariant holds in every state.
THEOREM NoticesInvariant == NotificationsSpec => []NoticesInv
BY NoticesInitially, NoticesStepKeeps, PTL DEF NotificationsSpec

\* A recipient gets a further copy of a mail only after an answer that no row
\* records or from the one rerun of a stalled job, each row that says SENT
\* stands for a mail, and a processor that has returned leaves no mail without a
\* row but those (the delivery worker and the retry of its queue).
THEOREM MailsAgainOnlyAfterFault ==
    NotificationsSpec => []MailedAgainOnlyAfterFault
<1>1. NoticesInv => MailedAgainOnlyAfterFault
  <2> SUFFICES ASSUME NoticesInv, NEW n \in Notice
               PROVE  /\ mail[n].received <=
                            1 + mail[n].unrecorded
                            + IF delivery[n].stalled THEN 1 ELSE 0
                      /\ mail[n].received <= DeliveryAttempts + 1
                      /\ mail[n].sentRows <= mail[n].received
                      /\ delivery[n].pc \in {"returned", "done", "failed"} =>
                            mail[n].received <=
                               mail[n].unrecorded + mail[n].sentRows
                               + mail[n].failedRows
    BY DEF MailedAgainOnlyAfterFault
  <2> QED BY JobAndRow DEF MailedSoFar
<1> QED BY <1>1, NoticesInvariant, PTL

-----------------------------------------------------------------------------
(* Messages and what has been read of them *)

\* What has been posted after m, up to M.
Between(m, M) == {k \in ToSet(posted) : m < k /\ k <= M}

\* Every message up to M has been seen, was committed after a later one, or is a
\* page away from M.
Covered(M) ==
    \A m \in Visible :
        m <= M =>
            \/ m \in seen
            \/ \E k \in MessageId : k > m /\ CommittedBefore(k, m)
            \/ Cardinality(Between(m, M)) >= PageSize

\* What the read position is, or may become: a window marks the last message of
\* its thread.
ReadPoint ==
    {lastRead} \cup {mark[2] : mark \in marks}
    \cup {LastOf(chat[w].thread) :
              w \in {v \in ChatWindow : chat[v].thread # {}}}

\* Only a window that shows something offers earlier messages.
ThreadsInv == \A w \in ChatWindow : chat[w].more => chat[w].thread # {}

\* The ids of requests under way are their own.
IdsTaken ==
    /\ \A m \in ToSet(posted) : m < nextMessage
    /\ \A q \in SendRequest : sending[q].pc # "idle" =>
          /\ sending[q].id \in MessageId /\ sending[q].id < nextMessage
          /\ sending[q].id \notin ToSet(posted)
    /\ \A q, r \in SendRequest :
          /\ sending[q].pc # "idle" /\ sending[r].pc # "idle"
          /\ sending[q].id = sending[r].id
          => q = r

PointAt(M) == (M = NoMessage \/ M \in ToSet(posted)) /\ Covered(M)

MessagesInv ==
    /\ MessagingTypeOK /\ IdsTaken /\ ThreadsInv
    /\ \A M \in ReadPoint : PointAt(M)

\* The ids of messages are positive numbers.
LEMMA MessageSets ==
    ASSUME MessagingTypeOK
    PROVE  /\ ToSet(posted) \subseteq MessageId /\ Visible \subseteq MessageId
           /\ MessageId \subseteq Nat \ {0} /\ Cardinality(Unread) \in Nat
<1>1. ToSet(posted) \subseteq MessageId
  BY DEF MessagingTypeOK, ToSet
<1>2. Visible \subseteq MessageId /\ Unread \subseteq MessageId
  BY <1>1 DEF Visible, Unread
<1>3. MessageId \subseteq Nat \ {0} /\ IsFiniteSet(MessageId)
  BY MessagingAssumption, FS_Interval DEF MessageId
<1>4. Cardinality(Unread) \in Nat
  BY <1>2, <1>3, FS_Subset, FS_CardinalityType
<1> QED BY <1>1, <1>2, <1>3, <1>4

\* A set of positive numbers up to some bound has a greatest element.
LEMMA GreatestIsOne ==
    ASSUME NEW limit \in Nat, NEW S \in SUBSET (1..limit), S # {}
    PROVE  Max(S) \in S /\ \A y \in S : Max(S) >= y
<1> DEFINE D == {limit - x : x \in S}
<1>1. \A x \in S : x \in Nat /\ limit - x \in Nat
  OBVIOUS
<1>2. D \subseteq Nat /\ D # {}
  BY <1>1
<1>3. PICK d \in D : \A e \in D : d <= e
  BY <1>2, SmallestNumber
<1>4. PICK last \in S : d = limit - last
  OBVIOUS
<1>5. ASSUME NEW y \in S PROVE last >= y
  <2>1. limit - last <= limit - y
    BY <1>3, <1>4
  <2>2. last \in Nat /\ y \in Nat /\ limit \in Nat
    BY <1>1
  <2> QED BY <2>1, <2>2
<1> QED BY <1>5 DEF Max

\* The last message of a thread is the greatest of it.
LEMMA LastIsOne ==
    ASSUME NEW thread \in SUBSET MessageId, thread # {}
    PROVE  /\ LastOf(thread) \in thread
           /\ \A y \in thread : LastOf(thread) >= y
           /\ LastOf(thread) \in Nat \ {0}
<1>1. MessageLimit \in Nat /\ MessageId = 1..MessageLimit
  BY MessagingAssumption DEF MessageId
<1>2. thread \in SUBSET (1..MessageLimit)
  BY <1>1
<1>3. Max(thread) \in thread /\ \A y \in thread : Max(thread) >= y
  BY <1>1, <1>2, GreatestIsOne
<1>4. Max(thread) \in 1..MessageLimit
  BY <1>2, <1>3
<1>5. Max(thread) \in Nat \ {0}
  BY <1>1, <1>4
<1> QED BY <1>3, <1>5 DEF LastOf

\* Sets of messages are finite.
LEMMA MessagesFinite ==
    ASSUME NEW S \in SUBSET MessageId, NEW T \in SUBSET S
    PROVE  /\ Cardinality(T) \in Nat /\ Cardinality(S) \in Nat
           /\ Cardinality(T) <= Cardinality(S)
<1>1. IsFiniteSet(MessageId)
  BY MessagingAssumption, FS_Interval DEF MessageId
<1> QED BY <1>1, FS_Subset, FS_CardinalityType

\* The newest of some messages hold the last of them, and the others are at
\* least as many messages away from it.
LEMMA NewestHoldTheLast ==
    ASSUME NEW messages \in SUBSET MessageId, NEW k \in Nat \ {0}
    PROVE  /\ Newest(k, messages) \subseteq messages
           /\ messages # {} => LastOf(messages) \in Newest(k, messages)
           /\ \A m \in messages \ Newest(k, messages) :
                 Cardinality({x \in messages : x > m}) >= k
<1>1. MessageId \subseteq Nat
  BY MessagingAssumption DEF MessageId
<1>2. ASSUME messages # {} PROVE LastOf(messages) \in Newest(k, messages)
  <2>1. /\ LastOf(messages) \in messages
        /\ \A y \in messages : LastOf(messages) >= y
        /\ LastOf(messages) \in Nat
    BY <1>2, LastIsOne
  <2>2. ASSUME NEW x \in messages PROVE ~(x > LastOf(messages))
    <3>1. x \in Nat /\ LastOf(messages) >= x
      BY <1>1, <2>1
    <3> QED BY <2>1, <3>1
  <2>3. {x \in messages : x > LastOf(messages)} = {}
    BY <2>2
  <2>4. Cardinality({x \in messages : x > LastOf(messages)}) = 0
    BY <2>3, FS_EmptySet
  <2> QED BY <2>1, <2>4 DEF Newest
<1>3. ASSUME NEW m \in messages \ Newest(k, messages)
      PROVE  Cardinality({x \in messages : x > m}) >= k
  <2> DEFINE later == {x \in messages : x > m}
  <2>1. Cardinality(later) \in Nat
    BY MessagesFinite
  <2>2. ~(Cardinality(later) < k)
    BY <1>3 DEF Newest
  <2> HIDE DEF later
  <2>3. Cardinality(later) >= k
    BY <2>1, <2>2
  <2> QED BY <2>3 DEF later
<1> QED BY <1>2, <1>3 DEF Newest

\* The invariant holds before any message.
LEMMA MessagesInitially == InitMessaging => MessagesInv
<1> SUFFICES ASSUME InitMessaging PROVE MessagesInv
  OBVIOUS
<1>1. MessagingTypeOK
  <2>1. nextMessage \in 1..(MessageLimit + 1)
    BY MessagingAssumption DEF InitMessaging
  <2>2. sending \in [SendRequest -> Sending] /\ chat \in [ChatWindow -> Chat]
    BY DEF InitMessaging, Sending, Chat, NoMessage
  <2>3. posted \in Seq(MessageId)
    BY DEF InitMessaging
  <2> QED BY <2>1, <2>2, <2>3 DEF InitMessaging, MessagingTypeOK
<1>2. ToSet(posted) = {} /\ Visible = {}
  BY DEF InitMessaging, ToSet, Visible
<1>3. ReadPoint \subseteq {NoMessage}
  BY DEF InitMessaging, ReadPoint
<1>4. IdsTaken /\ ThreadsInv
  BY <1>2 DEF InitMessaging, IdsTaken, ThreadsInv
<1>5. \A M \in ReadPoint : PointAt(M)
  BY <1>2, <1>3 DEF PointAt, Covered
<1> QED BY <1>1, <1>4, <1>5 DEF MessagesInv

\* Steps that commit nothing uncover no message.
LEMMA PointKeeps ==
    ASSUME NEW M, PointAt(M), posted' = posted, removed \subseteq removed',
           seen \subseteq seen'
    PROVE  PointAt(M)'
<1>1. Visible' \subseteq Visible /\ ToSet(posted)' = ToSet(posted)
  BY DEF Visible, ToSet
<1>2. \A m : Between(m, M)' = Between(m, M)
  BY <1>1 DEF Between
<1>3. Covered(M)'
  BY <1>1, <1>2 DEF PointAt, Covered, CommittedBefore
<1> QED BY <1>1, <1>3 DEF PointAt

\* Steps that commit nothing, and after which nothing new may become the read
\* position.
LEMMA PointsKeep ==
    ASSUME \A M \in ReadPoint : PointAt(M), ReadPoint' \subseteq ReadPoint,
           posted' = posted, removed \subseteq removed', seen \subseteq seen'
    PROVE  \A M \in ReadPoint' : PointAt(M)'
BY PointKeeps

\* A request that sends takes an id of its own, or gives it up.
LEMMA SendKeeps ==
    ASSUME MessagesInv, NEW q \in SendRequest,
           NumberMessage(q) \/ InsertMessage(q) \/ TouchLastMessageAt(q)
           \/ SendRolledBack(q)
    PROVE  MessagesInv'
<1>1. /\ UNCHANGED <<posted, removed, lastRead, chat, marks, seen, marksUpset>>
  BY DEF NumberMessage, InsertMessage, TouchLastMessageAt, SendRolledBack,
         SendStep
<1>2. ReadPoint' = ReadPoint
  BY <1>1 DEF ReadPoint
<1>3. \A M \in ReadPoint' : PointAt(M)'
  BY <1>1, <1>2, PointsKeep DEF MessagesInv
<1>4. /\ MessagingTypeOK /\ IdsTaken /\ sending \in [SendRequest -> Sending]
      /\ ToSet(posted)' = ToSet(posted) /\ ToSet(posted) \subseteq MessageId
      /\ MessageId \subseteq Nat \ {0} /\ nextMessage \in Nat
  BY <1>1, MessageSets, MessagingAssumption
     DEF MessagesInv, MessagingTypeOK, ToSet
<1>7. ThreadsInv'
  BY <1>1 DEF MessagesInv, ThreadsInv
<1>5. CASE NumberMessage(q)
  <2>1. /\ sending[q].pc = "idle" /\ nextMessage \in MessageId
        /\ sending' =
              [sending EXCEPT ![q] = [pc |-> "numbered", id |-> nextMessage]]
        /\ nextMessage' = nextMessage + 1
    BY <1>5 DEF NumberMessage
  <2>2. MessagingTypeOK'
    BY <1>1, <1>4, <2>1, MessagingAssumption
       DEF MessagingTypeOK, Sending, MessageId
  <2>3. \A r \in SendRequest : sending'[r] =
           IF r = q THEN [pc |-> "numbered", id |-> nextMessage]
           ELSE sending[r]
    BY <1>4, <2>1
  <2>4. /\ \A m \in ToSet(posted) : m < nextMessage' /\ m # nextMessage
        /\ \A r \in SendRequest : sending[r].pc # "idle" =>
              sending[r].id < nextMessage' /\ sending[r].id # nextMessage
    <3>1. \A i \in MessageId : i < nextMessage =>
             i < nextMessage' /\ i # nextMessage
      BY <1>4, <2>1
    <3>2. /\ \A m \in ToSet(posted) : m \in MessageId /\ m < nextMessage
          /\ \A r \in SendRequest : sending[r].pc # "idle" =>
                sending[r].id \in MessageId /\ sending[r].id < nextMessage
      BY <1>4 DEF IdsTaken
    <3> QED BY <3>1, <3>2
  <2>5. nextMessage < nextMessage'
    BY <1>4, <2>1
  <2>6. IdsTaken'
    BY <1>4, <2>1, <2>3, <2>4, <2>5 DEF IdsTaken
  <2> QED BY <1>3, <1>7, <2>2, <2>6 DEF MessagesInv
<1>6. CASE InsertMessage(q) \/ TouchLastMessageAt(q) \/ SendRolledBack(q)
  <2>1. PICK pc \in {"inserted", "touched", "idle"} :
           /\ sending[q].pc # "idle"
           /\ sending' = [sending EXCEPT ![q].pc = pc]
           /\ nextMessage' = nextMessage
    BY <1>6 DEF InsertMessage, TouchLastMessageAt, SendRolledBack, SendStep
  <2>2. /\ sending' \in [SendRequest -> Sending]
        /\ \A r \in SendRequest : /\ sending'[r].id = sending[r].id
                                  /\ sending'[r].pc # "idle" =>
                                        sending[r].pc # "idle"
    BY <1>4, <2>1 DEF Sending
  <2>3. MessagingTypeOK'
    BY <1>1, <1>4, <2>1, <2>2 DEF MessagingTypeOK
  <2>4. IdsTaken'
    BY <1>4, <2>1, <2>2 DEF IdsTaken
  <2> QED BY <1>3, <1>7, <2>3, <2>4 DEF MessagesInv
<1> QED BY <1>5, <1>6

\* A message that is committed after one with a higher id is covered by it.
LEMMA CommitKeeps ==
    ASSUME MessagesInv, NEW q \in SendRequest, CommitMessage(q)
    PROVE  MessagesInv'
<1> DEFINE id == sending[q].id
           n == Len(posted) + 1
<1>1. /\ sending[q].pc = "touched"
      /\ sending' = [sending EXCEPT ![q].pc = "idle"]
      /\ posted' = Append(posted, id)
      /\ UNCHANGED <<nextMessage, removed, lastRead, chat, marks, seen,
                     marksUpset>>
  BY DEF CommitMessage, SendStep
<1>2. /\ MessagingTypeOK /\ IdsTaken /\ sending \in [SendRequest -> Sending]
      /\ id \in MessageId /\ id < nextMessage /\ id \notin ToSet(posted)
      /\ posted \in Seq(MessageId)
      /\ ToSet(posted) \subseteq MessageId /\ MessageId \subseteq Nat \ {0}
  BY <1>1, MessageSets DEF MessagesInv, MessagingTypeOK, IdsTaken
<1>3. /\ posted' \in Seq(MessageId) /\ n \in DOMAIN posted' /\ posted'[n] = id
      /\ DOMAIN posted' = DOMAIN posted \cup {n}
      /\ \A i \in DOMAIN posted :
            i \in DOMAIN posted' /\ i < n /\ posted'[i] = posted[i]
  BY <1>1, <1>2
<1> HIDE DEF n
<1>4. /\ ToSet(posted)' = ToSet(posted) \cup {id}
      /\ Visible' \subseteq Visible \cup {id}
  BY <1>1, <1>3 DEF ToSet, Visible
<1>5. /\ sending' \in [SendRequest -> Sending]
      /\ \A r \in SendRequest : /\ sending'[r].id = sending[r].id
                                /\ sending'[r].pc # "idle" =>
                                      r # q /\ sending[r].pc # "idle"
  BY <1>1, <1>2 DEF Sending
<1>6. MessagingTypeOK'
  BY <1>1, <1>2, <1>3, <1>5 DEF MessagingTypeOK
<1>7. IdsTaken'
  BY <1>1, <1>2, <1>4, <1>5 DEF IdsTaken
<1>8. ASSUME NEW M \in ReadPoint' PROVE PointAt(M)'
  <2>1. M \in ReadPoint
    BY <1>1 DEF ReadPoint
  <2>2. (M = NoMessage \/ M \in ToSet(posted)) /\ Covered(M)
    BY <2>1 DEF MessagesInv, PointAt
  <2>3. ASSUME NEW m \in Visible', m <= M
        PROVE  \/ m \in seen'
               \/ \E k \in MessageId : k > m /\ CommittedBefore(k, m)'
               \/ Cardinality(Between(m, M)') >= PageSize
    <3>1. CASE m \in Visible
      <4>1. CASE m \in seen
        BY <1>1, <4>1
      <4>2. CASE \E k \in MessageId : k > m /\ CommittedBefore(k, m)
        <5>1. PICK k \in MessageId : k > m /\ CommittedBefore(k, m)
          BY <4>2
        <5>2. CommittedBefore(k, m)'
          BY <1>3, <5>1 DEF CommittedBefore
        <5> QED BY <5>1, <5>2
      <4>3. CASE Cardinality(Between(m, M)) >= PageSize
        <5>1. Between(m, M) \subseteq Between(m, M)'
              /\ Between(m, M)' \subseteq MessageId
          BY <1>2, <1>4 DEF Between
        <5> QED BY <4>3, <5>1, MessagesFinite, MessagingAssumption
      <4> QED BY <2>2, <2>3, <3>1, <4>1, <4>2, <4>3 DEF Covered
    <3>2. CASE m = id
      <4>1. M \in ToSet(posted) /\ M # id /\ M \in MessageId
        <5>1. m \in Nat \ {0}
          BY <1>2, <3>2
        <5>2. M # NoMessage
          BY <2>3, <5>1 DEF NoMessage
        <5> QED BY <1>2, <2>2, <5>2
      <4>2. M > m
        <5>1. M \in Nat /\ m \in Nat /\ M # m
          BY <1>2, <3>2, <4>1
        <5> QED BY <2>3, <5>1
      <4>3. PICK i \in DOMAIN posted : posted[i] = M
        BY <4>1 DEF ToSet
      <4>4. CommittedBefore(M, m)'
        BY <1>3, <3>2, <4>3 DEF CommittedBefore
      <4> QED BY <4>1, <4>2, <4>4
    <3> QED BY <1>4, <3>1, <3>2
  <2>4. Covered(M)'
    BY <2>3 DEF Covered
  <2> QED BY <1>4, <2>2, <2>4 DEF PointAt
<1>9. ThreadsInv'
  BY <1>1 DEF MessagesInv, ThreadsInv
<1> QED BY <1>6, <1>7, <1>8, <1>9 DEF MessagesInv

\* Steps of the reader, and a deletion.
LEMMA ReaderKeeps ==
    ASSUME MessagesInv, MessagingTypeOK', ThreadsInv',
           UNCHANGED <<nextMessage, sending, posted>>,
           \A M \in ReadPoint' : PointAt(M)'
    PROVE  MessagesInv'
BY DEF MessagesInv, IdsTaken, ToSet

\* A refetch shows the newest pages, which hold the last message there is.
LEMMA PollKeeps ==
    ASSUME MessagesInv, NEW w \in ChatWindow, PollMessages(w)
    PROVE  MessagesInv'
<1> DEFINE pages == PagesLeft(chat[w].pages)
           thread == Newest(pages * PageSize, Visible)
           c == [chat[w] EXCEPT !.thread = thread, !.pages = pages,
                                !.more = thread # Visible, !.due = TRUE]
<1>1. /\ MessagingTypeOK /\ chat[w] \in Chat /\ chat \in [ChatWindow -> Chat]
      /\ chat[w].pages \in Nat \ {0} /\ ThreadsInv
      /\ \A M \in ReadPoint : PointAt(M)
      /\ Visible \subseteq MessageId /\ MessageId \subseteq Nat \ {0}
      /\ Visible \subseteq ToSet(posted) /\ ToSet(posted) \subseteq MessageId
      /\ PageSize \in Nat \ {0}
  BY MessageSets, MessagingAssumption
     DEF MessagesInv, MessagingTypeOK, Chat, Visible
<1>2. pages \in Nat \ {0}
  <2> DEFINE S == {p \in 1..chat[w].pages :
                      p = 1 \/ (p - 1) * PageSize < Cardinality(Visible)}
  <2>1. S \in SUBSET (1..chat[w].pages) /\ 1 \in S
    BY <1>1
  <2>2. Max(S) \in S
    BY <1>1, <2>1, GreatestIsOne
  <2>3. pages = Max(S)
    BY DEF PagesLeft
  <2> QED BY <1>1, <2>1, <2>2, <2>3
<1>3. pages * PageSize \in Nat \ {0} /\ pages * PageSize >= PageSize
  <2> HIDE DEF pages
  <2> QED BY <1>1, <1>2
<1>4. /\ thread \subseteq Visible
      /\ Visible # {} => LastOf(Visible) \in thread
      /\ \A m \in Visible \ thread :
            Cardinality({x \in Visible : x > m}) >= pages * PageSize
  BY <1>1, <1>3, NewestHoldTheLast
<1>5. /\ chat' = [chat EXCEPT ![w] = c] /\ seen' = seen \cup thread
      /\ UNCHANGED <<nextMessage, sending, posted, removed, lastRead, marks,
                     marksUpset>>
  BY <1>1 DEF PollMessages, Refetched, ChatStep, Chat
<1> HIDE DEF pages, thread
<1>6. /\ c \in Chat /\ c.thread = thread /\ c.more = (thread # Visible)
  <2>1. thread \in SUBSET MessageId /\ (thread # Visible) \in BOOLEAN
    BY <1>1, <1>4
  <2> QED BY <1>1, <1>2, <2>1 DEF Chat
<1> HIDE DEF c
<1>7. /\ chat'[w] = c /\ chat' \in [ChatWindow -> Chat]
      /\ \A v \in ChatWindow : v # w => chat'[v] = chat[v]
  BY <1>1, <1>5, <1>6
<1>8. MessagingTypeOK'
  BY <1>1, <1>4, <1>5, <1>7 DEF MessagingTypeOK
<1>9. ThreadsInv'
  BY <1>1, <1>4, <1>6, <1>7 DEF ThreadsInv
<1>10. ASSUME NEW M, thread # {}, M = LastOf(thread)
       PROVE  PointAt(M)'
  <2>1. /\ M \in thread /\ \A y \in thread : M >= y
        /\ LastOf(Visible) \in Visible
        /\ \A y \in Visible : LastOf(Visible) >= y
    BY <1>1, <1>4, <1>10, LastIsOne
  <2>2. M = LastOf(Visible)
    <3>1. LastOf(Visible) \in thread /\ M \in Visible
      BY <1>4, <2>1
    <3>2. M >= LastOf(Visible) /\ LastOf(Visible) >= M
      BY <2>1, <3>1
    <3>3. M \in Nat /\ LastOf(Visible) \in Nat
      BY <1>1, <2>1, <3>1
    <3> QED BY <3>2, <3>3
  <2>3. \A y \in Visible : y <= M
    <3>1. \A y \in Visible : M >= y /\ y \in Nat
      BY <1>1, <2>1, <2>2
    <3>2. M \in Nat
      BY <1>1, <1>4, <2>1
    <3> QED BY <3>1, <3>2
  <2>4. Visible' = Visible /\ ToSet(posted)' = ToSet(posted)
    BY <1>5 DEF Visible, ToSet
  <2>5. ASSUME NEW m \in Visible, m \notin thread
        PROVE  Cardinality(Between(m, M)) >= PageSize
    <3> DEFINE later == {x \in Visible : x > m}
    <3>1. later \subseteq Between(m, M)
      BY <1>1, <2>3 DEF Between
    <3>2. Between(m, M) \subseteq MessageId
      BY <1>1 DEF Between
    <3>3. Cardinality(later) >= pages * PageSize
      BY <1>4, <2>5
    <3> HIDE DEF later
    <3>4. /\ Cardinality(later) \in Nat /\ Cardinality(Between(m, M)) \in Nat
          /\ Cardinality(later) <= Cardinality(Between(m, M))
      BY <3>1, <3>2, MessagesFinite
    <3> QED BY <1>1, <1>3, <3>3, <3>4
  <2>6. \A m : Between(m, M)' = Between(m, M)
    BY <2>4 DEF Between
  <2>7. Covered(M)'
    BY <1>5, <2>4, <2>5, <2>6 DEF Covered
  <2>8. M \in ToSet(posted)'
    BY <1>1, <1>4, <2>1, <2>4
  <2> QED BY <2>7, <2>8 DEF PointAt
<1>11. ASSUME NEW M \in ReadPoint' PROVE PointAt(M)'
  <2>1. M \in ReadPoint \/ (thread # {} /\ M = LastOf(thread))
    <3>1. \/ M \in {lastRead} \cup {mark[2] : mark \in marks}
          \/ \E v \in ChatWindow :
                chat'[v].thread # {} /\ M = LastOf(chat'[v].thread)
      BY <1>5, <1>11 DEF ReadPoint
    <3>2. \A v \in ChatWindow :
             IF v = w THEN chat'[v].thread = thread
                      ELSE chat'[v].thread = chat[v].thread
      BY <1>6, <1>7
    <3>3. ASSUME NEW v \in ChatWindow, chat'[v].thread # {},
                 M = LastOf(chat'[v].thread)
          PROVE  M \in ReadPoint \/ (thread # {} /\ M = LastOf(thread))
      <4>1. CASE v = w
        BY <3>2, <3>3, <4>1
      <4>2. CASE v # w
        <5>1. chat'[v].thread = chat[v].thread
          BY <3>2, <4>2
        <5>2. chat[v].thread # {} /\ M = LastOf(chat[v].thread)
          BY <3>3, <5>1
        <5> QED BY <5>2 DEF ReadPoint
      <4> QED BY <4>1, <4>2
    <3>4. CASE M \in {lastRead} \cup {mark[2] : mark \in marks}
      BY <3>4 DEF ReadPoint
    <3> QED BY <3>1, <3>3, <3>4
  <2>2. CASE M \in ReadPoint
    BY <1>1, <1>5, <2>2, PointKeeps
  <2> QED BY <1>10, <2>1, <2>2
<1> QED BY <1>5, <1>8, <1>9, <1>11, ReaderKeeps

\* An earlier page leaves the last message of the thread what it was.
LEMMA LoadEarlierKeeps ==
    ASSUME MessagesInv, NEW w \in ChatWindow, LoadEarlier(w)
    PROVE  MessagesInv'
<1> DEFINE old == chat[w].thread
           older == {m \in Visible : \A x \in old : m < x}
           page == Newest(PageSize, older)
           c == [chat[w] EXCEPT !.thread = @ \cup page, !.pages = @ + 1,
                                !.more = page # older, !.due = TRUE]
<1>1. /\ MessagingTypeOK /\ chat[w] \in Chat /\ chat \in [ChatWindow -> Chat]
      /\ chat[w].pages \in Nat \ {0} /\ old \in SUBSET MessageId /\ ThreadsInv
      /\ \A M \in ReadPoint : PointAt(M)
      /\ Visible \subseteq MessageId /\ MessageId \subseteq Nat \ {0}
      /\ PageSize \in Nat \ {0}
  BY MessageSets, MessagingAssumption DEF MessagesInv, MessagingTypeOK, Chat
<1>2. /\ chat[w].more
      /\ chat' = [chat EXCEPT ![w] = c] /\ seen' = seen \cup page
      /\ UNCHANGED <<nextMessage, sending, posted, removed, lastRead, marks,
                     marksUpset>>
  BY DEF LoadEarlier, ChatStep
<1>3. old # {}
  BY <1>1, <1>2 DEF ThreadsInv
<1>4. page \subseteq older /\ older \subseteq Visible
  BY DEF Newest
<1> HIDE DEF page
<1>5. c \in Chat /\ c.thread = old \cup page
  <2> HIDE DEF older
  <2>1. old \cup page \in SUBSET MessageId
    BY <1>1, <1>4
  <2>2. (page # older) \in BOOLEAN
    OBVIOUS
  <2>3. chat[w].pages + 1 \in Nat \ {0}
    BY <1>1
  <2> QED BY <1>1, <2>1, <2>2, <2>3 DEF Chat
<1> HIDE DEF c
<1>6. /\ chat'[w] = c /\ chat' \in [ChatWindow -> Chat]
      /\ \A v \in ChatWindow : v # w => chat'[v] = chat[v]
  BY <1>1, <1>2, <1>5
<1>7. MessagingTypeOK'
  BY <1>1, <1>2, <1>4, <1>6 DEF MessagingTypeOK
<1>8. ThreadsInv'
  BY <1>1, <1>3, <1>5, <1>6 DEF ThreadsInv
<1>9. LastOf(old \cup page) = LastOf(old)
  <2> DEFINE all == old \cup page
  <2>1. /\ LastOf(old) \in old /\ \A y \in old : LastOf(old) >= y
        /\ LastOf(all) \in all /\ \A y \in all : LastOf(all) >= y
        /\ LastOf(old) \in Nat /\ LastOf(all) \in Nat
    <3>1. all \in SUBSET MessageId /\ all # {}
      BY <1>1, <1>3, <1>4
    <3> QED BY <1>1, <1>3, <3>1, LastIsOne
  <2>2. LastOf(all) >= LastOf(old)
    BY <2>1
  <2>3. \A y \in page : y < LastOf(old)
    BY <1>4, <2>1
  <2>4. LastOf(all) \notin page
    BY <2>1, <2>2, <2>3
  <2>5. LastOf(old) >= LastOf(all)
    BY <2>1, <2>4
  <2> HIDE DEF all, old
  <2>6. LastOf(all) = LastOf(old)
    BY <2>1, <2>2, <2>5
  <2> QED BY <2>6 DEF all
<1>10. ReadPoint' \subseteq ReadPoint
  BY <1>2, <1>3, <1>5, <1>6, <1>9 DEF ReadPoint
<1> QED BY <1>1, <1>2, <1>7, <1>8, <1>10, PointsKeep, ReaderKeeps

\* The other steps of a window leave its thread alone; one of them marks the
\* last message of it.
LEMMA WindowStepKeeps ==
    ASSUME MessagesInv, NEW w \in ChatWindow,
           FetchConversation(w) \/ MarkReadEffect(w) \/ WindowUsed(w)
    PROVE  MessagesInv'
<1>1. /\ MessagingTypeOK /\ chat[w] \in Chat /\ chat \in [ChatWindow -> Chat]
      /\ \A M \in ReadPoint : PointAt(M)
      /\ Visible \subseteq MessageId /\ Cardinality(Unread) \in Nat
      /\ ThreadsInv
  BY MessageSets DEF MessagesInv, MessagingTypeOK
<1>2. UNCHANGED <<nextMessage, sending, posted, removed, lastRead, marksUpset>>
  BY DEF FetchConversation, MarkReadEffect, WindowUsed, ChatStep
<1>3. ASSUME NEW c \in Chat, chat' = [chat EXCEPT ![w] = c],
             c.thread = chat[w].thread, c.more = chat[w].more
      PROVE  /\ chat' \in [ChatWindow -> Chat]
             /\ \A v \in ChatWindow : chat'[v].thread = chat[v].thread
             /\ ThreadsInv'
  <2>1. /\ chat' \in [ChatWindow -> Chat]
        /\ \A v \in ChatWindow : /\ chat'[v].thread = chat[v].thread
                                  /\ chat'[v].more = chat[v].more
    BY <1>1, <1>3
  <2> QED BY <1>1, <2>1 DEF ThreadsInv
<1>4. CASE FetchConversation(w)
  <2> DEFINE unread == Cardinality(Unread)
             c == [chat[w] EXCEPT !.unread = unread, !.read = lastRead,
                      !.stale = FALSE, !.due = @ \/ unread # chat[w].unread]
  <2>1. chat' = [chat EXCEPT ![w] = c] /\ UNCHANGED <<marks, seen>>
    BY <1>4 DEF FetchConversation, ChatStep
  <2>2. c \in Chat /\ c.thread = chat[w].thread /\ c.more = chat[w].more
    BY <1>1 DEF Chat, MessagingTypeOK
  <2> HIDE DEF c
  <2>3. /\ chat' \in [ChatWindow -> Chat] /\ ThreadsInv'
        /\ \A v \in ChatWindow : chat'[v].thread = chat[v].thread
    BY <1>3, <2>1, <2>2
  <2>4. MessagingTypeOK' /\ ReadPoint' \subseteq ReadPoint
    BY <1>1, <1>2, <2>1, <2>3 DEF MessagingTypeOK, ReadPoint
  <2> QED BY <1>1, <1>2, <2>1, <2>3, <2>4, PointsKeep, ReaderKeeps
<1>5. CASE MarkReadEffect(w)
  <2> DEFINE c == [chat[w] EXCEPT !.due = FALSE]
             last == LastOf(chat[w].thread)
  <2>1. /\ chat' = [chat EXCEPT ![w] = c] /\ UNCHANGED seen
        /\ marks' = marks \cup {<<w, last>> :
                                 x \in {y \in {w} : MarksRead(chat[y])}}
    BY <1>5 DEF MarkReadEffect, ChatStep
  <2>2. /\ c \in Chat /\ c.thread = chat[w].thread /\ c.more = chat[w].more
        /\ chat[w].thread \in SUBSET MessageId
    BY <1>1 DEF Chat
  <2>3. \A mark \in marks' \ marks :
           mark = <<w, last>> /\ chat[w].thread # {}
    BY <2>1 DEF MarksRead
  <2>4. chat[w].thread # {} => last \in MessageId /\ last \in ReadPoint
    BY <2>2, LastIsOne DEF ReadPoint
  <2> HIDE DEF c, last
  <2>5. /\ chat' \in [ChatWindow -> Chat] /\ ThreadsInv'
        /\ \A v \in ChatWindow : chat'[v].thread = chat[v].thread
    BY <1>3, <2>1, <2>2
  <2>6. marks' \subseteq ChatWindow \X MessageId
    BY <1>1, <2>3, <2>4 DEF MessagingTypeOK
  <2>7. MessagingTypeOK'
    BY <1>1, <1>2, <2>1, <2>5, <2>6 DEF MessagingTypeOK
  <2>8. ReadPoint' \subseteq ReadPoint
    <3>1. \A mark \in marks' : mark[2] \in ReadPoint
      BY <2>3, <2>4 DEF ReadPoint
    <3> QED BY <1>2, <2>5, <3>1 DEF ReadPoint
  <2> QED BY <1>1, <1>2, <2>1, <2>5, <2>7, <2>8, PointsKeep, ReaderKeeps
<1>6. CASE WindowUsed(w)
  <2> DEFINE c == [chat[w] EXCEPT !.stale = TRUE]
  <2>1. chat' = [chat EXCEPT ![w] = c] /\ UNCHANGED <<marks, seen>>
    BY <1>6 DEF WindowUsed, ChatStep
  <2>2. c \in Chat /\ c.thread = chat[w].thread /\ c.more = chat[w].more
    BY <1>1 DEF Chat
  <2> HIDE DEF c
  <2>3. /\ chat' \in [ChatWindow -> Chat] /\ ThreadsInv'
        /\ \A v \in ChatWindow : chat'[v].thread = chat[v].thread
    BY <1>3, <2>1, <2>2
  <2>4. MessagingTypeOK' /\ ReadPoint' \subseteq ReadPoint
    BY <1>1, <1>2, <2>1, <2>3 DEF MessagingTypeOK, ReadPoint
  <2> QED BY <1>1, <1>2, <2>1, <2>3, <2>4, PointsKeep, ReaderKeeps
<1> QED BY <1>4, <1>5, <1>6

\* A mark moves the read position to a message that was seen; a message that
\* is deleted uncovers none.
LEMMA MarkKeeps ==
    ASSUME MessagesInv,
           DeleteMessage \/ \E mark \in marks : MarkRead(mark) \/ MarkLost(mark)
    PROVE  MessagesInv'
<1>1. /\ MessagingTypeOK /\ chat \in [ChatWindow -> Chat] /\ ThreadsInv
      /\ \A M \in ReadPoint : PointAt(M) /\ Visible \subseteq MessageId
  BY MessageSets DEF MessagesInv, MessagingTypeOK
<1>2. CASE DeleteMessage
  <2>1. PICK m \in Visible : removed' = removed \cup {m}
    BY <1>2 DEF DeleteMessage
  <2>2. UNCHANGED <<nextMessage, sending, posted, lastRead, chat, marks, seen,
                    marksUpset>>
    BY <1>2 DEF DeleteMessage
  <2>3. MessagingTypeOK' /\ ReadPoint' \subseteq ReadPoint
    <3>1. m \in MessageId
      BY <2>1, MessageSets, <1>1
    <3> QED BY <1>1, <2>1, <2>2, <3>1 DEF MessagingTypeOK, ReadPoint
  <2> QED BY <1>1, <2>1, <2>2, <2>3, PointsKeep, ReaderKeeps
           DEF MessagesInv, ThreadsInv
<1>3. ASSUME NEW mark \in marks, MarkRead(mark) PROVE MessagesInv'
  <2> DEFINE w == mark[1]
             c == [chat[w] EXCEPT !.stale = TRUE]
  <2>1. /\ marks' = marks \ {mark} /\ lastRead' = mark[2]
        /\ marksUpset' = (marksUpset \/ mark[2] < lastRead)
        /\ chat' = [chat EXCEPT ![w] = c]
        /\ UNCHANGED <<nextMessage, sending, posted, removed, seen>>
    BY <1>3 DEF MarkRead, MarkedUpTo, ChatStep
  <2>2. w \in ChatWindow /\ mark[2] \in MessageId
    BY <1>1 DEF MessagingTypeOK
  <2>3. c \in Chat /\ c.thread = chat[w].thread /\ c.more = chat[w].more
    BY <1>1, <2>2 DEF Chat
  <2> HIDE DEF w, c
  <2>4. /\ chat' \in [ChatWindow -> Chat]
        /\ \A v \in ChatWindow : /\ chat'[v].thread = chat[v].thread
                                  /\ chat'[v].more = chat[v].more
    BY <1>1, <2>1, <2>3
  <2>5. MessagingTypeOK'
    BY <1>1, <2>1, <2>2, <2>4 DEF MessagingTypeOK
  <2>6. ReadPoint' \subseteq ReadPoint
    BY <2>1, <2>4 DEF ReadPoint
  <2>7. ThreadsInv'
    BY <1>1, <2>4 DEF ThreadsInv
  <2> QED BY <1>1, <2>1, <2>5, <2>6, <2>7, PointsKeep, ReaderKeeps
          DEF MessagesInv
<1>4. ASSUME NEW mark \in marks, MarkLost(mark) PROVE MessagesInv'
  <2>1. /\ marks' = marks \ {mark} /\ marksUpset' = TRUE
        /\ UNCHANGED <<nextMessage, sending, posted, removed, lastRead, chat,
                       seen>>
    BY <1>4 DEF MarkLost
  <2>2. MessagingTypeOK' /\ ReadPoint' \subseteq ReadPoint
    BY <1>1, <2>1 DEF MessagingTypeOK, ReadPoint
  <2> QED BY <1>1, <2>1, <2>2, PointsKeep, ReaderKeeps
          DEF MessagesInv, ThreadsInv
<1> QED BY <1>2, <1>3, <1>4

\* Every step keeps the invariant.
LEMMA MessagesStepKeeps ==
    MessagesInv /\ [MessagingNext]_messagingVars => MessagesInv'
<1> SUFFICES ASSUME MessagesInv, [MessagingNext]_messagingVars
             PROVE  MessagesInv'
  OBVIOUS
<1>1. CASE UNCHANGED messagingVars
  <2>1. MessagingTypeOK' /\ IdsTaken' /\ ThreadsInv' /\ ReadPoint' = ReadPoint
    BY <1>1 DEF MessagesInv, MessagingTypeOK, IdsTaken, ThreadsInv, ReadPoint,
                messagingVars
  <2> QED BY <1>1, <2>1, PointsKeep DEF MessagesInv, messagingVars
<1>2. CASE MessagingNext
  BY <1>2, SendKeeps, CommitKeeps, PollKeeps, LoadEarlierKeeps,
     WindowStepKeeps, MarkKeeps DEF MessagingNext
<1> QED BY <1>1, <1>2

\* The invariant holds in every state.
THEOREM MessagesInvariant == MessagingSpec => []MessagesInv
BY MessagesInitially, MessagesStepKeeps, PTL DEF MessagingSpec

\* Every message up to the read position has been seen in a window, was
\* committed after one with a higher id or is a page away from it, however
\* polls, earlier pages, marks and sends interleave (markRead, the id order of
\* the thread).
THEOREM ReadMessagesWereSeen == MessagingSpec => []ReadWasSeen
<1>1. MessagesInv => ReadWasSeen
  BY DEF MessagesInv, ReadPoint, PointAt, Covered, Between, ReadWasSeen
<1> QED BY <1>1, MessagesInvariant, PTL
=============================================================================
