--------------------- MODULE OrganizationMembershipProofs ---------------------
(***************************************************************************)
(* Proofs about organisations and their invitations, for any number of     *)
(* people, organisations, invitations and requests in flight.              *)
(***************************************************************************)
EXTENDS OrganizationMembership, TLAPS

-----------------------------------------------------------------------------
\* What the steps of a handler know since it was started.
RequestsKnow ==
    \A r \in Requests :
        LET q == request[r] IN
        /\ q.doing \in {"create", "accept"} => q.user \in Users /\ role[q.user] # "NONE"
        /\ q.doing \in {"invite", "demote", "remove", "transfer"} => q.user \in Users
        /\ q.doing = "invite" => q.org \in Orgs
        /\ q.doing = "transfer" => q.actor \in Users
        /\ q.doing \in {"mail", "revoke", "resend", "remail"} =>
              q.invite \in Invites /\ status[q.invite] # "ABSENT"

\* Whoever is in an organisation has an account, and keeps it.
MembersHaveAccounts == \A u \in Users : role[u] = "NONE" => org[u] = None

\* The rows of invitations, whatever their status, were mailed or will be.
RowsAreMailed ==
    \A i \in Invites :
        status[i] \notin {"ABSENT", "DELETED"} =>
            \/ mailed[i] # {}
            \/ \E r \in Requests : request[r].doing = "mail" /\ request[r].invite = i

\* Handlers in flight, as TypeOK has them.
InFlight == [doing : Step, invite : Invites \cup {None}, user : Users \cup {None},
             actor : Users \cup {None}, org : Orgs \cup {None},
             previous : Token, next : Token]

IInv == TypeOK /\ RequestsKnow /\ MembersHaveAccounts /\ RowsAreMailed

\* The first token.
LEMMA FirstToken == 0 \in Token
  BY MaxResendsIsNatural DEF Token

USE NoneIsNone, FirstToken DEF Idle, Starts, Ends

\* Nobody has an account, and nothing is in flight.
LEMMA InitHolds == Init => IInv
  BY DEF Init, IInv, TypeOK, RequestsKnow, MembersHaveAccounts, RowsAreMailed, Role, Step

-----------------------------------------------------------------------------
\* No step stores a value of another type.
LEMMA TypeStep == ASSUME IInv, [Next]_vars PROVE TypeOK'
<1> USE DEF IInv, TypeOK, userVars, inviteVars, Role, Step
<1>1. ASSUME NEW r \in Requests, Starting(r) PROVE TypeOK'
  <2>1. ASSUME NEW u \in Users, CreateStarts(r, u) PROVE TypeOK'
    BY <2>1 DEF CreateStarts
  <2>2. ASSUME NEW u \in Users, AcceptStarts(r, u) PROVE TypeOK'
    <3>1. [Idle EXCEPT !.doing = "accept", !.user = u] \in InFlight
      BY DEF InFlight
    <3>2. request' \in [Requests -> InFlight]
      BY <2>2, <3>1 DEF AcceptStarts, InFlight
    <3> QED
      BY <2>2, <3>2 DEF AcceptStarts, InFlight
  <2>3. ASSUME NEW u \in Users, NEW a \in Users, InviteStarts(r, a, u) PROVE TypeOK'
    <3>1. PICK o \in Orgs : Starts(r, [Idle EXCEPT !.doing = "invite", !.user = u, !.org = o])
      BY <2>3 DEF InviteStarts, ActivelyInvited
    <3>2. [Idle EXCEPT !.doing = "invite", !.user = u, !.org = o] \in InFlight
      BY DEF InFlight
    <3>3. request' \in [Requests -> InFlight]
      BY <3>1, <3>2 DEF InFlight
    <3> QED
      BY <2>3, <3>3 DEF InviteStarts, InFlight
  <2>4. ASSUME NEW u \in Users, NEW a \in Users, DemoteStarts(r, a, u) PROVE TypeOK'
    BY <2>4 DEF DemoteStarts
  <2>5. ASSUME NEW u \in Users, NEW a \in Users, RemoveStarts(r, a, u) PROVE TypeOK'
    BY <2>5 DEF RemoveStarts
  <2>6. ASSUME NEW u \in Users, NEW a \in Users, TransferStarts(r, a, u) PROVE TypeOK'
    BY <2>6 DEF TransferStarts
  <2>7. ASSUME NEW u \in Users, NEW i \in Invites, RevokeStarts(r, u, i) PROVE TypeOK'
    BY <2>7 DEF RevokeStarts, Open
  <2>8. ASSUME NEW u \in Users, NEW i \in Invites, ResendStarts(r, u, i) PROVE TypeOK'
    BY <2>8 DEF ResendStarts, Open
  <2> QED
    BY <1>1, <2>1, <2>2, <2>3, <2>4, <2>5, <2>6, <2>7, <2>8, Zenon DEF Starting
<1>2. ASSUME NEW r \in Requests, Continuing(r) PROVE TypeOK'
  <2>1. ASSUME NEW o \in Orgs, Create(r, o) PROVE TypeOK'
    BY <2>1 DEF Create, RequestsKnow
  <2>2. ASSUME NEW i \in Invites, CreateInvite(r, i) PROVE TypeOK'
    <3>1. [Idle EXCEPT !.doing = "mail", !.invite = i] \in InFlight
      BY DEF InFlight
    <3>2. request' \in [Requests -> InFlight]
      BY <2>2, <3>1 DEF CreateInvite, InFlight
    <3>3. status' \in [Invites -> {"ABSENT", "PENDING", "ACCEPTED", "REVOKED", "DELETED"}]
      BY <2>2 DEF CreateInvite
    <3>4. invitee' \in [Invites -> Users \cup {None}] /\ inviter' \in [Invites -> Orgs \cup {None}]
      BY <2>2 DEF CreateInvite, RequestsKnow
    <3> QED
      BY <2>2, <3>2, <3>3, <3>4 DEF CreateInvite, InFlight
  <2>3. ASSUME NEW i \in Invites, Accept(r, i) PROVE TypeOK'
    BY <2>3 DEF Accept, MarkAccepted, LinksIfUnlinked, Redeemable, Found, RequestsKnow
  <2>4. ASSUME MailInvite(r) PROVE TypeOK'
    BY <2>4 DEF MailInvite, RequestsKnow
  <2>5. ASSUME MailInviteFails(r) PROVE TypeOK'
    BY <2>5 DEF MailInviteFails, RequestsKnow
  <2>6. ASSUME Revoke(r) PROVE TypeOK'
    BY <2>6 DEF Revoke, RequestsKnow
  <2>7. ASSUME Resend(r) PROVE TypeOK'
    <3> DEFINE i == request[r].invite
    <3>1. i \in Invites /\ drawn[i] + 1 \in Token
      BY <2>7, MaxResendsIsNatural DEF Resend, RequestsKnow, Token
    <3>2. request' = [request EXCEPT ![r] = [request[r] EXCEPT !.doing = "remail",
                                                          !.next = drawn[i] + 1]]
      BY <2>7 DEF Resend
    <3>3. request' \in [Requests -> InFlight]
      <4> DEFINE q == [request[r] EXCEPT !.doing = "remail", !.next = drawn[i] + 1]
      <4>1. request[r] \in InFlight /\ request \in [Requests -> InFlight]
        BY DEF InFlight
      <4>2. q \in InFlight
        BY <3>1, <4>1 DEF InFlight
      <4>3. request' = [request EXCEPT ![r] = q]
        BY <3>2
      <4> HIDE DEF q
      <4> QED
        BY <4>1, <4>2, <4>3
    <3>4. drawn' \in [Invites -> Token] /\ token' \in [Invites -> Token]
      BY <2>7, <3>1 DEF Resend
    <3> QED
      BY <2>7, <3>1, <3>3, <3>4 DEF Resend, InFlight
  <2>8. ASSUME Remail(r) PROVE TypeOK'
    BY <2>8 DEF Remail, RequestsKnow
  <2>9. ASSUME RemailFails(r) PROVE TypeOK'
    BY <2>9 DEF RemailFails, RequestsKnow
  <2>10. ASSUME Demote(r) PROVE TypeOK'
    BY <2>10 DEF Demote, RequestsKnow
  <2>11. ASSUME Remove(r) PROVE TypeOK'
    BY <2>11 DEF Remove, RequestsKnow
  <2>12. ASSUME Transfer(r) PROVE TypeOK'
    <3>1. request[r].actor \in Users /\ request[r].user \in Users
      BY <2>12 DEF Transfer, RequestsKnow
    <3>2. role' \in [Users -> Role]
      BY <2>12, <3>1 DEF Transfer
    <3> QED
      BY <2>12, <3>2 DEF Transfer
  <2>13. ASSUME Aborts(r) PROVE TypeOK'
    BY <2>13 DEF Aborts
  <2> QED
    BY <1>2, <2>1, <2>2, <2>3, <2>4, <2>5, <2>6, <2>7, <2>8, <2>9, <2>10, <2>11,
       <2>12, <2>13, Zenon DEF Continuing
<1>3. ASSUME NEW u \in Users, NEW as \in {"STUDENT", "COMPANY_OWNER"}, Register(u, as)
      PROVE  TypeOK'
  BY <1>3 DEF Register
<1>4. ASSUME NEW u \in Users, NEW i \in Invites, AcceptByRegistration(u, i)
      PROVE  TypeOK'
  BY <1>4 DEF AcceptByRegistration, MarkAccepted, Redeemable, Found
<1>5. ASSUME NEW o \in Orgs, NEW s \in {"ACTIVE", "REJECTED"}, UpdateStatus(o, s)
      PROVE  TypeOK'
  BY <1>5 DEF UpdateStatus
<1>6. ASSUME NEW i \in Invites, Expire(i)
      PROVE  TypeOK'
  BY <1>6 DEF Expire
<1>7. ASSUME UNCHANGED vars PROVE TypeOK'
  BY <1>7 DEF vars
<1> HIDE DEF IInv, TypeOK
<1> QED
  BY <1>1, <1>2, <1>3, <1>4, <1>5, <1>6, <1>7 DEF Next

\* Nothing a handler found is taken away: accounts and rows stay.
LEMMA RequestsStep ==
    ASSUME IInv, [Next]_vars PROVE RequestsKnow' /\ MembersHaveAccounts'
<1> DEFINE Goal == RequestsKnow' /\ MembersHaveAccounts'
<1> USE DEF IInv, TypeOK, userVars, inviteVars, Role, RequestsKnow, MembersHaveAccounts
<1>1. ASSUME NEW r \in Requests, Starting(r) PROVE Goal
  <2>1. ASSUME NEW u \in Users, CreateStarts(r, u) PROVE Goal
    BY <2>1 DEF CreateStarts
  <2>2. ASSUME NEW u \in Users, AcceptStarts(r, u) PROVE Goal
    BY <2>2 DEF AcceptStarts
  <2>3. ASSUME NEW u \in Users, NEW a \in Users, InviteStarts(r, a, u) PROVE Goal
    BY <2>3 DEF InviteStarts, ActivelyInvited
  <2>4. ASSUME NEW u \in Users, NEW a \in Users, DemoteStarts(r, a, u) PROVE Goal
    BY <2>4 DEF DemoteStarts
  <2>5. ASSUME NEW u \in Users, NEW a \in Users, RemoveStarts(r, a, u) PROVE Goal
    BY <2>5 DEF RemoveStarts
  <2>6. ASSUME NEW u \in Users, NEW a \in Users, TransferStarts(r, a, u) PROVE Goal
    BY <2>6 DEF TransferStarts
  <2>7. ASSUME NEW u \in Users, NEW i \in Invites, RevokeStarts(r, u, i) PROVE Goal
    BY <2>7 DEF RevokeStarts, Open
  <2>8. ASSUME NEW u \in Users, NEW i \in Invites, ResendStarts(r, u, i) PROVE Goal
    BY <2>8 DEF ResendStarts, Open
  <2> QED
    BY <1>1, <2>1, <2>2, <2>3, <2>4, <2>5, <2>6, <2>7, <2>8, Zenon DEF Starting
<1>2. ASSUME NEW r \in Requests, Continuing(r) PROVE Goal
  <2>1. ASSUME NEW o \in Orgs, Create(r, o) PROVE Goal
    BY <2>1 DEF Create
  <2>2. ASSUME NEW i \in Invites, CreateInvite(r, i) PROVE Goal
    BY <2>2 DEF CreateInvite
  <2>3. ASSUME NEW i \in Invites, Accept(r, i) PROVE Goal
    BY <2>3 DEF Accept, MarkAccepted, LinksIfUnlinked, Redeemable, Found
  <2>4. ASSUME MailInvite(r) PROVE Goal
    BY <2>4 DEF MailInvite
  <2>5. ASSUME MailInviteFails(r) PROVE Goal
    BY <2>5 DEF MailInviteFails
  <2>6. ASSUME Revoke(r) PROVE Goal
    BY <2>6 DEF Revoke
  <2>7. ASSUME Resend(r) PROVE Goal
    BY <2>7 DEF Resend
  <2>8. ASSUME Remail(r) PROVE Goal
    BY <2>8 DEF Remail
  <2>9. ASSUME RemailFails(r) PROVE Goal
    BY <2>9 DEF RemailFails
  <2>10. ASSUME Demote(r) PROVE Goal
    BY <2>10 DEF Demote
  <2>11. ASSUME Remove(r) PROVE Goal
    BY <2>11 DEF Remove
  <2>12. ASSUME Transfer(r) PROVE Goal
    BY <2>12 DEF Transfer
  <2>13. ASSUME Aborts(r) PROVE Goal
    BY <2>13 DEF Aborts
  <2> QED
    BY <1>2, <2>1, <2>2, <2>3, <2>4, <2>5, <2>6, <2>7, <2>8, <2>9, <2>10, <2>11,
       <2>12, <2>13, Zenon DEF Continuing
<1>3. ASSUME NEW u \in Users, NEW as \in {"STUDENT", "COMPANY_OWNER"}, Register(u, as)
      PROVE  Goal
  BY <1>3 DEF Register
<1>4. ASSUME NEW u \in Users, NEW i \in Invites, AcceptByRegistration(u, i)
      PROVE  Goal
  BY <1>4 DEF AcceptByRegistration, MarkAccepted, Redeemable, Found
<1>5. ASSUME NEW o \in Orgs, NEW s \in {"ACTIVE", "REJECTED"}, UpdateStatus(o, s)
      PROVE  Goal
  BY <1>5 DEF UpdateStatus
<1>6. ASSUME NEW i \in Invites, Expire(i)
      PROVE  Goal
  BY <1>6 DEF Expire
<1>7. ASSUME UNCHANGED vars PROVE Goal
  BY <1>7 DEF vars
<1> HIDE DEF Goal
<1>8. Goal
  BY <1>1, <1>2, <1>3, <1>4, <1>5, <1>6, <1>7 DEF Next
<1> QED
  BY <1>8 DEF Goal

\* A row is there from its insertion, which is followed by its mail or its
\* deletion.
LEMMA MailsStep == ASSUME IInv, [Next]_vars PROVE RowsAreMailed'
<1> DEFINE Goal == RowsAreMailed'
<1> USE DEF IInv, TypeOK, userVars, inviteVars, RequestsKnow, RowsAreMailed
<1>1. ASSUME NEW r \in Requests, Starting(r) PROVE Goal
  <2>1. ASSUME NEW u \in Users, CreateStarts(r, u) PROVE Goal
    BY <2>1 DEF CreateStarts
  <2>2. ASSUME NEW u \in Users, AcceptStarts(r, u) PROVE Goal
    BY <2>2 DEF AcceptStarts
  <2>3. ASSUME NEW u \in Users, NEW a \in Users, InviteStarts(r, a, u) PROVE Goal
    BY <2>3 DEF InviteStarts, ActivelyInvited
  <2>4. ASSUME NEW u \in Users, NEW a \in Users, DemoteStarts(r, a, u) PROVE Goal
    BY <2>4 DEF DemoteStarts
  <2>5. ASSUME NEW u \in Users, NEW a \in Users, RemoveStarts(r, a, u) PROVE Goal
    BY <2>5 DEF RemoveStarts
  <2>6. ASSUME NEW u \in Users, NEW a \in Users, TransferStarts(r, a, u) PROVE Goal
    BY <2>6 DEF TransferStarts
  <2>7. ASSUME NEW u \in Users, NEW i \in Invites, RevokeStarts(r, u, i) PROVE Goal
    BY <2>7 DEF RevokeStarts, Open
  <2>8. ASSUME NEW u \in Users, NEW i \in Invites, ResendStarts(r, u, i) PROVE Goal
    BY <2>8 DEF ResendStarts, Open
  <2> QED
    BY <1>1, <2>1, <2>2, <2>3, <2>4, <2>5, <2>6, <2>7, <2>8, Zenon DEF Starting
<1>2. ASSUME NEW r \in Requests, Continuing(r) PROVE Goal
  <2>1. ASSUME NEW o \in Orgs, Create(r, o) PROVE Goal
    BY <2>1 DEF Create
  <2>2. ASSUME NEW i \in Invites, CreateInvite(r, i) PROVE Goal
    BY <2>2 DEF CreateInvite
  <2>3. ASSUME NEW i \in Invites, Accept(r, i) PROVE Goal
    BY <2>3 DEF Accept, MarkAccepted, LinksIfUnlinked, Redeemable, Found
  <2>4. ASSUME MailInvite(r) PROVE Goal
    BY <2>4 DEF MailInvite
  <2>5. ASSUME MailInviteFails(r) PROVE Goal
    BY <2>5 DEF MailInviteFails
  <2>6. ASSUME Revoke(r) PROVE Goal
    BY <2>6 DEF Revoke
  <2>7. ASSUME Resend(r) PROVE Goal
    BY <2>7 DEF Resend
  <2>8. ASSUME Remail(r) PROVE Goal
    BY <2>8 DEF Remail
  <2>9. ASSUME RemailFails(r) PROVE Goal
    BY <2>9 DEF RemailFails
  <2>10. ASSUME Demote(r) PROVE Goal
    BY <2>10 DEF Demote
  <2>11. ASSUME Remove(r) PROVE Goal
    BY <2>11 DEF Remove
  <2>12. ASSUME Transfer(r) PROVE Goal
    BY <2>12 DEF Transfer
  <2>13. ASSUME Aborts(r) PROVE Goal
    BY <2>13 DEF Aborts
  <2> QED
    BY <1>2, <2>1, <2>2, <2>3, <2>4, <2>5, <2>6, <2>7, <2>8, <2>9, <2>10, <2>11,
       <2>12, <2>13, Zenon DEF Continuing
<1>3. ASSUME NEW u \in Users, NEW as \in {"STUDENT", "COMPANY_OWNER"}, Register(u, as)
      PROVE  Goal
  BY <1>3 DEF Register
<1>4. ASSUME NEW u \in Users, NEW i \in Invites, AcceptByRegistration(u, i)
      PROVE  Goal
  BY <1>4 DEF AcceptByRegistration, MarkAccepted, Redeemable, Found
<1>5. ASSUME NEW o \in Orgs, NEW s \in {"ACTIVE", "REJECTED"}, UpdateStatus(o, s)
      PROVE  Goal
  BY <1>5 DEF UpdateStatus
<1>6. ASSUME NEW i \in Invites, Expire(i)
      PROVE  Goal
  BY <1>6 DEF Expire
<1>7. ASSUME UNCHANGED vars PROVE Goal
  BY <1>7 DEF vars
<1> HIDE DEF Goal
<1>8. Goal
  BY <1>1, <1>2, <1>3, <1>4, <1>5, <1>6, <1>7 DEF Next
<1> QED
  BY <1>8 DEF Goal

\* The inductive invariant.
LEMMA IInvHolds == Spec => []IInv
<1>1. IInv /\ [Next]_vars => IInv'
  BY TypeStep, RequestsStep, MailsStep, Zenon DEF IInv
<1> QED
  BY InitHolds, <1>1, PTL DEF Spec

\* The columns keep their types.
THEOREM TypesHold == Spec => []TypeOK
<1>1. IInv => TypeOK
  BY DEF IInv
<1> QED
  BY IInvHolds, <1>1, PTL

\* No invitation blocks an address whose owner is not told.
THEOREM EverybodyIsInformed == Spec => []NobodyUninformed
<1>1. IInv => NobodyUninformed
  BY DEF IInv, RowsAreMailed, NobodyUninformed
<1> QED
  BY IInvHolds, <1>1, PTL

\* The filtered lists hold what is shown with their status.
THEOREM ListsAgree == Spec => []ListedAsDisplayed
<1>1. IInv => ListedAsDisplayed
  BY DEF IInv, TypeOK, ListedAsDisplayed, Listed, Displayed, Open
<1> QED
  BY IInvHolds, <1>1, PTL

-----------------------------------------------------------------------------
\* Only creation, acceptance and removal touch a membership, the first two of
\* somebody who has none.
LEMMA MembershipStep ==
    ASSUME IInv, [Next]_vars
    PROVE  \A u \in Users : org[u] \notin {None, org'[u]} => org'[u] = None
<1> DEFINE Goal == \A v \in Users : org[v] \notin {None, org'[v]} => org'[v] = None
<1> USE DEF IInv, TypeOK, userVars, inviteVars, MembersHaveAccounts
<1>1. ASSUME NEW r \in Requests, Starting(r) PROVE Goal
  <2>1. ASSUME NEW u \in Users, CreateStarts(r, u) PROVE Goal
    BY <2>1 DEF CreateStarts
  <2>2. ASSUME NEW u \in Users, AcceptStarts(r, u) PROVE Goal
    BY <2>2 DEF AcceptStarts
  <2>3. ASSUME NEW u \in Users, NEW a \in Users, InviteStarts(r, a, u) PROVE Goal
    BY <2>3 DEF InviteStarts, ActivelyInvited
  <2>4. ASSUME NEW u \in Users, NEW a \in Users, DemoteStarts(r, a, u) PROVE Goal
    BY <2>4 DEF DemoteStarts
  <2>5. ASSUME NEW u \in Users, NEW a \in Users, RemoveStarts(r, a, u) PROVE Goal
    BY <2>5 DEF RemoveStarts
  <2>6. ASSUME NEW u \in Users, NEW a \in Users, TransferStarts(r, a, u) PROVE Goal
    BY <2>6 DEF TransferStarts
  <2>7. ASSUME NEW u \in Users, NEW i \in Invites, RevokeStarts(r, u, i) PROVE Goal
    BY <2>7 DEF RevokeStarts, Open
  <2>8. ASSUME NEW u \in Users, NEW i \in Invites, ResendStarts(r, u, i) PROVE Goal
    BY <2>8 DEF ResendStarts, Open
  <2> QED
    BY <1>1, <2>1, <2>2, <2>3, <2>4, <2>5, <2>6, <2>7, <2>8, Zenon DEF Starting
<1>2. ASSUME NEW r \in Requests, Continuing(r) PROVE Goal
  <2>1. ASSUME NEW o \in Orgs, Create(r, o) PROVE Goal
    BY <2>1 DEF Create
  <2>2. ASSUME NEW i \in Invites, CreateInvite(r, i) PROVE Goal
    BY <2>2 DEF CreateInvite
  <2>3. ASSUME NEW i \in Invites, Accept(r, i) PROVE Goal
    BY <2>3 DEF Accept, MarkAccepted, LinksIfUnlinked, Redeemable, Found
  <2>4. ASSUME MailInvite(r) PROVE Goal
    BY <2>4 DEF MailInvite
  <2>5. ASSUME MailInviteFails(r) PROVE Goal
    BY <2>5 DEF MailInviteFails
  <2>6. ASSUME Revoke(r) PROVE Goal
    BY <2>6 DEF Revoke
  <2>7. ASSUME Resend(r) PROVE Goal
    BY <2>7 DEF Resend
  <2>8. ASSUME Remail(r) PROVE Goal
    BY <2>8 DEF Remail
  <2>9. ASSUME RemailFails(r) PROVE Goal
    BY <2>9 DEF RemailFails
  <2>10. ASSUME Demote(r) PROVE Goal
    BY <2>10 DEF Demote
  <2>11. ASSUME Remove(r) PROVE Goal
    BY <2>11 DEF Remove
  <2>12. ASSUME Transfer(r) PROVE Goal
    BY <2>12 DEF Transfer
  <2>13. ASSUME Aborts(r) PROVE Goal
    BY <2>13 DEF Aborts
  <2> QED
    BY <1>2, <2>1, <2>2, <2>3, <2>4, <2>5, <2>6, <2>7, <2>8, <2>9, <2>10, <2>11,
       <2>12, <2>13, Zenon DEF Continuing
<1>3. ASSUME NEW u \in Users, NEW as \in {"STUDENT", "COMPANY_OWNER"}, Register(u, as)
      PROVE  Goal
  BY <1>3 DEF Register
<1>4. ASSUME NEW u \in Users, NEW i \in Invites, AcceptByRegistration(u, i)
      PROVE  Goal
  BY <1>4 DEF AcceptByRegistration, MarkAccepted, Redeemable, Found
<1>5. ASSUME NEW o \in Orgs, NEW s \in {"ACTIVE", "REJECTED"}, UpdateStatus(o, s)
      PROVE  Goal
  BY <1>5 DEF UpdateStatus
<1>6. ASSUME NEW i \in Invites, Expire(i)
      PROVE  Goal
  BY <1>6 DEF Expire
<1>7. ASSUME UNCHANGED vars PROVE Goal
  BY <1>7 DEF vars
<1> HIDE DEF Goal
<1>8. Goal
  BY <1>1, <1>2, <1>3, <1>4, <1>5, <1>6, <1>7 DEF Next
<1> QED
  BY <1>8 DEF Goal

\* Nobody goes from one organisation to another without being removed.
THEOREM MembershipIsSingle == Spec => OneMembershipAtATime
<1>1. IInv /\ [Next]_vars =>
        [\A u \in Users : org[u] \notin {None, org'[u]} => org'[u] = None]_vars
  BY MembershipStep, Zenon
<1> QED
  BY IInvHolds, <1>1, PTL DEF Spec, OneMembershipAtATime

\* Whoever enters founds the organisation, or spends an open invitation to it.
LEMMA AdmissionStep ==
    ASSUME IInv, [Next]_vars
    PROVE  \A u \in Users :
          org'[u] \notin {None, org[u]} =>
              \/ orgStatus[org'[u]] = "ABSENT"
              \/ \E i \in Invites :
                    /\ invitee[i] = u /\ inviter[i] = org'[u]
                    /\ ~accepted[i] /\ ~revoked[i] /\ accepted'[i]
<1> DEFINE Goal ==
      \A v \in Users :
          org'[v] \notin {None, org[v]} =>
              \/ orgStatus[org'[v]] = "ABSENT"
              \/ \E k \in Invites :
                    /\ invitee[k] = v /\ inviter[k] = org'[v]
                    /\ ~accepted[k] /\ ~revoked[k] /\ accepted'[k]
<1> USE DEF IInv, TypeOK, userVars, inviteVars
<1>1. ASSUME NEW r \in Requests, Starting(r) PROVE Goal
  <2>1. ASSUME NEW u \in Users, CreateStarts(r, u) PROVE Goal
    BY <2>1 DEF CreateStarts
  <2>2. ASSUME NEW u \in Users, AcceptStarts(r, u) PROVE Goal
    BY <2>2 DEF AcceptStarts
  <2>3. ASSUME NEW u \in Users, NEW a \in Users, InviteStarts(r, a, u) PROVE Goal
    BY <2>3 DEF InviteStarts, ActivelyInvited
  <2>4. ASSUME NEW u \in Users, NEW a \in Users, DemoteStarts(r, a, u) PROVE Goal
    BY <2>4 DEF DemoteStarts
  <2>5. ASSUME NEW u \in Users, NEW a \in Users, RemoveStarts(r, a, u) PROVE Goal
    BY <2>5 DEF RemoveStarts
  <2>6. ASSUME NEW u \in Users, NEW a \in Users, TransferStarts(r, a, u) PROVE Goal
    BY <2>6 DEF TransferStarts
  <2>7. ASSUME NEW u \in Users, NEW i \in Invites, RevokeStarts(r, u, i) PROVE Goal
    BY <2>7 DEF RevokeStarts, Open
  <2>8. ASSUME NEW u \in Users, NEW i \in Invites, ResendStarts(r, u, i) PROVE Goal
    BY <2>8 DEF ResendStarts, Open
  <2> QED
    BY <1>1, <2>1, <2>2, <2>3, <2>4, <2>5, <2>6, <2>7, <2>8, Zenon DEF Starting
<1>2. ASSUME NEW r \in Requests, Continuing(r) PROVE Goal
  <2>1. ASSUME NEW o \in Orgs, Create(r, o) PROVE Goal
    BY <2>1 DEF Create, RequestsKnow
  <2>2. ASSUME NEW i \in Invites, CreateInvite(r, i) PROVE Goal
    BY <2>2 DEF CreateInvite
  <2>3. ASSUME NEW i \in Invites, Accept(r, i) PROVE Goal
    BY <2>3 DEF Accept, MarkAccepted, LinksIfUnlinked, Redeemable, Found, RequestsKnow, Acceptable
  <2>4. ASSUME MailInvite(r) PROVE Goal
    BY <2>4 DEF MailInvite
  <2>5. ASSUME MailInviteFails(r) PROVE Goal
    BY <2>5 DEF MailInviteFails
  <2>6. ASSUME Revoke(r) PROVE Goal
    BY <2>6 DEF Revoke
  <2>7. ASSUME Resend(r) PROVE Goal
    BY <2>7 DEF Resend
  <2>8. ASSUME Remail(r) PROVE Goal
    BY <2>8 DEF Remail
  <2>9. ASSUME RemailFails(r) PROVE Goal
    BY <2>9 DEF RemailFails
  <2>10. ASSUME Demote(r) PROVE Goal
    BY <2>10 DEF Demote
  <2>11. ASSUME Remove(r) PROVE Goal
    BY <2>11 DEF Remove
  <2>12. ASSUME Transfer(r) PROVE Goal
    BY <2>12 DEF Transfer
  <2>13. ASSUME Aborts(r) PROVE Goal
    BY <2>13 DEF Aborts
  <2> QED
    BY <1>2, <2>1, <2>2, <2>3, <2>4, <2>5, <2>6, <2>7, <2>8, <2>9, <2>10, <2>11,
       <2>12, <2>13, Zenon DEF Continuing
<1>3. ASSUME NEW u \in Users, NEW as \in {"STUDENT", "COMPANY_OWNER"}, Register(u, as)
      PROVE  Goal
  BY <1>3 DEF Register
<1>4. ASSUME NEW u \in Users, NEW i \in Invites, AcceptByRegistration(u, i)
      PROVE  Goal
  BY <1>4 DEF AcceptByRegistration, MarkAccepted, Redeemable, Found, Acceptable
<1>5. ASSUME NEW o \in Orgs, NEW s \in {"ACTIVE", "REJECTED"}, UpdateStatus(o, s)
      PROVE  Goal
  BY <1>5 DEF UpdateStatus
<1>6. ASSUME NEW i \in Invites, Expire(i)
      PROVE  Goal
  BY <1>6 DEF Expire
<1>7. ASSUME UNCHANGED vars PROVE Goal
  BY <1>7 DEF vars
<1> HIDE DEF Goal
<1>8. Goal
  BY <1>1, <1>2, <1>3, <1>4, <1>5, <1>6, <1>7 DEF Next
<1> QED
  BY <1>8 DEF Goal

\* Admissions are foundations and invitations.
THEOREM AdmissionIsEarned == Spec => AdmissionSpendsInvitation
<1>1. IInv /\ [Next]_vars =>
        [\A u \in Users :
            org'[u] \notin {None, org[u]} =>
                \/ orgStatus[org'[u]] = "ABSENT"
                \/ \E i \in Invites :
                      /\ invitee[i] = u /\ inviter[i] = org'[u]
                      /\ ~accepted[i] /\ ~revoked[i] /\ accepted'[i]]_vars
  BY AdmissionStep, Zenon
<1> QED
  BY IInvHolds, <1>1, PTL DEF Spec, AdmissionSpendsInvitation

=============================================================================
