------------------------- MODULE TeamMembershipProofs -------------------------
(***************************************************************************)
(* Proofs about a team and its invitations, for any number of students,    *)
(* invitations and requests in flight.                                     *)
(***************************************************************************)
EXTENDS TeamMembership, TLAPS

USE DEF InvitationStatus, Step, Token, At, Idle, Goes, Resends, Ends, Usable, Absent

-----------------------------------------------------------------------------
(***************************************************************************)
(* Types                                                                   *)
(***************************************************************************)

\* The empty tables have the types of their columns.
LEMMA TypeInit == Init => TypeOK
<1> SUFFICES ASSUME Init PROVE TypeOK
  OBVIOUS
<1>1. request \in [Requests -> Request]
  <2>1. Idle \in Request
    BY MaxResendsIsNatural DEF Request
  <2> QED
    BY <2>1, Zenon DEF Init
<1>2. \A r \in Requests : request[r].rows = {}
  BY DEF Init
<1>3. token \in [Invites -> Token] /\ drawn \in [Invites -> Token]
  BY MaxResendsIsNatural DEF Init
<1>4. mailed \in [Invites -> SUBSET Token]
  BY DEF Init
<1> HIDE DEF Token, Idle
<1>5. \A i \in Invites : status[i] = "ABSENT"
  BY DEF Init
<1> QED
  BY <1>1, <1>2, <1>3, <1>4, <1>5 DEF Init, TypeOK

\* What a resend keeps between two steps has its type.
LEMMA ResendingIsRequest ==
    ASSUME NEW step \in Step, NEW i \in Invites,
           NEW previous \in Token, NEW next \in Token
    PROVE  LET resending == [At(step, {i}, {}) EXCEPT !.previous = previous, !.next = next]
           IN  resending \in Request /\ resending.rows = {i}
  BY DEF Request

\* No handler's step stores a value of another type.
LEMMA TypeStep == TypeOK /\ [Next]_vars => TypeOK'
<1> SUFFICES ASSUME TypeOK, [Next]_vars PROVE TypeOK'
  OBVIOUS
<1> USE MaxResendsIsNatural DEF teamVars, inviteVars
<1>1. ASSUME NEW r \in Requests, InvitingNext(r) PROVE TypeOK'
  <2>1. ASSUME NEW rows \in SUBSET Invites, NEW users \in SUBSET Users,
               NEW u \in Users, CreateTeam(r, u, rows, users)
        PROVE  TypeOK'
    BY <2>1 DEF CreateTeam, Invited, TypeOK, Request
  <2>2. ASSUME LeadFindsUnlocked(r) PROVE TypeOK'
    BY <2>2 DEF LeadFindsUnlocked, TypeOK, Request
  <2>3. ASSUME NEW users \in SUBSET Users, InviteFilters(r, users) PROVE TypeOK'
    BY <2>3 DEF InviteFilters, Invitable, TypeOK, Request
  <2>4. ASSUME NEW rows \in SUBSET Invites, InviteInserts(r, rows) PROVE TypeOK'
    BY <2>4 DEF InviteInserts, Invited, TypeOK, Request
  <2>5. ASSUME NEW i \in Invites, QueueMails(r, i) PROVE TypeOK'
    BY <2>5 DEF QueueMails, TypeOK, Request
  <2>6. ASSUME QueueEnds(r) PROVE TypeOK'
    BY <2>6 DEF QueueEnds, TypeOK, Request
  <2>7. ASSUME QueueFails(r) PROVE TypeOK'
    BY <2>7 DEF QueueFails, TypeOK, Request
  <2> QED
    BY <1>1, <2>1, <2>2, <2>3, <2>4, <2>5, <2>6, <2>7, Zenon DEF InvitingNext
<1>2. ASSUME NEW r \in Requests, AnsweringNext(r) PROVE TypeOK'
  <2>1. ASSUME NEW i \in Invites, ResendReads(r, i) PROVE TypeOK'
    <3>1. token[i] \in Token /\ 0 \in Token
      BY DEF TypeOK
    <3>2. request' \in [Requests -> Request] /\ request'[r].rows = {i}
      BY <2>1, <3>1, ResendingIsRequest DEF ResendReads, TypeOK
    <3> HIDE DEF Resends
    <3>3. \A s \in Requests \ {r} : request'[s] = request[s]
      BY <2>1 DEF ResendReads, Resends, TypeOK
    <3> QED
      BY <2>1, <3>2, <3>3 DEF ResendReads, TypeOK
  <2>2. ASSUME NEW i \in Invites, ResendWrites(r, i) PROVE TypeOK'
    <3>1. request[r].previous \in Token /\ drawn[i] + 1 \in Token
      BY <2>2 DEF ResendWrites, TypeOK, Request
    <3>2. request' \in [Requests -> Request] /\ request'[r].rows = {i}
      BY <2>2, <3>1, ResendingIsRequest DEF ResendWrites, TypeOK
    <3> HIDE DEF Resends
    <3>3. \A s \in Requests \ {r} : request'[s] = request[s]
      BY <2>2 DEF ResendWrites, Resends, TypeOK
    <3> QED
      BY <2>2, <3>1, <3>2, <3>3 DEF ResendWrites, TypeOK
  <2>3. ASSUME NEW i \in Invites, ResendMails(r, i) PROVE TypeOK'
    BY <2>3 DEF ResendMails, TypeOK, Request
  <2>4. ASSUME NEW i \in Invites, ResendRollsBack(r, i) PROVE TypeOK'
    BY <2>4 DEF ResendRollsBack, TypeOK, Request
  <2>5. ASSUME NEW i \in Invites, AcceptReads(r, i) PROVE TypeOK'
    BY <2>5 DEF AcceptReads, TypeOK, Request
  <2>6. ASSUME NEW i \in Invites, AcceptWrites(r, i) PROVE TypeOK'
    BY <2>6 DEF AcceptWrites, TypeOK, Request
  <2>7. ASSUME NEW u \in Users, RemoveReads(r, u) PROVE TypeOK'
    BY <2>7 DEF RemoveReads, TypeOK, Request
  <2>8. ASSUME RemoveWrites(r) PROVE TypeOK'
    BY <2>8 DEF RemoveWrites, TypeOK, Request
  <2>9. ASSUME Aborts(r) PROVE TypeOK'
    BY <2>9 DEF Aborts, TypeOK, Request
  <2> QED
    BY <1>2, <2>1, <2>2, <2>3, <2>4, <2>5, <2>6, <2>7, <2>8, <2>9, Zenon
       DEF AnsweringNext
<1>3. ASSUME NEW i \in Invites, Revoke(i) \/ Expire(i) PROVE TypeOK'
  BY <1>3 DEF Revoke, Expire, TypeOK, Request
<1>4. ASSUME NEW u \in Users, TransferLeadership(u) PROVE TypeOK'
  BY <1>4 DEF TransferLeadership, TypeOK, Request
<1>5. ASSUME LockTeam PROVE TypeOK'
  BY <1>5 DEF LockTeam, TypeOK, Request
<1>6. ASSUME UNCHANGED vars PROVE TypeOK'
  BY <1>6 DEF vars, TypeOK
<1> QED
  BY <1>1, <1>2, <1>3, <1>4, <1>5, <1>6, Zenon DEF Next

\* The columns keep their types and every handler works on stored rows.
THEOREM TypesHold == Spec => []TypeOK
  BY TypeInit, TypeStep, PTL DEF Spec

-----------------------------------------------------------------------------
(***************************************************************************)
(* Members                                                                 *)
(***************************************************************************)

\* What a step can do to the team: create it, add a member, remove one who is
\* not the leader, hand over the lead to a member, lock it, or nothing.
LEMMA TeamSteps ==
    ASSUME TypeOK, [Next]_vars
    PROVE  \/ /\ leader = None
              /\ \E u \in Users : leader' = u /\ members' = {u}
              /\ UNCHANGED locked
           \/ \E r \in Requests :
                 /\ request[r].doing = "accept"
                 /\ request'[r] = Idle
                 /\ members \subseteq members'
                 /\ UNCHANGED <<leader, locked>>
           \/ \E r \in Requests :
                 /\ request[r].doing = "remove"
                 /\ request'[r] = Idle
                 /\ \E users : leader \notin users /\ members' = members \ users
                 /\ UNCHANGED <<leader, locked>>
           \/ leader # None /\ ~locked /\ leader' \in members /\ leader' \in Users
              /\ UNCHANGED <<members, locked>>
           \/ leader # None /\ locked' /\ UNCHANGED <<leader, members>>
           \/ UNCHANGED teamVars
<1> USE DEF teamVars, inviteVars, TypeOK
<1>1. CASE UNCHANGED vars
  BY <1>1 DEF vars
<1>2. ASSUME NEW r \in Requests, InvitingNext(r)
      PROVE  \/ /\ leader = None
                /\ \E u \in Users : leader' = u /\ members' = {u}
                /\ UNCHANGED locked
             \/ UNCHANGED teamVars
  BY <1>2, Zenon DEF InvitingNext, CreateTeam, LeadFindsUnlocked, InviteFilters,
                     InviteInserts, QueueMails, QueueEnds, QueueFails
<1>3. ASSUME NEW r \in Requests, NEW i \in Invites, AcceptWrites(r, i)
      PROVE  /\ request[r].doing = "accept"
             /\ request'[r] = Idle
             /\ members \subseteq members'
             /\ UNCHANGED <<leader, locked>>
  BY <1>3 DEF AcceptWrites
<1>4. ASSUME NEW r \in Requests, RemoveWrites(r)
      PROVE  /\ request[r].doing = "remove"
             /\ request'[r] = Idle
             /\ leader \notin request[r].users /\ members' = members \ request[r].users
             /\ UNCHANGED <<leader, locked>>
  BY <1>4 DEF RemoveWrites
<1>5. ASSUME NEW r \in Requests, AnsweringNext(r)
      PROVE  \/ \E i \in Invites : AcceptWrites(r, i)
             \/ RemoveWrites(r)
             \/ UNCHANGED teamVars
  BY <1>5, Zenon DEF AnsweringNext, ResendReads, ResendWrites, ResendMails,
                     ResendRollsBack, AcceptReads, RemoveReads, Aborts
<1>6. ASSUME NEW i \in Invites, Revoke(i) \/ Expire(i) PROVE UNCHANGED teamVars
  BY <1>6, Zenon DEF Revoke, Expire
<1>7. ASSUME NEW u \in Users, TransferLeadership(u)
      PROVE  leader # None /\ ~locked /\ leader' \in members /\ leader' \in Users
             /\ UNCHANGED <<members, locked>>
  BY <1>7 DEF TransferLeadership
<1>8. ASSUME LockTeam PROVE leader # None /\ locked' /\ UNCHANGED <<leader, members>>
  BY <1>8 DEF LockTeam
<1> QED
  BY <1>1, <1>2, <1>3, <1>4, <1>5, <1>6, <1>7, <1>8, Zenon DEF Next

\* However removals, departures and transfers cross, the leader is a member.
THEOREM LeaderStaysMember == Spec => []LeaderIsMember
<1>1. Init => LeaderIsMember
  BY DEF Init, LeaderIsMember
<1>2. TypeOK /\ LeaderIsMember /\ [Next]_vars => LeaderIsMember'
  BY TeamSteps DEF LeaderIsMember, teamVars
<1> QED
  BY TypesHold, <1>1, <1>2, PTL DEF Spec

\* Only a team that exists is locked.
LockedExists == locked => leader # None

LEMMA LockedExistsHolds == Spec => []LockedExists
<1>1. Init => LockedExists
  BY DEF Init, LockedExists
<1>2. TypeOK /\ LockedExists /\ [Next]_vars => LockedExists'
  BY TeamSteps, NoneIsNoUser DEF LockedExists, teamVars
<1> QED
  BY TypesHold, <1>1, <1>2, PTL DEF Spec

\* Nobody starts to join or leave a locked team.
LEMMA LockedStopsMovers == TypeOK /\ locked /\ [Next]_vars => Movers' \subseteq Movers
<1> SUFFICES ASSUME TypeOK, locked, [Next]_vars PROVE Movers' \subseteq Movers
  OBVIOUS
<1> USE DEF Movers, TypeOK
<1>1. ASSUME NEW r \in Requests, InvitingNext(r) PROVE Movers' \subseteq Movers
  <2> DEFINE Inviting ==
               \/ UNCHANGED request
               \/ \E step \in {"idle", "lead", "invite", "queue"},
                     rows \in SUBSET Invites, users \in SUBSET Users :
                     Goes(r, step, rows, users)
  <2>1. ASSUME NEW rows \in SUBSET Invites, NEW users \in SUBSET Users, NEW u \in Users,
               CreateTeam(r, u, rows, users)
        PROVE  Inviting
    BY <2>1 DEF CreateTeam
  <2>2. ASSUME LeadFindsUnlocked(r) PROVE Inviting
    BY <2>2 DEF LeadFindsUnlocked
  <2>3. ASSUME NEW users \in SUBSET Users, InviteFilters(r, users) PROVE Inviting
    BY <2>3 DEF InviteFilters, Invitable
  <2>4. ASSUME NEW rows \in SUBSET Invites, InviteInserts(r, rows) PROVE Inviting
    BY <2>4 DEF InviteInserts
  <2>5. ASSUME \/ \E i \in Invites : QueueMails(r, i)
               \/ QueueEnds(r)
               \/ QueueFails(r)
        PROVE  Inviting
    BY <2>5 DEF QueueMails, QueueEnds, QueueFails
  <2>6. Inviting
    BY <1>1, <2>1, <2>2, <2>3, <2>4, <2>5, Zenon DEF InvitingNext
  <2>7. ASSUME NEW step \in {"idle", "lead", "invite", "queue"},
               NEW rows \in SUBSET Invites, NEW users \in SUBSET Users,
               Goes(r, step, rows, users)
        PROVE  Movers' \subseteq Movers
    BY <2>7
  <2> HIDE DEF Goes
  <2> QED
    BY <2>6, <2>7
<1>2. ASSUME NEW r \in Requests, AnsweringNext(r) PROVE Movers' \subseteq Movers
  <2>1. ASSUME NEW i \in Invites, ResendReads(r, i) PROVE Movers' \subseteq Movers
    BY <2>1 DEF ResendReads
  <2>2. ASSUME NEW i \in Invites, ResendWrites(r, i) PROVE Movers' \subseteq Movers
    BY <2>2 DEF ResendWrites
  <2>3. ASSUME \/ \E i \in Invites : \/ ResendMails(r, i) \/ ResendRollsBack(r, i)
                                     \/ AcceptWrites(r, i)
               \/ RemoveWrites(r)
               \/ Aborts(r)
        PROVE  Ends(r)
    BY <2>3, Zenon DEF ResendMails, ResendRollsBack, AcceptWrites, RemoveWrites, Aborts
  <2>4. ASSUME Ends(r) PROVE Movers' \subseteq Movers
    BY <2>4
  <2> QED
    BY <1>2, <2>1, <2>2, <2>3, <2>4, Zenon DEF AnsweringNext, AcceptReads, RemoveReads
<1>3. ASSUME \/ \E i \in Invites : Revoke(i) \/ Expire(i)
             \/ \E u \in Users : TransferLeadership(u)
             \/ LockTeam
             \/ UNCHANGED vars
      PROVE  Movers' \subseteq Movers
  BY <1>3 DEF Revoke, Expire, TransferLeadership, LockTeam, vars
<1> QED
  BY <1>1, <1>2, <1>3, Zenon DEF Next

\* Once locked, the team settles: what was in flight may still land, once each.
THEOREM LockSettles == Spec => LockedTeamSettles
<1>1. ASSUME TypeOK, LockedExists, [Next]_vars, locked
      PROVE  /\ Movers' \subseteq Movers
             /\ <<members, leader>>' # <<members, leader>> => Movers' # Movers
  <2>1. Movers' \subseteq Movers
    BY <1>1, LockedStopsMovers
  <2>2. ASSUME <<members, leader>>' # <<members, leader>> PROVE Movers' # Movers
    <3>1. PICK r \in Requests : request[r].doing \in {"accept", "remove"}
                                /\ request'[r] = Idle
      BY <1>1, <2>2, TeamSteps DEF LockedExists, teamVars
    <3> QED
      BY <3>1 DEF Movers
  <2> QED
    BY <2>1, <2>2
<1>2. TypeOK /\ LockedExists /\ [Next]_vars
      => [locked => /\ Movers' \subseteq Movers
                    /\ <<members, leader>>' # <<members, leader>> => Movers' # Movers]_vars
  BY <1>1
<1> QED
  BY TypesHold, LockedExistsHolds, <1>2, PTL DEF Spec, LockedTeamSettles

-----------------------------------------------------------------------------
(***************************************************************************)
(* Invitations                                                             *)
(***************************************************************************)

\* An invitation that a step accepts was not revoked, and no step clears the
\* mark of a revoked one.
LEMMA RevokedStep ==
    ASSUME TypeOK, [Next]_vars, NEW i \in Invites, revoked[i]
    PROVE  revoked'[i] /\ (status'[i] = "ACCEPTED" => status[i] = "ACCEPTED")
<1> DEFINE Stays == revoked'[i] /\ (status'[i] = "ACCEPTED" => status[i] = "ACCEPTED")
<1> USE DEF TypeOK, inviteVars
<1>1. ASSUME NEW r \in Requests, InvitingNext(r) PROVE Stays
  BY <1>1 DEF InvitingNext, CreateTeam, LeadFindsUnlocked, InviteFilters,
              InviteInserts, QueueMails, QueueEnds, QueueFails, Invited
<1>2. ASSUME NEW r \in Requests, AnsweringNext(r) PROVE Stays
  <2>1. ASSUME NEW j \in Invites, AcceptWrites(r, j) PROVE Stays
    BY <2>1 DEF AcceptWrites
  <2>2. ASSUME NEW j \in Invites, ResendWrites(r, j) PROVE Stays
    BY <2>2 DEF ResendWrites
  <2>3. ASSUME \/ \E j \in Invites : \/ ResendReads(r, j) \/ ResendMails(r, j)
                                     \/ ResendRollsBack(r, j) \/ AcceptReads(r, j)
               \/ \E u \in Users : RemoveReads(r, u)
               \/ RemoveWrites(r)
               \/ Aborts(r)
        PROVE  UNCHANGED <<revoked, status>>
    BY <2>3, Zenon DEF ResendReads, ResendMails, ResendRollsBack, AcceptReads,
                       RemoveReads, RemoveWrites, Aborts
  <2> QED
    BY <1>2, <2>1, <2>2, <2>3 DEF AnsweringNext
<1>3. ASSUME \/ \E j \in Invites : Revoke(j) \/ Expire(j)
             \/ \E u \in Users : TransferLeadership(u)
             \/ LockTeam
             \/ UNCHANGED vars
      PROVE  Stays
  BY <1>3 DEF Revoke, Expire, TransferLeadership, LockTeam, vars
<1> QED
  BY <1>1, <1>2, <1>3, Zenon DEF Next

\* A revoked invitation lets nobody in, whatever a crossing resend writes.
THEOREM RevocationIsFinal == Spec => RevokedAdmitsNobody
<1>1. TypeOK /\ [Next]_vars
      => [\A i \in Invites :
             revoked[i] => /\ revoked'[i]
                           /\ status'[i] = "ACCEPTED" => status[i] = "ACCEPTED"]_vars
  BY RevokedStep
<1> QED
  BY TypesHold, <1>1, PTL DEF Spec, RevokedAdmitsNobody

\* A request that is about to mail an invitation.
Informs(r, i) == request[r].doing = "queue" /\ i \in request[r].rows

\* An invitation is told of, is about to be, or does not count.
Told(i) == \/ status[i] = "ABSENT"
           \/ revoked[i]
           \/ mailed[i] # {}
           \/ \E r \in Requests : Informs(r, i)

\* A step of a request that was not queueing leaves the others queueing; it
\* need only not create an invitation.
LEMMA OthersInform ==
    ASSUME TypeOK, NEW i \in Invites, Told(i), NEW r \in Requests,
           request[r].doing # "queue",
           \A s \in Requests \ {r} : request'[s] = request[s],
           status'[i] = "ABSENT" \/ status[i] # "ABSENT",
           revoked[i] => revoked'[i],
           mailed[i] \subseteq mailed'[i]
    PROVE  Told(i)'
  BY DEF Told, Informs

\* The queue either takes every mail of a batch or the batch is revoked.
LEMMA InformStep == TypeOK /\ NobodyUninformed /\ [Next]_vars => NobodyUninformed'
<1> SUFFICES ASSUME TypeOK, [Next]_vars, NEW i \in Invites, Told(i)
             PROVE  Told(i)'
  BY Zenon DEF NobodyUninformed, Told, Informs
<1> USE DEF TypeOK, teamVars, inviteVars
<1>1. ASSUME NEW r \in Requests, InvitingNext(r) PROVE Told(i)'
  <2>1. ASSUME NEW rows \in SUBSET Invites, NEW users \in SUBSET Users,
               Invited(rows, users), Goes(r, "queue", rows, {}),
               request[r].doing # "queue"
        PROVE  Told(i)'
    <3>1. CASE i \in rows
      BY <2>1, <3>1 DEF Told, Informs
    <3>2. CASE i \notin rows
      BY <2>1, <3>2, OthersInform DEF Invited
    <3> QED
      BY <3>1, <3>2
  <2>2. ASSUME NEW rows \in SUBSET Invites, NEW users \in SUBSET Users, NEW u \in Users,
               CreateTeam(r, u, rows, users)
        PROVE  Told(i)'
    <3>1. request[r].doing # "queue"
      BY <2>2 DEF CreateTeam
    <3>2. Invited(rows, users) /\ Goes(r, "queue", rows, {})
      BY <2>2, Zenon DEF CreateTeam
    <3> QED
      BY <2>1, <3>1, <3>2
  <2>3. ASSUME LeadFindsUnlocked(r) PROVE Told(i)'
    BY <2>3, OthersInform DEF LeadFindsUnlocked
  <2>4. ASSUME NEW users \in SUBSET Users, InviteFilters(r, users) PROVE Told(i)'
    BY <2>4, OthersInform DEF InviteFilters
  <2>5. ASSUME NEW rows \in SUBSET Invites, InviteInserts(r, rows) PROVE Told(i)'
    <3>1. request[r].users \in SUBSET Users
      BY DEF Request
    <3> QED
      BY <2>1, <2>5, <3>1 DEF InviteInserts
  <2>6. ASSUME NEW j \in Invites, QueueMails(r, j) PROVE Told(i)'
    BY <2>6 DEF QueueMails, Told, Informs
  <2>7. ASSUME QueueEnds(r) PROVE Told(i)'
    BY <2>7 DEF QueueEnds, Told, Informs
  <2>8. ASSUME QueueFails(r) PROVE Told(i)'
    BY <2>8 DEF QueueFails, Told, Informs
  <2> QED
    BY <1>1, <2>2, <2>3, <2>4, <2>5, <2>6, <2>7, <2>8, Zenon DEF InvitingNext
<1>2. ASSUME NEW r \in Requests, AnsweringNext(r) PROVE Told(i)'
  <2>1. ASSUME NEW j \in Invites, ResendReads(r, j) PROVE Told(i)'
    BY <2>1, OthersInform DEF ResendReads
  <2>2. ASSUME NEW j \in Invites, ResendWrites(r, j) PROVE Told(i)'
    <3>1. status'[i] = "ABSENT" \/ status[i] # "ABSENT"
      BY <2>2 DEF ResendWrites
    <3> QED
      BY <2>2, <3>1, OthersInform DEF ResendWrites
  <2>3. ASSUME NEW j \in Invites, ResendMails(r, j) PROVE Told(i)'
    BY <2>3, OthersInform DEF ResendMails
  <2>4. ASSUME NEW j \in Invites, ResendRollsBack(r, j) \/ AcceptReads(r, j)
        PROVE  Told(i)'
    BY <2>4, OthersInform DEF ResendRollsBack, AcceptReads
  <2>5. ASSUME NEW j \in Invites, AcceptWrites(r, j) PROVE Told(i)'
    BY <2>5, OthersInform DEF AcceptWrites
  <2>6. ASSUME NEW u \in Users, RemoveReads(r, u) PROVE Told(i)'
    BY <2>6, OthersInform DEF RemoveReads
  <2>7. ASSUME RemoveWrites(r) \/ Aborts(r) PROVE Told(i)'
    BY <2>7, OthersInform DEF RemoveWrites, Aborts
  <2> QED
    BY <1>2, <2>1, <2>2, <2>3, <2>4, <2>5, <2>6, <2>7, Zenon DEF AnsweringNext
<1>3. ASSUME NEW j \in Invites, Revoke(j) PROVE Told(i)'
  BY <1>3 DEF Revoke, Told, Informs
<1>4. ASSUME \/ \E j \in Invites : Expire(j)
             \/ \E u \in Users : TransferLeadership(u)
             \/ LockTeam
             \/ UNCHANGED vars
      PROVE  UNCHANGED <<status, revoked, mailed, request>>
  BY <1>4, Zenon DEF Expire, TransferLeadership, LockTeam, vars
<1>5. ASSUME UNCHANGED <<status, revoked, mailed, request>> PROVE Told(i)'
  BY <1>5, Zenon DEF Told, Informs
<1> QED
  BY <1>1, <1>2, <1>3, <1>4, <1>5, Zenon DEF Next

\* Whatever the queue does, no invitation is left that nobody was told of,
\* unless its request dies between the insertion and the mails.
THEOREM EverybodyIsInformed == Spec => []NobodyUninformed
<1>1. Init => NobodyUninformed
  BY DEF Init, NobodyUninformed
<1> QED
  BY TypesHold, <1>1, InformStep, PTL DEF Spec

=============================================================================
