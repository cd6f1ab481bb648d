---------------------------- MODULE TeamMembership ----------------------------
(***************************************************************************)
(* One student team: its members, its leader, its invitations and the lock *)
(* a submission sets (TeamService and InvitationService).  Teams share no  *)
(* row these services work on.                                             *)
(*                                                                         *)
(* Isolation.  removeMember, leaveTeam and transferLeadership are          *)
(* SERIALIZABLE, so they are consistent with each other.  The lock is set  *)
(* by a READ COMMITTED transaction, which they are not protected from:     *)
(* their reading of it is a step of its own unless they write the team's   *)
(* row, where the database refuses the update of a row changed since the   *)
(* snapshot.  The invitation handlers run at READ COMMITTED or without a   *)
(* transaction.                                                            *)
(*                                                                         *)
(* A token is its number among those drawn for its invitation, so tokens   *)
(* never collide.  Names, deletion by an administrator, and mails that are *)
(* taken back from the queue together with their invitation are left out.  *)
(***************************************************************************)
EXTENDS FiniteSets, Naturals

CONSTANTS
    Users,      \* students; each stands for his e-mail address as well
    Invites,    \* invitation identifiers (bounds the table)
    Requests,   \* HTTP requests that can be in flight at the same time
    MinimumCreatedCount, \* invitations a new team needs, 2 in the code
    MaxResends, \* bound on the tokens drawn for one invitation after its first
    None        \* the SQL null

ASSUME NoneIsNoUser == None \notin Users
ASSUME MaxResendsIsNatural == MaxResends \in Nat

VARIABLES
    leader,     \* Team.leaderId, None before the team exists
    members,    \* the users with a TeamMember row
    locked,     \* Team.lockedAt is set
    status,     \* Invitation.status
    invitee,    \* Invitation.email
    revoked,    \* Invitation.revokedAt is set
    expired,    \* Invitation.expiresAt has passed
    token,      \* Invitation.token
    drawn,      \* the tokens generated for it after the first
    mailed,     \* the tokens its invitee was mailed
    request     \* the handler each request is in the middle of

teamVars == <<leader, members, locked>>
inviteVars == <<status, invitee, revoked, expired, token, drawn, mailed>>
vars == <<teamVars, inviteVars, request>>

-----------------------------------------------------------------------------
InvitationStatus == {"PENDING", "ACCEPTED", "REVOKED"}

Token == 0 .. MaxResends

\* A handler between two of its database calls, with the invitations or the
\* users it works on and, in a resend, the old token and the new one.
Step == {"idle", "lead", "invite", "queue", "resend", "requeue", "accept", "remove"}
Request == [doing : Step, rows : SUBSET Invites, users : SUBSET Users,
            previous : Token, next : Token]
At(step, rows, users) ==
    [doing |-> step, rows |-> rows, users |-> users, previous |-> 0, next |-> 0]
Idle == At("idle", {}, {})

Goes(r, step, rows, users) == request' = [request EXCEPT ![r] = At(step, rows, users)]

Resends(r, step, i, previous, next) ==
    request' = [request EXCEPT ![r] = [At(step, {i}, {}) EXCEPT !.previous = previous,
                                                                !.next = next]]

Ends(r) == request' = [request EXCEPT ![r] = Idle]

\* A handler fails before the write its reads were for.
Aborts(r) ==
    /\ request[r].doing \in {"lead", "invite", "resend", "accept", "remove"}
    /\ Ends(r)
    /\ UNCHANGED <<teamVars, inviteVars>>

Absent == {i \in Invites : status[i] = "ABSENT"}

\* Faulty variant: only the status tells.
Unspent(i) == status[i] = "PENDING" /\ ~expired[i]

\* An invitation that can be accepted, revoked or resent.
Usable(i) == status[i] = "PENDING" /\ ~revoked[i] /\ ~expired[i]

\* createMany: one fresh invitation for each of the users.
Invited(rows, users) ==
    /\ rows \subseteq Absent
    /\ Cardinality(rows) = Cardinality(users)
    /\ \E to \in [rows -> users] :
          /\ \A u \in users : \E i \in rows : to[i] = u
          /\ invitee' = [i \in Invites |-> IF i \in rows THEN to[i] ELSE invitee[i]]
    /\ status' = [i \in Invites |-> IF i \in rows THEN "PENDING" ELSE status[i]]
    /\ UNCHANGED <<revoked, expired, token, drawn, mailed>>

Init ==
    /\ leader = None
    /\ members = {}
    /\ locked = FALSE
    /\ status = [i \in Invites |-> "ABSENT"]
    /\ invitee = [i \in Invites |-> None]
    /\ revoked = [i \in Invites |-> FALSE]
    /\ expired = [i \in Invites |-> FALSE]
    /\ token = [i \in Invites |-> 0]
    /\ drawn = [i \in Invites |-> 0]
    /\ mailed = [i \in Invites |-> {}]
    /\ request = [r \in Requests |-> Idle]

-----------------------------------------------------------------------------
(***************************************************************************)
(* Creating the team and inviting                                          *)
(***************************************************************************)

\* create: the team, its leader and enough invitations in one
\* transaction over new rows.
CreateTeam(r, u, rows, users) ==
    /\ leader = None
    /\ request[r] = Idle
    /\ u \notin users
    /\ Cardinality(users) >= MinimumCreatedCount
    /\ leader' = u
    /\ members' = {u}
    /\ Invited(rows, users)
    /\ Goes(r, "queue", rows, {})
    /\ UNCHANGED locked

\* TeamLeadGuard loads the team; createInvites and resend look for the lock
\* in what it loaded.
LeadFindsUnlocked(r) ==
    /\ request[r] = Idle
    /\ leader # None
    /\ ~locked
    /\ Goes(r, "lead", {}, {})
    /\ UNCHANGED <<teamVars, inviteVars>>

\* findActiveInvitationEmails
ActivelyInvited(users) ==
    {u \in users : \E i \in Invites : invitee[i] = u /\ Usable(i)}

\* findExistingMemberEmails
ExistingMembers(users) == users \cap members

\* filterInvitableEmails
Invitable(users) == users \ (ActivelyInvited(users) \cup ExistingMembers(users))

InviteFilters(r, users) ==
    /\ request[r].doing = "lead"
    /\ Invitable(users) # {}
    /\ Goes(r, "invite", {}, Invitable(users))
    /\ UNCHANGED <<teamVars, inviteVars>>

InviteInserts(r, rows) ==
    /\ request[r].doing = "invite"
    /\ Invited(rows, request[r].users)
    /\ Goes(r, "queue", rows, {})
    /\ UNCHANGED teamVars

\* enqueueInvitationEmailsOrRevoke: mail by mail, with the tokens they were
\* created with ...
QueueMails(r, i) ==
    /\ request[r].doing = "queue"
    /\ i \in request[r].rows
    /\ 0 \notin mailed[i]
    /\ mailed' = [mailed EXCEPT ![i] = @ \cup {0}]
    /\ UNCHANGED <<teamVars, status, invitee, revoked, expired, token, drawn, request>>

QueueEnds(r) ==
    /\ request[r].doing = "queue"
    /\ \A i \in request[r].rows : 0 \in mailed[i]
    /\ Ends(r)
    /\ UNCHANGED <<teamVars, inviteVars>>

\* Faulty variant: the failure is only reported.
QueueGivesUp(r) ==
    /\ request[r].doing = "queue"
    /\ Ends(r)
    /\ UNCHANGED <<teamVars, inviteVars>>

\* ... and when the queue refuses one, the whole batch is revoked, whatever
\* has become of it.
QueueFails(r) ==
    LET rows == request[r].rows IN
    /\ request[r].doing = "queue"
    /\ status' = [i \in Invites |-> IF i \in rows THEN "REVOKED" ELSE status[i]]
    /\ revoked' = [i \in Invites |-> i \in rows \/ revoked[i]]
    /\ Ends(r)
    /\ UNCHANGED <<teamVars, invitee, expired, token, drawn, mailed>>

\* revoke: a conditional update.
Revoke(i) ==
    /\ Usable(i)
    /\ status' = [status EXCEPT ![i] = "REVOKED"]
    /\ revoked' = [revoked EXCEPT ![i] = TRUE]
    /\ UNCHANGED <<teamVars, invitee, expired, token, drawn, mailed, request>>

\* The invitation's time runs out; nothing looks at the time of another one.
Expire(i) ==
    /\ Usable(i)
    /\ expired' = [expired EXCEPT ![i] = TRUE]
    /\ UNCHANGED <<teamVars, status, invitee, revoked, token, drawn, mailed, request>>

-----------------------------------------------------------------------------
(***************************************************************************)
(* resend checks the invitation, writes a new token and PENDING by         *)
(* identifier, and queues the mail; when the queue refuses it, the old     *)
(* token and time are written back.                                        *)
(***************************************************************************)
ResendReads(r, i) ==
    /\ request[r].doing = "lead"
    /\ Usable(i)
    /\ Resends(r, "resend", i, token[i], 0)
    /\ UNCHANGED <<teamVars, inviteVars>>

ResendWrites(r, i) ==
    /\ request[r].doing = "resend"
    /\ i \in request[r].rows
    /\ drawn[i] < MaxResends
    /\ drawn' = [drawn EXCEPT ![i] = @ + 1]
    /\ token' = [token EXCEPT ![i] = drawn[i] + 1]
    /\ status' = [status EXCEPT ![i] = "PENDING"]
    /\ expired' = [expired EXCEPT ![i] = FALSE]
    /\ Resends(r, "requeue", i, request[r].previous, drawn[i] + 1)
    /\ UNCHANGED <<teamVars, invitee, revoked, mailed>>

ResendMails(r, i) ==
    /\ request[r].doing = "requeue"
    /\ i \in request[r].rows
    /\ mailed' = [mailed EXCEPT ![i] = @ \cup {request[r].next}]
    /\ Ends(r)
    /\ UNCHANGED <<teamVars, status, invitee, revoked, expired, token, drawn>>

\* By now the old time may have passed, or a resend in between may have
\* written back an even older one.
ResendRollsBack(r, i) ==
    /\ request[r].doing = "requeue"
    /\ i \in request[r].rows
    /\ token' = [token EXCEPT ![i] = request[r].previous]
    /\ \E late \in BOOLEAN : expired' = [expired EXCEPT ![i] = late]
    /\ Ends(r)
    /\ UNCHANGED <<teamVars, status, invitee, revoked, drawn, mailed>>

-----------------------------------------------------------------------------
(***************************************************************************)
(* Joining and leaving                                                     *)
(***************************************************************************)

\* Faulty variant: a locked team is joined like any other.
AcceptReadsUnlocked(r, i) ==
    /\ request[r] = Idle
    /\ token[i] \in mailed[i]
    /\ Usable(i)
    /\ invitee[i] \notin members
    /\ Goes(r, "accept", {i}, {})
    /\ UNCHANGED <<teamVars, inviteVars>>

\* accept, READ COMMITTED: the checks ...
AcceptReads(r, i) ==
    /\ request[r] = Idle
    /\ token[i] \in mailed[i]
    /\ Usable(i)
    /\ ~locked
    /\ invitee[i] \notin members
    /\ Goes(r, "accept", {i}, {})
    /\ UNCHANGED <<teamVars, inviteVars>>

\* ... then markAcceptedIfPending repeats those of the invitation, and the
\* key of TeamMember refuses a second membership.
AcceptWrites(r, i) ==
    /\ request[r].doing = "accept"
    /\ i \in request[r].rows
    /\ Usable(i)
    /\ invitee[i] \notin members
    /\ status' = [status EXCEPT ![i] = "ACCEPTED"]
    /\ members' = members \cup {invitee[i]}
    /\ Ends(r)
    /\ UNCHANGED <<leader, locked, invitee, revoked, expired, token, drawn, mailed>>

\* removeMember and leaveTeam: the lock is that of the snapshot.
RemoveReads(r, u) ==
    /\ request[r] = Idle
    /\ ~locked
    /\ u \in members \ {leader}
    /\ Goes(r, "remove", {}, {u})
    /\ UNCHANGED <<teamVars, inviteVars>>

\* Faulty variant: the leader of the snapshot is as good as any.
RemoveWritesStale(r) ==
    /\ request[r].doing = "remove"
    /\ request[r].users \subseteq members
    /\ members' = members \ request[r].users
    /\ Ends(r)
    /\ UNCHANGED <<leader, locked, inviteVars>>

\* Were the member made leader meanwhile, one of the two would not serialize.
RemoveWrites(r) ==
    /\ request[r].doing = "remove"
    /\ request[r].users \subseteq members \ {leader}
    /\ members' = members \ request[r].users
    /\ Ends(r)
    /\ UNCHANGED <<leader, locked, inviteVars>>

TransferLeadership(u) ==
    /\ leader # None
    /\ ~locked
    /\ u \in members
    /\ leader' = u
    /\ UNCHANGED <<members, locked, inviteVars, request>>

\* submit of a Program A application.
LockTeam ==
    /\ leader # None
    /\ locked' = TRUE
    /\ UNCHANGED <<leader, members, inviteVars, request>>

InvitingNext(r) ==
    \/ \E rows \in SUBSET Invites, users \in SUBSET Users :
          \E u \in Users : CreateTeam(r, u, rows, users)
    \/ LeadFindsUnlocked(r)
    \/ \E users \in SUBSET Users : InviteFilters(r, users)
    \/ \E rows \in SUBSET Invites : InviteInserts(r, rows)
    \/ \E i \in Invites : QueueMails(r, i)
    \/ QueueEnds(r)
    \/ QueueFails(r)

AnsweringNext(r) ==
    \/ \E i \in Invites :
          \/ ResendReads(r, i)
          \/ ResendWrites(r, i)
          \/ ResendMails(r, i)
          \/ ResendRollsBack(r, i)
          \/ AcceptReads(r, i)
          \/ AcceptWrites(r, i)
    \/ \E u \in Users : RemoveReads(r, u)
    \/ RemoveWrites(r)
    \/ Aborts(r)

Next ==
    \/ \E r \in Requests : InvitingNext(r) \/ AnsweringNext(r)
    \/ \E i \in Invites : Revoke(i) \/ Expire(i)
    \/ \E u \in Users : TransferLeadership(u)
    \/ LockTeam

Spec == Init /\ [][Next]_vars

-----------------------------------------------------------------------------
(***************************************************************************)
(* Invariants                                                              *)
(***************************************************************************)

\* Every column holds a value of its type, and each handler works on the
\* rows its step is about.
TypeOK ==
    /\ leader \in Users \cup {None}
    /\ members \subseteq Users
    /\ locked \in BOOLEAN
    /\ status \in [Invites -> InvitationStatus \cup {"ABSENT"}]
    /\ invitee \in [Invites -> Users \cup {None}]
    /\ revoked \in [Invites -> BOOLEAN]
    /\ expired \in [Invites -> BOOLEAN]
    /\ token \in [Invites -> Token]
    /\ drawn \in [Invites -> Token]
    /\ mailed \in [Invites -> SUBSET Token]
    /\ request \in [Requests -> Request]
    /\ \A i \in Invites : status[i] # "ABSENT" => invitee[i] \in Users
    /\ \A r \in Requests : request[r].rows \cap Absent = {}

\* The leader is a member: neither a removal nor a departure that crosses a
\* transfer of leadership leaves the team with a leader from outside.
LeaderIsMember == leader # None => leader \in members

\* An invitation that is not revoked was mailed, or is about to be: when the
\* queue fails in the middle of a batch, or a resend crosses that, nothing is
\* left that blocks an address nobody has written to.
NobodyUninformed ==
    \A i \in Invites :
        status[i] # "ABSENT" /\ ~revoked[i]
        => \/ mailed[i] # {}
           \/ \E r \in Requests : request[r].doing = "queue" /\ i \in request[r].rows

-----------------------------------------------------------------------------
(***************************************************************************)
(* Action properties                                                       *)
(***************************************************************************)

\* A revoked invitation stays revoked and admits nobody, although a resend
\* in flight may write PENDING over its status.
RevokedAdmitsNobody ==
    [][\A i \in Invites :
          revoked[i] => /\ revoked'[i]
                        /\ status'[i] = "ACCEPTED" => status[i] = "ACCEPTED"]_vars

\* The requests that still may change who is in the team.
Movers == {r \in Requests : request[r].doing \in {"accept", "remove"}}

\* Once the team is locked it settles: no request starts to change it any
\* more, and each one that was in flight changes it at most once.
LockedTeamSettles ==
    [][locked => /\ Movers' \subseteq Movers
                 /\ <<members, leader>>' # <<members, leader>> => Movers' # Movers]_vars

=============================================================================
