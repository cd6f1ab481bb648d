------------------------ MODULE OrganizationMembership ------------------------
(***************************************************************************)
(* Organisations, the people in them and their invitations                 *)
(* (OrganizationService, OrganizationInviteService, the registration by    *)
(* invitation of AuthService, AdminOrganizationsService).                  *)
(*                                                                         *)
(* Isolation.  Every handler reads first and writes by identifier later,   *)
(* at READ COMMITTED or without a transaction, so the two are steps of     *)
(* their own.  What the code protects is one step: updates whose WHERE     *)
(* clause repeats the check, and the two ways to accept, which lock the    *)
(* invitation's row before they read it.                                   *)
(*                                                                         *)
(* A user stands for his e-mail address as well.  A token is its number    *)
(* among those drawn for its invitation.  Left out: the profile of an      *)
(* organisation, who is suspended, the mails that carry no token.          *)
(***************************************************************************)
EXTENDS FiniteSets, Naturals

CONSTANTS
    Users,      \* people, with or without an account
    Orgs,       \* organisation identifiers (bounds the table)
    Invites,    \* invitation identifiers (bounds the table)
    Requests,   \* HTTP requests that can be in flight at the same time
    MaxResends, \* bound on the tokens drawn for an invitation after its first
    None        \* the SQL null

ASSUME NoneIsNone == None \notin Users \cup Orgs \cup Invites
ASSUME MaxResendsIsNatural == MaxResends \in Nat

VARIABLES
    role,       \* User.role, NONE without an account
    org,        \* User.organizationId
    orgStatus,  \* Organization.status, ABSENT before the row exists
    status,     \* OrgInvitation.status, DELETED after the row is gone
    accepted,   \* OrgInvitation.acceptedAt is set
    revoked,    \* OrgInvitation.revokedAt is set
    expired,    \* OrgInvitation.expiresAt has passed
    invitee,    \* OrgInvitation.email
    inviter,    \* OrgInvitation.organizationId
    token,      \* OrgInvitation.token
    drawn,      \* the tokens generated for it after the first
    mailed,     \* the tokens its invitee was mailed
    request     \* the handler each request is in the middle of

userVars == <<role, org>>
inviteVars == <<status, accepted, revoked, expired, invitee, inviter, token, drawn, mailed>>
vars == <<userVars, orgStatus, inviteVars, request>>

-----------------------------------------------------------------------------
Role == {"NONE", "STUDENT", "COMPANY_OWNER", "COMPANY_EMPLOYEE"}
Token == 0 .. MaxResends

\* A handler between two of its database calls, with the invitation, the user
\* and the organisation it works on, and the tokens of a resend.
Step == {"idle", "create", "invite", "mail", "revoke", "resend", "remail",
         "accept", "demote", "remove", "transfer"}
Idle == [doing |-> "idle", invite |-> None, user |-> None, actor |-> None,
         org |-> None, previous |-> 0, next |-> 0]

Starts(r, step) == request[r] = Idle /\ request' = [request EXCEPT ![r] = step]
Ends(r) == request' = [request EXCEPT ![r] = Idle]

Init ==
    /\ role = [u \in Users |-> "NONE"]
    /\ org = [u \in Users |-> None]
    /\ orgStatus = [o \in Orgs |-> "ABSENT"]
    /\ status = [i \in Invites |-> "ABSENT"]
    /\ accepted = [i \in Invites |-> FALSE]
    /\ revoked = [i \in Invites |-> FALSE]
    /\ expired = [i \in Invites |-> FALSE]
    /\ invitee = [i \in Invites |-> None]
    /\ inviter = [i \in Invites |-> None]
    /\ token = [i \in Invites |-> 0]
    /\ drawn = [i \in Invites |-> 0]
    /\ mailed = [i \in Invites |-> {}]
    /\ request = [r \in Requests |-> Idle]

-----------------------------------------------------------------------------
\* ensureOrganizationOwnerAccess, over the user the request was authenticated as
Owns(u, o) == role[u] = "COMPANY_OWNER" /\ org[u] = o /\ o # None

\* findOrganizationMember
IsMember(u, o) == org[u] = o /\ role[u] \in {"COMPANY_OWNER", "COMPANY_EMPLOYEE"}

\* The unique index User_single_company_owner_per_org_idx: no other row takes
\* the place of the owner of u's organisation, once a has given it up.
OwnerPlaceFree(a, u) == \A v \in Users \ {a, u} : ~Owns(v, org[u])

\* ensureOrganizationCanAcceptInvites; nothing in the code suspends an organisation.
AcceptsInvites(o) == orgStatus[o] \in {"PENDING", "ACTIVE"}

\* isPendingAndUnexpired
Open(i) == status[i] = "PENDING" /\ ~accepted[i] /\ ~revoked[i] /\ ~expired[i]

\* Faulty variant: only the status says what became of the invitation.
AcceptableByStatus(i) == status[i] = "PENDING" /\ ~expired[i]

\* assertInvitationIsAcceptable, and the WHERE clause of markAcceptedIfPending
Acceptable(i) ==
    /\ ~(status[i] = "REVOKED" \/ revoked[i])
    /\ ~expired[i]
    /\ ~(status[i] = "ACCEPTED" \/ accepted[i])
    /\ status[i] = "PENDING"

\* Faulty variant: an invitation counts as accepted by its status only.
DisplayedByStatus(i) ==
    IF status[i] = "REVOKED" \/ revoked[i] THEN "REVOKED"
    ELSE IF status[i] = "ACCEPTED" THEN "ACCEPTED"
    ELSE IF expired[i] THEN "EXPIRED" ELSE "PENDING"

\* resolveDisplayInvitationStatus
Displayed(i) ==
    IF status[i] = "REVOKED" \/ revoked[i] THEN "REVOKED"
    ELSE IF status[i] = "ACCEPTED" \/ accepted[i] THEN "ACCEPTED"
    ELSE IF expired[i] THEN "EXPIRED" ELSE "PENDING"

\* buildStatusWhere: the invitations a filtered list shows.
Listed(filter) ==
    {i \in Invites : status[i] \notin {"ABSENT", "DELETED"} /\
        CASE filter = "PENDING" -> Open(i)
          [] filter = "EXPIRED" -> /\ status[i] = "PENDING" /\ expired[i]
                                   /\ ~accepted[i] /\ ~revoked[i]
          [] filter = "ACCEPTED" -> status[i] = "ACCEPTED" \/ accepted[i]
          [] filter = "REVOKED" -> status[i] = "REVOKED" \/ revoked[i]}

-----------------------------------------------------------------------------
(***************************************************************************)
(* Accounts and organisations                                              *)
(***************************************************************************)

\* register and registerCompanyOwner; the address is unique.
Register(u, as) ==
    /\ role[u] = "NONE"
    /\ as \in {"STUDENT", "COMPANY_OWNER"}
    /\ role' = [role EXCEPT ![u] = as]
    /\ UNCHANGED <<org, orgStatus, inviteVars, request>>

\* create, called by a user whose role was a company owner's.
CreateStarts(r, u) ==
    /\ role[u] = "COMPANY_OWNER"
    /\ Starts(r, [Idle EXCEPT !.doing = "create", !.user = u])
    /\ UNCHANGED <<userVars, orgStatus, inviteVars>>

\* The organisation, and updateOrganizationIfNotExists.
Create(r, o) ==
    /\ request[r].doing = "create"
    /\ orgStatus[o] = "ABSENT"
    /\ org[request[r].user] = None
    /\ orgStatus' = [orgStatus EXCEPT ![o] = "PENDING"]
    /\ org' = [org EXCEPT ![request[r].user] = o]
    /\ Ends(r)
    /\ UNCHANGED <<role, inviteVars>>

\* AdminOrganizationsService.updateStatus
UpdateStatus(o, s) ==
    /\ orgStatus[o] = "PENDING"
    /\ s \in {"ACTIVE", "REJECTED"}
    /\ orgStatus' = [orgStatus EXCEPT ![o] = s]
    /\ UNCHANGED <<userVars, inviteVars, request>>

-----------------------------------------------------------------------------
(***************************************************************************)
(* Inviting                                                                *)
(***************************************************************************)

\* findActivePendingByEmailAndOrganization
ActivelyInvited(u, o) ==
    \E i \in Invites : /\ invitee[i] = u /\ inviter[i] = o
                       /\ status[i] = "PENDING" /\ ~revoked[i] /\ ~expired[i]

\* createInvite: the address is free, and has no active invitation.
InviteStarts(r, a, u) ==
    /\ \E o \in Orgs :
          /\ Owns(a, o)
          /\ AcceptsInvites(o)
          /\ role[u] = "NONE"
          /\ ~ActivelyInvited(u, o)
          /\ Starts(r, [Idle EXCEPT !.doing = "invite", !.user = u, !.org = o])
    /\ UNCHANGED <<userVars, orgStatus, inviteVars>>

CreateInvite(r, i) ==
    /\ request[r].doing = "invite"
    /\ status[i] = "ABSENT"
    /\ status' = [status EXCEPT ![i] = "PENDING"]
    /\ invitee' = [invitee EXCEPT ![i] = request[r].user]
    /\ inviter' = [inviter EXCEPT ![i] = request[r].org]
    /\ request' = [request EXCEPT ![r] = [Idle EXCEPT !.doing = "mail", !.invite = i]]
    /\ UNCHANGED <<userVars, orgStatus, accepted, revoked, expired, token, drawn, mailed>>

MailInvite(r) ==
    /\ request[r].doing = "mail"
    /\ mailed' = [mailed EXCEPT ![request[r].invite] = @ \cup {0}]
    /\ Ends(r)
    /\ UNCHANGED <<userVars, orgStatus, status, accepted, revoked, expired, invitee,
                   inviter, token, drawn>>

\* Faulty variant: the invitation stays when its mail cannot be queued.
KeepUnmailed(r) ==
    /\ request[r].doing = "mail"
    /\ Ends(r)
    /\ UNCHANGED <<userVars, orgStatus, inviteVars>>

\* createAndSendInviteWithRollback: the queue fails, the row is deleted.
MailInviteFails(r) ==
    /\ request[r].doing = "mail"
    /\ status' = [status EXCEPT ![request[r].invite] = "DELETED"]
    /\ Ends(r)
    /\ UNCHANGED <<userVars, orgStatus, accepted, revoked, expired, invitee, inviter,
                   token, drawn, mailed>>

\* revokeInvite: access, and ensureInviteCanBeRevoked
RevokeStarts(r, a, i) ==
    /\ Owns(a, inviter[i])
    /\ Open(i)
    /\ Starts(r, [Idle EXCEPT !.doing = "revoke", !.invite = i])
    /\ UNCHANGED <<userVars, orgStatus, inviteVars>>

Revoke(r) ==
    /\ request[r].doing = "revoke"
    /\ status[request[r].invite] # "DELETED"
    /\ status' = [status EXCEPT ![request[r].invite] = "REVOKED"]
    /\ revoked' = [revoked EXCEPT ![request[r].invite] = TRUE]
    /\ Ends(r)
    /\ UNCHANGED <<userVars, orgStatus, accepted, expired, invitee, inviter, token,
                   drawn, mailed>>

\* resendInvite: access, and ensureInviteCanBeResent
ResendStarts(r, a, i) ==
    /\ Owns(a, inviter[i])
    /\ Open(i)
    /\ Starts(r, [Idle EXCEPT !.doing = "resend", !.invite = i, !.previous = token[i]])
    /\ UNCHANGED <<userVars, orgStatus, inviteVars>>

\* The new token and the new date, with the status written as PENDING again.
Resend(r) ==
    LET i == request[r].invite IN
    /\ request[r].doing = "resend"
    /\ status[i] # "DELETED"
    /\ drawn[i] < MaxResends
    /\ drawn' = [drawn EXCEPT ![i] = @ + 1]
    /\ token' = [token EXCEPT ![i] = drawn[i] + 1]
    /\ status' = [status EXCEPT ![i] = "PENDING"]
    /\ expired' = [expired EXCEPT ![i] = FALSE]
    /\ request' = [request EXCEPT ![r].doing = "remail", ![r].next = drawn[i] + 1]
    /\ UNCHANGED <<userVars, orgStatus, accepted, revoked, invitee, inviter, mailed>>

Remail(r) ==
    /\ request[r].doing = "remail"
    /\ mailed' = [mailed EXCEPT ![request[r].invite] = @ \cup {request[r].next}]
    /\ Ends(r)
    /\ UNCHANGED <<userVars, orgStatus, status, accepted, revoked, expired, invitee,
                   inviter, token, drawn>>

\* The queue fails: the token is written back, and the date, which may or may
\* not have passed.
RemailFails(r) ==
    /\ request[r].doing = "remail"
    /\ token' = [token EXCEPT ![request[r].invite] = request[r].previous]
    /\ \E passed \in BOOLEAN : expired' = [expired EXCEPT ![request[r].invite] = passed]
    /\ Ends(r)
    /\ UNCHANGED <<userVars, orgStatus, status, accepted, revoked, invitee, inviter,
                   drawn, mailed>>

Expire(i) ==
    /\ Open(i)
    /\ expired' = [expired EXCEPT ![i] = TRUE]
    /\ UNCHANGED <<userVars, orgStatus, status, accepted, revoked, invitee, inviter,
                   token, drawn, mailed, request>>

-----------------------------------------------------------------------------
(***************************************************************************)
(* Accepting                                                               *)
(***************************************************************************)

\* findByTokenForUpdate, with a token its invitee was mailed.
Found(i) == token[i] \in mailed[i] /\ status[i] \notin {"ABSENT", "DELETED"}

Redeemable(i) ==
    /\ Found(i)
    /\ Acceptable(i)
    /\ AcceptsInvites(inviter[i])

MarkAccepted(i) ==
    /\ status' = [status EXCEPT ![i] = "ACCEPTED"]
    /\ accepted' = [accepted EXCEPT ![i] = TRUE]
    /\ UNCHANGED <<revoked, expired, invitee, inviter, token, drawn, mailed>>

\* acceptInvite, called by a user who was in no organisation.
AcceptStarts(r, u) ==
    /\ role[u] # "NONE"
    /\ org[u] = None
    /\ Starts(r, [Idle EXCEPT !.doing = "accept", !.user = u])
    /\ UNCHANGED <<userVars, orgStatus, inviteVars>>

\* Faulty variant: the user is linked whatever he is linked to.
AcceptUnchecked(r, i) ==
    LET u == request[r].user IN
    /\ request[r].doing = "accept"
    /\ invitee[i] = u
    /\ Redeemable(i)
    /\ MarkAccepted(i)
    /\ org' = [org EXCEPT ![u] = inviter[i]]
    /\ role' = [role EXCEPT ![u] = "COMPANY_EMPLOYEE"]
    /\ Ends(r)
    /\ UNCHANGED orgStatus

\* linkToOrganizationIfUnlinked
LinksIfUnlinked(u, o) ==
    /\ org[u] = None
    /\ org' = [org EXCEPT ![u] = o]
    /\ role' = [role EXCEPT ![u] = "COMPANY_EMPLOYEE"]

\* The transaction: markAcceptedIfPending, and no more than one organisation.
Accept(r, i) ==
    LET u == request[r].user IN
    /\ request[r].doing = "accept"
    /\ invitee[i] = u
    /\ Redeemable(i)
    /\ MarkAccepted(i)
    /\ LinksIfUnlinked(u, inviter[i])
    /\ Ends(r)
    /\ UNCHANGED orgStatus

\* AuthService.acceptOrgInvite: the account is created in the organisation.
AcceptByRegistration(u, i) ==
    /\ invitee[i] = u
    /\ Redeemable(i)
    /\ role[u] = "NONE"
    /\ MarkAccepted(i)
    /\ org' = [org EXCEPT ![u] = inviter[i]]
    /\ role' = [role EXCEPT ![u] = "COMPANY_EMPLOYEE"]
    /\ UNCHANGED <<orgStatus, request>>

-----------------------------------------------------------------------------
(***************************************************************************)
(* Members and the owner                                                   *)
(***************************************************************************)

\* updateMemberRole; an employee is all a member can be made.
DemoteStarts(r, a, m) ==
    /\ Owns(a, org[a])
    /\ IsMember(m, org[a])
    /\ role[m] # "COMPANY_OWNER"
    /\ Starts(r, [Idle EXCEPT !.doing = "demote", !.user = m])
    /\ UNCHANGED <<userVars, orgStatus, inviteVars>>

Demote(r) ==
    /\ request[r].doing = "demote"
    /\ role' = [role EXCEPT ![request[r].user] = "COMPANY_EMPLOYEE"]
    /\ Ends(r)
    /\ UNCHANGED <<org, orgStatus, inviteVars>>

\* removeMember
RemoveStarts(r, a, m) ==
    /\ Owns(a, org[a])
    /\ IsMember(m, org[a])
    /\ role[m] # "COMPANY_OWNER"
    /\ Starts(r, [Idle EXCEPT !.doing = "remove", !.user = m])
    /\ UNCHANGED <<userVars, orgStatus, inviteVars>>

\* removeOrganizationMember
Remove(r) ==
    /\ request[r].doing = "remove"
    /\ org' = [org EXCEPT ![request[r].user] = None]
    /\ role' = [role EXCEPT ![request[r].user] = "STUDENT"]
    /\ Ends(r)
    /\ UNCHANGED <<orgStatus, inviteVars>>

\* transferOwner: what its transaction reads.
TransferStarts(r, a, m) ==
    /\ a # m
    /\ Owns(a, org[a])
    /\ IsMember(m, org[a])
    /\ Starts(r, [Idle EXCEPT !.doing = "transfer", !.actor = a, !.user = m])
    /\ UNCHANGED <<userVars, orgStatus, inviteVars>>

\* Both roles, by identifier.
Transfer(r) ==
    /\ request[r].doing = "transfer"
    /\ OwnerPlaceFree(request[r].actor, request[r].user)
    /\ role' = [role EXCEPT ![request[r].actor] = "COMPANY_EMPLOYEE",
                            ![request[r].user] = "COMPANY_OWNER"]
    /\ Ends(r)
    /\ UNCHANGED <<org, orgStatus, inviteVars>>

\* A check, a constraint or the database refuses what was going to be written.
Aborts(r) ==
    /\ request[r].doing \notin {"idle", "mail", "remail"}
    /\ Ends(r)
    /\ UNCHANGED <<userVars, orgStatus, inviteVars>>

-----------------------------------------------------------------------------
Starting(r) ==
    \E u \in Users :
        \/ CreateStarts(r, u) \/ AcceptStarts(r, u)
        \/ \E a \in Users : \/ InviteStarts(r, a, u) \/ DemoteStarts(r, a, u)
                            \/ RemoveStarts(r, a, u) \/ TransferStarts(r, a, u)
        \/ \E i \in Invites : RevokeStarts(r, u, i) \/ ResendStarts(r, u, i)

Continuing(r) ==
    \/ \E o \in Orgs : Create(r, o)
    \/ \E i \in Invites : CreateInvite(r, i) \/ Accept(r, i)
    \/ MailInvite(r) \/ MailInviteFails(r) \/ Revoke(r)
    \/ Resend(r) \/ Remail(r) \/ RemailFails(r)
    \/ Demote(r) \/ Remove(r) \/ Transfer(r) \/ Aborts(r)

Next ==
    \/ \E r \in Requests : Starting(r) \/ Continuing(r)
    \/ \E u \in Users :
          \/ \E as \in {"STUDENT", "COMPANY_OWNER"} : Register(u, as)
          \/ \E i \in Invites : AcceptByRegistration(u, i)
    \/ \E o \in Orgs, s \in {"ACTIVE", "REJECTED"} : UpdateStatus(o, s)
    \/ \E i \in Invites : Expire(i)

Spec == Init /\ [][Next]_vars

-----------------------------------------------------------------------------
(***************************************************************************)
(* Properties                                                              *)
(***************************************************************************)

\* The values the variables take.
TypeOK ==
    /\ role \in [Users -> Role]
    /\ org \in [Users -> Orgs \cup {None}]
    /\ orgStatus \in [Orgs -> {"ABSENT", "PENDING", "ACTIVE", "REJECTED"}]
    /\ status \in [Invites -> {"ABSENT", "PENDING", "ACCEPTED", "REVOKED", "DELETED"}]
    /\ accepted \in [Invites -> BOOLEAN]
    /\ revoked \in [Invites -> BOOLEAN]
    /\ expired \in [Invites -> BOOLEAN]
    /\ invitee \in [Invites -> Users \cup {None}]
    /\ inviter \in [Invites -> Orgs \cup {None}]
    /\ token \in [Invites -> Token]
    /\ drawn \in [Invites -> Token]
    /\ mailed \in [Invites -> SUBSET Token]
    /\ request \in [Requests -> [doing : Step, invite : Invites \cup {None},
                                 user : Users \cup {None}, actor : Users \cup {None},
                                 org : Orgs \cup {None}, previous : Token, next : Token]]

\* An invitation that keeps an address from being invited again is one its
\* owner was mailed a link for, or is about to be: a failing queue leaves none.
NobodyUninformed ==
    \A i \in Invites :
        status[i] = "PENDING" =>
            \/ mailed[i] # {}
            \/ \E r \in Requests : request[r].doing = "mail" /\ request[r].invite = i

\* The list filtered by a status holds the invitations shown with it, also
\* when overlapping requests left a status and dates that disagree.
ListedAsDisplayed ==
    \A i \in Invites :
        status[i] \notin {"ABSENT", "DELETED"} => i \in Listed(Displayed(i))

\* Nobody goes from one organisation to another without being removed, whoever
\* founds, accepts and removes at the same time.
OneMembershipAtATime ==
    [][\A u \in Users : org[u] \notin {None, org'[u]} => org'[u] = None]_vars

\* Whoever enters an organisation has founded it or spends an invitation to
\* it, one that was never accepted nor revoked, whatever the overlapping
\* resends and revocations wrote into its status.
AdmissionSpendsInvitation ==
    [][\A u \in Users :
          org'[u] \notin {None, org[u]} =>
              \/ orgStatus[org'[u]] = "ABSENT"
              \/ \E i \in Invites :
                    /\ invitee[i] = u /\ inviter[i] = org'[u]
                    /\ ~accepted[i] /\ ~revoked[i] /\ accepted'[i]]_vars

=============================================================================
