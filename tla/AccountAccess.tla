----------------------------- MODULE AccountAccess -----------------------------
(***************************************************************************)
(* One account and who gets into it: registration, confirmation, login,    *)
(* refresh, the ways to change the password and the e-mail address, and    *)
(* suspension (AuthService, AuthRegistrationService, AccountService,       *)
(* RefreshJwtStrategy, AdminUsersService and the token services).          *)
(*                                                                         *)
(* A handler that issues tokens reads the account first and stores the     *)
(* refresh token last, with hashing and signing in between; the two are    *)
(* steps of a request.  A transaction is one action.  A session is a row   *)
(* of RefreshToken.                                                        *)
(*                                                                         *)
(* A password is the number of times it was changed, and so is an address. *)
(* Links carry no identity here: the row of a token has the hash of the    *)
(* newest one only, and the older ones find nothing.                       *)
(***************************************************************************)
EXTENDS Naturals

CONSTANTS
    Sessions,       \* refresh token identifiers (bounds the table)
    Requests,       \* HTTP requests that can be in flight at the same time
    MaxPasswords,   \* bound on the changes of the password
    MaxEmails,      \* bound on the changes of the address
    None            \* no session

ASSUME NoneIsNoSession == None \notin Sessions
ASSUME BoundsAreNatural == MaxPasswords \in Nat /\ MaxEmails \in Nat

VARIABLES
    role,           \* User.role, NONE before the account exists
    status,         \* User.status
    confirmed,      \* User.isEmailConfirmed
    password,       \* User.passwordHash
    email,          \* User.email
    mustChange,     \* User.mustChangePassword
    verification,   \* the confirmation link: none, pending, or spent
    reset,          \* the password link, likewise
    emailChange,    \* the link of an address change, likewise
    challenge,      \* an administrator holds a token for the forced change
    session,        \* RefreshToken rows
    request         \* the handler each request is in the middle of

userVars == <<role, status, confirmed, password, email, mustChange>>
linkVars == <<verification, reset, emailChange, challenge>>
vars == <<userVars, linkVars, session, request>>

-----------------------------------------------------------------------------
Role == {"NONE", "STUDENT", "COMPANY_OWNER", "COMPANY_EMPLOYEE", "ADMIN"}
Status == {"PENDING", "ACTIVE", "SUSPENDED"}
Link == {"none", "pending", "spent"}
Password == 0 .. MaxPasswords
Email == 0 .. MaxEmails

\* What a request carries between two calls: the password its caller proved,
\* the address and the status of the account as it was read, the session.
Step == {"idle", "issue", "refresh", "confirm", "resend", "change", "force"}
Idle == [doing |-> "idle", proof |-> 0, email |-> 0, status |-> "PENDING",
         session |-> None]

\* A row of RefreshToken, with the password it was obtained with.
NoSession == [state |-> "none", proof |-> 0, email |-> 0]

Reads(doing) ==
    [Idle EXCEPT !.doing = doing, !.proof = password, !.email = email, !.status = status]

Starts(r, state) == request[r] = Idle /\ request' = [request EXCEPT ![r] = state]
Ends(r) == request' = [request EXCEPT ![r] = Idle]

Init ==
    \* nobody, or the administrator the database is seeded with
    /\ \/ role = "NONE" /\ status = "PENDING" /\ confirmed = FALSE /\ mustChange = FALSE
       \/ role = "ADMIN" /\ status = "ACTIVE" /\ confirmed = TRUE /\ mustChange = TRUE
    /\ password = 0
    /\ email = 0
    /\ verification = "none"
    /\ reset = "none"
    /\ emailChange = "none"
    /\ challenge = FALSE
    /\ session = [s \in Sessions |-> NoSession]
    /\ request = [r \in Requests |-> Idle]

-----------------------------------------------------------------------------
Exists == role # "NONE"
Active(s) == session[s].state = "active"

\* Faulty variant: suspension is left to the guards of the controllers.
CanAuthenticateSuspended == Exists /\ confirmed

\* ensureUserCanAuthenticate
CanAuthenticate == Exists /\ status # "SUSPENDED" /\ confirmed

\* Faulty variant: the flag is only looked at for the other roles.
ChangeRequiredOfOthers == role # "ADMIN" /\ mustChange

\* shouldRequirePasswordChange
ShouldRequirePasswordChange == role = "ADMIN" /\ mustChange

\* revokeAllActiveByUserId
RevokeAll ==
    session' = [s \in Sessions |-> IF Active(s) THEN [session[s] EXCEPT !.state = "revoked"]
                                                ELSE session[s]]

\* Signed in at some time, and not suspended: JwtAuthStrategy, of which only
\* the status is looked up.
HoldsAccessToken == status # "SUSPENDED" /\ \E s \in Sessions : session[s].state # "none"

-----------------------------------------------------------------------------
(***************************************************************************)
(* Registration and confirmation                                           *)
(***************************************************************************)

\* register and registerCompanyOwner
Register(as) ==
    /\ ~Exists
    /\ as \in {"STUDENT", "COMPANY_OWNER"}
    /\ role' = as
    /\ verification' = "pending"
    /\ UNCHANGED <<status, confirmed, password, email, mustChange, reset, emailChange,
                   challenge, session, request>>

\* registerViaInvite, of a student, and acceptOrgInvite, of an employee: the
\* invitation proves the address.
RegisterByInvitation(r) ==
    /\ ~Exists
    /\ role' \in {"STUDENT", "COMPANY_EMPLOYEE"}
    /\ status' = "ACTIVE"
    /\ confirmed' = TRUE
    /\ Starts(r, Reads("issue"))
    /\ UNCHANGED <<password, email, mustChange, linkVars, session>>

\* resendConfirmationEmail
ResendReads(r) ==
    /\ Exists
    /\ ~confirmed
    /\ Starts(r, Reads("resend"))
    /\ UNCHANGED <<userVars, linkVars, session>>

ResendWrites(r) ==
    /\ request[r].doing = "resend"
    /\ verification' = "pending"
    /\ Ends(r)
    /\ UNCHANGED <<userVars, reset, emailChange, challenge, session>>

\* confirmEmail: validateTokenOrThrow and the account.
ConfirmReads(r) ==
    /\ verification = "pending"
    /\ Starts(r, Reads("confirm"))
    /\ UNCHANGED <<userVars, linkVars, session>>

\* The transaction: the status it read is written back, and the token is
\* marked by the identifier of its row.
ConfirmWrites(r) ==
    /\ request[r].doing = "confirm"
    /\ confirmed' = TRUE
    /\ status' = IF role = "STUDENT" THEN "ACTIVE" ELSE request[r].status
    /\ verification' = "spent"
    /\ request' = [request EXCEPT ![r] = Reads("issue")]
    /\ UNCHANGED <<role, password, email, mustChange, reset, emailChange, challenge,
                   session>>

VerificationExpires ==
    /\ verification = "pending"
    /\ verification' = "spent"
    /\ UNCHANGED <<userVars, reset, emailChange, challenge, session, request>>

-----------------------------------------------------------------------------
(***************************************************************************)
(* Sessions                                                                *)
(***************************************************************************)

\* login, and adminLogin of an administrator who need not change the password.
Login(r) ==
    /\ CanAuthenticate
    /\ ~ShouldRequirePasswordChange
    /\ Starts(r, Reads("issue"))
    /\ UNCHANGED <<userVars, linkVars, session>>

\* adminLogin of one who must: a token for forceChangePassword.
AdminLoginIsChallenged ==
    /\ CanAuthenticate
    /\ ShouldRequirePasswordChange
    /\ challenge' = TRUE
    /\ UNCHANGED <<userVars, verification, reset, emailChange, session, request>>

ChallengeExpires ==
    /\ challenge
    /\ challenge' = FALSE
    /\ UNCHANGED <<userVars, verification, reset, emailChange, session, request>>

\* issueAuthTokens stores the refresh token of what the request has read.
Issue(r, s) ==
    /\ request[r].doing = "issue"
    /\ session[s].state = "none"
    /\ session' = [session EXCEPT ![s] = [state |-> "active", proof |-> request[r].proof,
                                          email |-> request[r].email]]
    /\ Ends(r)
    /\ UNCHANGED <<userVars, linkVars>>

\* Faulty variant: the stored row is not asked whether it was revoked.
RefreshableWhenKnown(s) ==
    /\ session[s].state # "none"
    /\ session[s].email = email
    /\ status # "SUSPENDED"

\* RefreshJwtStrategy.validate
Refreshable(s) ==
    /\ Active(s)
    /\ session[s].email = email
    /\ status # "SUSPENDED"

RefreshChecks(r, s) ==
    /\ Refreshable(s)
    /\ Starts(r, [Idle EXCEPT !.doing = "refresh", !.proof = session[s].proof,
                              !.session = s])
    /\ UNCHANGED <<userVars, linkVars, session>>

\* refresh: the account is read again and the token is revoked by identifier.
Refresh(r) ==
    LET s == request[r].session IN
    /\ request[r].doing = "refresh"
    /\ CanAuthenticate
    /\ session' = [session EXCEPT ![s].state = "revoked"]
    /\ request' = [request EXCEPT ![r] =
                      IF ShouldRequirePasswordChange THEN Idle
                      ELSE [Reads("issue") EXCEPT !.proof = request[r].proof]]
    /\ UNCHANGED <<userVars, linkVars>>

\* logout, behind the same strategy; or expiresAt passes.
SessionEnds(s) ==
    /\ Active(s)
    /\ session' = [session EXCEPT ![s].state = "revoked"]
    /\ UNCHANGED <<userVars, linkVars, request>>

-----------------------------------------------------------------------------
(***************************************************************************)
(* Password, address, suspension                                           *)
(***************************************************************************)
SetsPassword == password < MaxPasswords /\ password' = password + 1

\* AccountService.changePassword, once the current password is verified.
ChangeReads(r) ==
    /\ HoldsAccessToken
    /\ Starts(r, Reads("change"))
    /\ UNCHANGED <<userVars, linkVars, session>>

ChangeWrites(r) ==
    /\ request[r].doing = "change"
    /\ SetsPassword
    /\ mustChange' = FALSE
    /\ RevokeAll
    /\ Ends(r)
    /\ UNCHANGED <<role, status, confirmed, email, linkVars>>

\* forceChangePassword
ForceReads(r) ==
    /\ challenge
    /\ ShouldRequirePasswordChange
    /\ CanAuthenticate
    /\ Starts(r, Reads("force"))
    /\ UNCHANGED <<userVars, linkVars, session>>

ForceWrites(r) ==
    /\ request[r].doing = "force"
    /\ SetsPassword
    /\ mustChange' = FALSE
    /\ RevokeAll
    /\ request' = [request EXCEPT ![r] = [Reads("issue") EXCEPT !.proof = password']]
    /\ UNCHANGED <<role, status, confirmed, email, linkVars>>

\* forgotPassword
ForgotPassword ==
    /\ Exists
    /\ reset' = "pending"
    /\ UNCHANGED <<userVars, verification, emailChange, challenge, session, request>>

\* resetPassword; consumeByToken is the condition of its own update.
ResetPassword ==
    /\ reset = "pending"
    /\ reset' = "spent"
    /\ SetsPassword
    /\ confirmed' = TRUE
    /\ RevokeAll
    /\ UNCHANGED <<role, status, email, mustChange, verification, emailChange,
                   challenge, request>>

\* requestEmailChange
RequestEmailChange ==
    /\ HoldsAccessToken
    /\ emailChange' = "pending"
    /\ UNCHANGED <<userVars, verification, reset, challenge, session, request>>

\* confirmEmailChange
ConfirmEmailChange ==
    /\ HoldsAccessToken
    /\ emailChange = "pending"
    /\ email < MaxEmails
    /\ emailChange' = "spent"
    /\ email' = email + 1
    /\ confirmed' = TRUE
    /\ RevokeAll
    /\ UNCHANGED <<role, status, password, mustChange, verification, reset, challenge,
                   request>>

\* AdminUsersService.updateStatus
UpdateStatus(s) ==
    /\ Exists
    /\ s \in {"ACTIVE", "SUSPENDED"}
    /\ status' = s
    /\ IF s = "SUSPENDED" THEN RevokeAll ELSE UNCHANGED session
    /\ UNCHANGED <<role, confirmed, password, email, mustChange, linkVars, request>>

\* A check or the database refuses, or the server stops.
Aborts(r) ==
    /\ request[r] # Idle
    /\ Ends(r)
    /\ UNCHANGED <<userVars, linkVars, session>>

-----------------------------------------------------------------------------
Starting(r) ==
    \/ RegisterByInvitation(r) \/ ResendReads(r) \/ ConfirmReads(r) \/ Login(r)
    \/ ChangeReads(r) \/ ForceReads(r)
    \/ \E s \in Sessions : RefreshChecks(r, s)

Continuing(r) ==
    \/ ResendWrites(r) \/ ConfirmWrites(r) \/ Refresh(r) \/ ChangeWrites(r)
    \/ ForceWrites(r) \/ Aborts(r)
    \/ \E s \in Sessions : Issue(r, s)

AtOnce ==
    \/ \E as \in {"STUDENT", "COMPANY_OWNER"} : Register(as)
    \/ \E s \in {"ACTIVE", "SUSPENDED"} : UpdateStatus(s)
    \/ \E s \in Sessions : SessionEnds(s)
    \/ VerificationExpires \/ AdminLoginIsChallenged \/ ChallengeExpires
    \/ ForgotPassword \/ ResetPassword \/ RequestEmailChange \/ ConfirmEmailChange

Next == AtOnce \/ \E r \in Requests : Starting(r) \/ Continuing(r)

Spec == Init /\ [][Next]_vars

-----------------------------------------------------------------------------
(***************************************************************************)
(* Properties                                                              *)
(***************************************************************************)

\* The values the variables take.
TypeOK ==
    /\ role \in Role
    /\ status \in Status
    /\ confirmed \in BOOLEAN
    /\ password \in Password
    /\ email \in Email
    /\ mustChange \in BOOLEAN
    /\ {verification, reset, emailChange} \subseteq Link
    /\ challenge \in BOOLEAN
    /\ session \in [Sessions -> [state : {"none", "active", "revoked"},
                                 proof : Password, email : Email]]
    /\ request \in [Requests -> [doing : Step, proof : Password, email : Email,
                                 status : Status, session : Sessions \cup {None}]]

\* Whoever is signed in has proved an address and, as an administrator, has
\* replaced the password the account was seeded with, whichever of the ways
\* to a session was taken.
SessionsAreEntitled ==
    \A s \in Sessions : Active(s) => confirmed /\ ~(role = "ADMIN" /\ mustChange)

\* Those who hold or are about to get a session they owe to an old password.
StaleSessions == {s \in Sessions : Active(s) /\ session[s].proof # password}
StaleRequests ==
    {r \in Requests : request[r].doing \in {"issue", "refresh"}
                      /\ request[r].proof # password}

\* "Password changed successfully. All active refresh sessions were revoked."
\* A change of the password leaves no session of the old one but to the
\* requests in flight; without those the old one never opens a session again.
OldPasswordFades ==
    [][/\ password' # password => StaleSessions' = {}
       /\ password' = password /\ StaleSessions = {} /\ StaleRequests = {}
             => StaleSessions' = {} /\ StaleRequests' = {}]_vars

\* Whatever could still turn into a session of the account.
NobodyComing ==
    /\ verification # "pending"
    /\ \A s \in Sessions : ~Active(s)
    /\ \A r \in Requests : request[r].doing \in {"idle", "change"}

\* A suspended account whose address was confirmed stays shut: once requests
\* and a confirmation link under way are gone, no sequence of logins,
\* refreshes, resets and forced changes opens a session before it is reinstated.
SuspensionShutsOut ==
    [][status = "SUSPENDED" /\ confirmed /\ NobodyComing => NobodyComing']_vars

=============================================================================
