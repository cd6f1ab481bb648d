---------------------------- MODULE AccountAddresses ----------------------------
(***************************************************************************)
(* The addresses of accounts: the one that identifies a user, the one that *)
(* makes him a student of a university, the links that prove them, and the *)
(* list of university domains (AuthService, AccountService,                *)
(* StudentEmailService, UniversityEmailDomainService, token services).     *)
(*                                                                         *)
(* Confirmations and the list of domains are read outside the transactions *)
(* that depend on them, so those handlers are a reading and a writing step.*)
(* The unique columns of User are guards of the writes.                    *)
(*                                                                         *)
(* Every kind of link has one row for each user, which a new link of that  *)
(* kind overwrites, so only the newest works.  It is modelled by the       *)
(* address it was mailed to, and by None once it was used or has expired.  *)
(* A link is presented by whoever reads that mailbox.                      *)
(***************************************************************************)
EXTENDS Naturals

CONSTANTS
    Users,      \* accounts
    Addresses,  \* e-mail addresses
    Academic,   \* those of the one university whose domain is modelled
    Requests,   \* HTTP requests that can be in flight at the same time
    None        \* the SQL null

ASSUME AcademicAddresses == Academic \subseteq Addresses
ASSUME NoneIsNothing == None \notin Users \cup Addresses

VARIABLES
    email,              \* User.email, null before the account exists
    confirmed,          \* User.isEmailConfirmed
    studentEmail,       \* User.studentEmail
    studentConfirmed,   \* User.isStudentEmailConfirmed
    verification,       \* EmailVerificationToken of a user
    reset,              \* PasswordResetToken
    emailChange,        \* EmailChangeToken
    studentLink,        \* StudentEmailVerificationToken
    domain,             \* UniversityEmailDomain.status, NONE without a row
    request,            \* the handler each request is in the middle of
    proven              \* addresses from which a link of the user was presented

userVars == <<email, confirmed, studentEmail, studentConfirmed>>
linkVars == <<verification, reset, emailChange, studentLink>>
vars == <<userVars, linkVars, domain, request, proven>>

-----------------------------------------------------------------------------
\* A handler between reading and writing, with its user and address.
Step == {"idle", "resend", "confirm", "set", "studentResend", "studentConfirm", "domain"}
Idle == [doing |-> "idle", user |-> None, address |-> None, academic |-> FALSE]

Starts(r, doing, u, a) ==
    /\ request[r] = Idle
    /\ request' = [request EXCEPT ![r] = [Idle EXCEPT !.doing = doing, !.user = u,
                                                      !.address = a]]

Ends(r) == request' = [request EXCEPT ![r] = Idle]

Init ==
    /\ email = [u \in Users |-> None]
    /\ confirmed = [u \in Users |-> FALSE]
    /\ studentEmail = [u \in Users |-> None]
    /\ studentConfirmed = [u \in Users |-> FALSE]
    /\ verification = [u \in Users |-> None]
    /\ reset = [u \in Users |-> None]
    /\ emailChange = [u \in Users |-> None]
    /\ studentLink = [u \in Users |-> None]
    /\ domain = "NONE"
    /\ request = [r \in Requests |-> Idle]
    /\ proven = [u \in Users |-> {}]

Exists(u) == email[u] # None

\* User.email and User.studentEmail are unique.
EmailFree(u, a) == \A v \in Users \ {u} : email[v] # a
StudentEmailFree(u, a) == \A v \in Users \ {u} : studentEmail[v] # a

Proves(u, a) == proven' = [proven EXCEPT ![u] = @ \cup {a}]

\* Faulty variant: any domain will do.
AnyDomain(a) == domain # "REJECTED"

\* isApprovedDomain
ApprovedDomain(a) == a \in Academic /\ domain = "APPROVED"

-----------------------------------------------------------------------------
(***************************************************************************)
(* The address of the account                                              *)
(***************************************************************************)

\* registerWithEmailVerification
Register(u, a) ==
    /\ ~Exists(u)
    /\ EmailFree(u, a)
    /\ email' = [email EXCEPT ![u] = a]
    /\ verification' = [verification EXCEPT ![u] = a]
    /\ UNCHANGED <<confirmed, studentEmail, studentConfirmed, reset, emailChange,
                   studentLink, domain, request, proven>>

\* resendConfirmationEmail, to the address it read
ResendReads(r, u) ==
    /\ Exists(u)
    /\ ~confirmed[u]
    /\ Starts(r, "resend", u, email[u])
    /\ UNCHANGED <<userVars, linkVars, domain, proven>>

ResendWrites(r) ==
    /\ request[r].doing = "resend"
    /\ verification' = [verification EXCEPT ![request[r].user] = request[r].address]
    /\ Ends(r)
    /\ UNCHANGED <<userVars, reset, emailChange, studentLink, domain, proven>>

\* confirmEmail: the link, the account, and whether its domain is approved.
ConfirmReads(r, u) ==
    /\ verification[u] # None
    /\ request[r] = Idle
    /\ request' = [request EXCEPT ![r] =
                      [doing |-> "confirm", user |-> u, address |-> email[u],
                       academic |-> ApprovedDomain(email[u])]]
    /\ Proves(u, verification[u])
    /\ UNCHANGED <<userVars, linkVars, domain>>

\* An approved address becomes the student's address as well.
ConfirmWrites(r) ==
    LET u == request[r].user
        a == request[r].address IN
    /\ request[r].doing = "confirm"
    /\ confirmed' = [confirmed EXCEPT ![u] = TRUE]
    /\ IF request[r].academic
       THEN /\ StudentEmailFree(u, a)
            /\ studentEmail' = [studentEmail EXCEPT ![u] = a]
            /\ studentConfirmed' = [studentConfirmed EXCEPT ![u] = TRUE]
       ELSE UNCHANGED <<studentEmail, studentConfirmed>>
    /\ verification' = [verification EXCEPT ![u] = None]
    /\ Ends(r)
    /\ UNCHANGED <<email, reset, emailChange, studentLink, domain, proven>>

\* forgotPassword and resetPassword
ForgotPassword(u) ==
    /\ Exists(u)
    /\ reset' = [reset EXCEPT ![u] = email[u]]
    /\ UNCHANGED <<userVars, verification, emailChange, studentLink, domain, request,
                   proven>>

ResetPassword(u) ==
    /\ reset[u] # None
    /\ reset' = [reset EXCEPT ![u] = None]
    /\ confirmed' = [confirmed EXCEPT ![u] = TRUE]
    /\ Proves(u, reset[u])
    /\ UNCHANGED <<email, studentEmail, studentConfirmed, verification, emailChange,
                   studentLink, domain, request>>

\* requestEmailChange
RequestEmailChange(u, a) ==
    /\ confirmed[u]
    /\ a # email[u]
    /\ EmailFree(u, a)
    /\ emailChange' = [emailChange EXCEPT ![u] = a]
    /\ UNCHANGED <<userVars, verification, reset, studentLink, domain, request, proven>>

\* confirmEmailChange
ConfirmEmailChange(u) ==
    LET a == emailChange[u] IN
    /\ emailChange[u] # None
    /\ EmailFree(u, a)
    /\ emailChange' = [emailChange EXCEPT ![u] = None]
    /\ email' = [email EXCEPT ![u] = a]
    /\ confirmed' = [confirmed EXCEPT ![u] = TRUE]
    /\ Proves(u, a)
    /\ UNCHANGED <<studentEmail, studentConfirmed, verification, reset, studentLink,
                   domain, request>>

-----------------------------------------------------------------------------
(***************************************************************************)
(* The address of the student                                              *)
(***************************************************************************)

\* setStudentEmail
SetReads(r, u, a) ==
    /\ confirmed[u]
    /\ ApprovedDomain(a)
    /\ Starts(r, "set", u, a)
    /\ UNCHANGED <<userVars, linkVars, domain, proven>>

SetWrites(r) ==
    LET u == request[r].user
        a == request[r].address IN
    /\ request[r].doing = "set"
    /\ StudentEmailFree(u, a)
    /\ studentEmail' = [studentEmail EXCEPT ![u] = a]
    /\ studentConfirmed' = [studentConfirmed EXCEPT ![u] = FALSE]
    /\ studentLink' = [studentLink EXCEPT ![u] = a]
    /\ Ends(r)
    /\ UNCHANGED <<email, confirmed, verification, reset, emailChange, domain, proven>>

\* StudentEmailService.resend
StudentResendReads(r, u) ==
    /\ studentEmail[u] # None
    /\ ~studentConfirmed[u]
    /\ Starts(r, "studentResend", u, studentEmail[u])
    /\ UNCHANGED <<userVars, linkVars, domain, proven>>

StudentResendWrites(r) ==
    /\ request[r].doing = "studentResend"
    /\ studentLink' = [studentLink EXCEPT ![request[r].user] = request[r].address]
    /\ Ends(r)
    /\ UNCHANGED <<userVars, verification, reset, emailChange, domain, proven>>

\* StudentEmailService.confirm: the link, and the address it was made for.
StudentConfirmReads(r, u) ==
    /\ studentLink[u] # None
    /\ Starts(r, "studentConfirm", u, studentLink[u])
    /\ Proves(u, studentLink[u])
    /\ UNCHANGED <<userVars, linkVars, domain>>

\* Faulty variant: the address is taken to be the one on record.
StudentConfirmFlagOnly(r) ==
    LET u == request[r].user IN
    /\ request[r].doing = "studentConfirm"
    /\ studentConfirmed' = [studentConfirmed EXCEPT ![u] = TRUE]
    /\ studentLink' = [studentLink EXCEPT ![u] = None]
    /\ Ends(r)
    /\ UNCHANGED <<email, confirmed, studentEmail, verification, reset, emailChange,
                   domain, proven>>

\* That address is written with the flag; the row is marked by identifier.
StudentConfirmWrites(r) ==
    LET u == request[r].user
        a == request[r].address IN
    /\ request[r].doing = "studentConfirm"
    /\ StudentEmailFree(u, a)
    /\ studentEmail' = [studentEmail EXCEPT ![u] = a]
    /\ studentConfirmed' = [studentConfirmed EXCEPT ![u] = TRUE]
    /\ studentLink' = [studentLink EXCEPT ![u] = None]
    /\ Ends(r)
    /\ UNCHANGED <<email, confirmed, verification, reset, emailChange, domain, proven>>

-----------------------------------------------------------------------------
(***************************************************************************)
(* University domains                                                      *)
(***************************************************************************)

\* requestDomain finds no record, or a rejected one.
RequestDomainReads(r, u) ==
    /\ confirmed[u]
    /\ domain \in {"NONE", "REJECTED"}
    /\ Starts(r, "domain", u, None)
    /\ UNCHANGED <<userVars, linkVars, domain, proven>>

\* The upsert writes PENDING over whatever is there.
RequestDomainWrites(r) ==
    /\ request[r].doing = "domain"
    /\ domain' = "PENDING"
    /\ Ends(r)
    /\ UNCHANGED <<userVars, linkVars, proven>>

\* createApproved; approve and reject of an existing row; remove.
AdminSetsDomain(s) ==
    /\ \/ domain = "NONE" /\ s = "APPROVED"
       \/ domain # "NONE" /\ s \in {"APPROVED", "REJECTED", "NONE"}
    /\ domain' = s
    /\ UNCHANGED <<userVars, linkVars, request, proven>>

\* A check, a unique column or the database refuses the write.
Aborts(r) ==
    /\ request[r] # Idle
    /\ Ends(r)
    /\ UNCHANGED <<userVars, linkVars, domain, proven>>

\* expiresAt of the link to the student's address passes.
StudentLinkExpires(u) ==
    /\ studentLink[u] # None
    /\ studentLink' = [studentLink EXCEPT ![u] = None]
    /\ UNCHANGED <<userVars, verification, reset, emailChange, domain, request, proven>>

-----------------------------------------------------------------------------
AccountNext(u) ==
    \/ ForgotPassword(u) \/ ResetPassword(u) \/ ConfirmEmailChange(u) \/ StudentLinkExpires(u)
    \/ \E a \in Addresses : Register(u, a) \/ RequestEmailChange(u, a)

Starting(r, u) ==
    \/ ResendReads(r, u) \/ ConfirmReads(r, u) \/ StudentResendReads(r, u)
    \/ StudentConfirmReads(r, u) \/ RequestDomainReads(r, u)
    \/ \E a \in Addresses : SetReads(r, u, a)

Continuing(r) ==
    \/ ResendWrites(r) \/ ConfirmWrites(r) \/ SetWrites(r) \/ StudentResendWrites(r)
    \/ StudentConfirmWrites(r) \/ RequestDomainWrites(r) \/ Aborts(r)

Next ==
    \/ \E u \in Users : AccountNext(u)
    \/ \E r \in Requests : Continuing(r) \/ \E u \in Users : Starting(r, u)
    \/ \E s \in {"APPROVED", "REJECTED", "NONE"} : AdminSetsDomain(s)

Spec == Init /\ [][Next]_vars

-----------------------------------------------------------------------------
(***************************************************************************)
(* Properties                                                              *)
(***************************************************************************)
\* The values the variables take.
TypeOK ==
    /\ email \in [Users -> Addresses \cup {None}]
    /\ studentEmail \in [Users -> Addresses \cup {None}]
    /\ verification \in [Users -> Addresses \cup {None}]
    /\ reset \in [Users -> Addresses \cup {None}]
    /\ emailChange \in [Users -> Addresses \cup {None}]
    /\ studentLink \in [Users -> Addresses \cup {None}]
    /\ confirmed \in [Users -> BOOLEAN]
    /\ studentConfirmed \in [Users -> BOOLEAN]
    /\ domain \in {"NONE", "PENDING", "APPROVED", "REJECTED"}
    /\ request \in [Requests -> [doing : Step, user : Users \cup {None},
                                 address : Addresses \cup {None}, academic : BOOLEAN]]
    /\ proven \in [Users -> SUBSET Addresses]

\* A confirmed address, of the account or of the student, is one whose
\* mailbox presented a link of that user, however changes of address, new
\* links and confirmations of older ones cross.
ConfirmedIsProven ==
    \A u \in Users :
        /\ confirmed[u] => email[u] \in proven[u]
        /\ studentConfirmed[u] => studentEmail[u] \in proven[u]

\* The address of a student belongs to a university, on each of the three
\* ways to get one, whatever became of the domain meanwhile.
StudentsAreAcademic ==
    \A u \in Users : studentEmail[u] # None => studentEmail[u] \in Academic

=============================================================================
