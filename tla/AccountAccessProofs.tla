-------------------------- MODULE AccountAccessProofs --------------------------
(***************************************************************************)
(* Proofs about the access to an account, for any number of sessions and   *)
(* requests in flight and any number of changes of password and address.   *)
(***************************************************************************)
EXTENDS AccountAccess, TLAPS

USE NoneIsNoSession, BoundsAreNatural DEF Exists, Active, Reads, Starts, Ends, Idle

-----------------------------------------------------------------------------
\* Nothing happens to an account before somebody registers it.
NothingBeforeRegistration ==
    role = "NONE" =>
        /\ ~confirmed
        /\ ~mustChange
        /\ verification # "pending"
        /\ reset # "pending"
        /\ \A s \in Sessions : session[s].state = "none"
        /\ \A r \in Requests : request[r].doing = "idle"

\* The seeded administrator is confirmed and is never sent a confirmation.
AdministratorsAreSeeded ==
    /\ mustChange => role = "ADMIN"
    /\ role = "ADMIN" =>
          /\ confirmed
          /\ verification # "pending"
          /\ \A r \in Requests : request[r].doing \notin {"resend", "confirm"}

\* What the next step of a request relies on.
RequestsAreEntitled ==
    \A r \in Requests :
        /\ request[r].doing = "issue" => confirmed /\ ~(role = "ADMIN" /\ mustChange)
        /\ request[r].doing = "force" => confirmed
        /\ request[r].doing = "refresh" => request[r].session \in Sessions

IInv ==
    /\ TypeOK
    /\ NothingBeforeRegistration
    /\ AdministratorsAreSeeded
    /\ RequestsAreEntitled
    /\ SessionsAreEntitled

\* Nobody, or the seeded administrator; no session, no request.
LEMMA InitHolds == Init => IInv
<1> SUFFICES ASSUME Init PROVE IInv
  OBVIOUS
<1>1. TypeOK
  <2>1. role \in Role /\ status \in Status
    BY DEF Init, Role, Status
  <2>2. confirmed \in BOOLEAN /\ mustChange \in BOOLEAN /\ challenge \in BOOLEAN
    BY Zenon DEF Init
  <2>3. password \in Password /\ email \in Email
    BY DEF Init, Password, Email
  <2>4. {verification, reset, emailChange} \subseteq Link
    BY DEF Init, Link
  <2>5. session \in [Sessions -> [state : {"none", "active", "revoked"},
                                 proof : Password, email : Email]]
    BY DEF Init, NoSession, Password, Email
  <2>6. request \in [Requests -> [doing : Step, proof : Password, email : Email,
                                 status : Status, session : Sessions \cup {None}]]
    BY DEF Init, Step, Password, Email, Status
  <2> QED
    BY <2>1, <2>2, <2>3, <2>4, <2>5, <2>6 DEF TypeOK
<1>2. NothingBeforeRegistration /\ RequestsAreEntitled /\ SessionsAreEntitled
  BY DEF Init, NothingBeforeRegistration, RequestsAreEntitled, SessionsAreEntitled,
         NoSession
<1>3. AdministratorsAreSeeded
  BY DEF Init, AdministratorsAreSeeded
<1> QED
  BY <1>1, <1>2, <1>3 DEF IInv

-----------------------------------------------------------------------------
\* No step stores a value of another type.
LEMMA TypeStep == ASSUME IInv, [Next]_vars PROVE TypeOK'
<1> USE DEF IInv, TypeOK, userVars, linkVars, Role, Status, Link, Password, Email, Step
<1>1. ASSUME AtOnce PROVE TypeOK'
  <2>1. ASSUME NEW as \in {"STUDENT", "COMPANY_OWNER"}, Register(as) PROVE TypeOK'
    BY <2>1 DEF Register
  <2>2. ASSUME NEW s \in {"ACTIVE", "SUSPENDED"}, UpdateStatus(s) PROVE TypeOK'
    BY <2>2 DEF UpdateStatus, RevokeAll
  <2>3. ASSUME NEW s \in Sessions, SessionEnds(s) PROVE TypeOK'
    BY <2>3 DEF SessionEnds
  <2>4. ASSUME VerificationExpires PROVE TypeOK'
    BY <2>4 DEF VerificationExpires
  <2>5. ASSUME AdminLoginIsChallenged PROVE TypeOK'
    BY <2>5 DEF AdminLoginIsChallenged
  <2>6. ASSUME ChallengeExpires PROVE TypeOK'
    BY <2>6 DEF ChallengeExpires
  <2>7. ASSUME ForgotPassword PROVE TypeOK'
    BY <2>7 DEF ForgotPassword
  <2>8. ASSUME ResetPassword PROVE TypeOK'
    BY <2>8 DEF ResetPassword, RevokeAll, SetsPassword
  <2>9. ASSUME RequestEmailChange PROVE TypeOK'
    BY <2>9 DEF RequestEmailChange
  <2>10. ASSUME ConfirmEmailChange PROVE TypeOK'
    BY <2>10 DEF ConfirmEmailChange, RevokeAll
  <2> QED
    BY <1>1, <2>1, <2>2, <2>3, <2>4, <2>5, <2>6, <2>7, <2>8, <2>9, <2>10,
       Zenon DEF AtOnce
<1>2. ASSUME NEW r \in Requests, Starting(r) PROVE TypeOK'
  <2>1. ASSUME RegisterByInvitation(r) PROVE TypeOK'
    BY <2>1 DEF RegisterByInvitation
  <2>2. ASSUME ResendReads(r) PROVE TypeOK'
    BY <2>2 DEF ResendReads
  <2>3. ASSUME ConfirmReads(r) PROVE TypeOK'
    BY <2>3 DEF ConfirmReads
  <2>4. ASSUME Login(r) PROVE TypeOK'
    BY <2>4 DEF Login
  <2>5. ASSUME ChangeReads(r) PROVE TypeOK'
    BY <2>5 DEF ChangeReads
  <2>6. ASSUME ForceReads(r) PROVE TypeOK'
    BY <2>6 DEF ForceReads
  <2>7. ASSUME NEW s \in Sessions, RefreshChecks(r, s) PROVE TypeOK'
    BY <2>7 DEF RefreshChecks, Refreshable
  <2> QED
    BY <1>2, <2>1, <2>2, <2>3, <2>4, <2>5, <2>6, <2>7, Zenon DEF Starting
<1>3. ASSUME NEW r \in Requests, Continuing(r) PROVE TypeOK'
  <2>1. ASSUME ResendWrites(r) PROVE TypeOK'
    BY <2>1 DEF ResendWrites
  <2>2. ASSUME ConfirmWrites(r) PROVE TypeOK'
    BY <2>2 DEF ConfirmWrites, AdministratorsAreSeeded
  <2>3. ASSUME Refresh(r) PROVE TypeOK'
    <3> DEFINE s == request[r].session
    <3>1. s \in Sessions
      BY <2>3 DEF Refresh, RequestsAreEntitled
    <3>2. session' \in [Sessions -> [state : {"none", "active", "revoked"},
                                     proof : Password, email : Email]]
      BY <2>3, <3>1 DEF Refresh
    <3>3. request' \in [Requests -> [doing : Step, proof : Password, email : Email,
                                     status : Status, session : Sessions \cup {None}]]
      <4>1. CASE ShouldRequirePasswordChange
        BY <2>3, <4>1 DEF Refresh
      <4>2. CASE ~ShouldRequirePasswordChange
        BY <2>3, <4>2 DEF Refresh
      <4> QED
        BY <4>1, <4>2
    <3> QED
      BY <2>3, <3>2, <3>3 DEF Refresh
  <2>4. ASSUME ChangeWrites(r) PROVE TypeOK'
    <3>1. password' \in Password /\ request' \in [Requests -> [doing : Step,
             proof : Password, email : Email, status : Status,
             session : Sessions \cup {None}]]
      BY <2>4 DEF ChangeWrites, SetsPassword
    <3>2. session' \in [Sessions -> [state : {"none", "active", "revoked"},
                                     proof : Password, email : Email]]
      BY <2>4 DEF ChangeWrites, RevokeAll
    <3> QED
      BY <2>4, <3>1, <3>2 DEF ChangeWrites
  <2>5. ASSUME ForceWrites(r) PROVE TypeOK'
    <3>1. password' \in Password
      BY <2>5 DEF ForceWrites, SetsPassword
    <3>2. session' \in [Sessions -> [state : {"none", "active", "revoked"},
                                     proof : Password, email : Email]]
      BY <2>5 DEF ForceWrites, RevokeAll
    <3>3. request' \in [Requests -> [doing : Step, proof : Password, email : Email,
                                     status : Status, session : Sessions \cup {None}]]
      BY <2>5, <3>1 DEF ForceWrites
    <3> QED
      BY <2>5, <3>1, <3>2, <3>3 DEF ForceWrites
  <2>6. ASSUME Aborts(r) PROVE TypeOK'
    BY <2>6 DEF Aborts
  <2>7. ASSUME NEW s \in Sessions, Issue(r, s) PROVE TypeOK'
    BY <2>7 DEF Issue, RequestsAreEntitled
  <2> QED
    BY <1>3, <2>1, <2>2, <2>3, <2>4, <2>5, <2>6, <2>7, Zenon DEF Continuing
<1>4. ASSUME UNCHANGED vars PROVE TypeOK'
  BY <1>4 DEF vars
<1> QED
  BY <1>1, <1>2, <1>3, <1>4, Zenon DEF Next

\* An account that nobody registered stays untouched, and no handler sends the
\* administrator a confirmation.
LEMMA RegistrationStep ==
    ASSUME IInv, [Next]_vars
    PROVE  NothingBeforeRegistration' /\ AdministratorsAreSeeded'
<1> DEFINE Goal == NothingBeforeRegistration' /\ AdministratorsAreSeeded'
<1> USE DEF IInv, TypeOK, userVars, linkVars, Role, NothingBeforeRegistration,
            AdministratorsAreSeeded
<1>1. ASSUME AtOnce PROVE Goal
  <2>1. ASSUME NEW as \in {"STUDENT", "COMPANY_OWNER"}, Register(as) PROVE Goal
    BY <2>1 DEF Register
  <2>2. ASSUME NEW s \in {"ACTIVE", "SUSPENDED"}, UpdateStatus(s) PROVE Goal
    BY <2>2 DEF UpdateStatus, RevokeAll
  <2>3. ASSUME NEW s \in Sessions, SessionEnds(s) PROVE Goal
    BY <2>3 DEF SessionEnds
  <2>4. ASSUME VerificationExpires PROVE Goal
    BY <2>4 DEF VerificationExpires
  <2>5. ASSUME AdminLoginIsChallenged PROVE Goal
    BY <2>5 DEF AdminLoginIsChallenged, CanAuthenticate, ShouldRequirePasswordChange
  <2>6. ASSUME ChallengeExpires PROVE Goal
    BY <2>6 DEF ChallengeExpires
  <2>7. ASSUME ForgotPassword PROVE Goal
    BY <2>7 DEF ForgotPassword
  <2>8. ASSUME ResetPassword PROVE Goal
    BY <2>8 DEF ResetPassword, RevokeAll, SetsPassword
  <2>9. ASSUME RequestEmailChange PROVE Goal
    BY <2>9 DEF RequestEmailChange, HoldsAccessToken
  <2>10. ASSUME ConfirmEmailChange PROVE Goal
    BY <2>10 DEF ConfirmEmailChange, RevokeAll, HoldsAccessToken
  <2> QED
    BY <1>1, <2>1, <2>2, <2>3, <2>4, <2>5, <2>6, <2>7, <2>8, <2>9, <2>10,
       Zenon DEF AtOnce
<1>2. ASSUME NEW r \in Requests, Starting(r) PROVE Goal
  <2>1. ASSUME RegisterByInvitation(r) PROVE Goal
    BY <2>1 DEF RegisterByInvitation
  <2>2. ASSUME ResendReads(r) PROVE Goal
    BY <2>2 DEF ResendReads
  <2>3. ASSUME ConfirmReads(r) PROVE Goal
    BY <2>3 DEF ConfirmReads
  <2>4. ASSUME Login(r) PROVE Goal
    BY <2>4 DEF Login, CanAuthenticate, ShouldRequirePasswordChange
  <2>5. ASSUME ChangeReads(r) PROVE Goal
    BY <2>5 DEF ChangeReads, HoldsAccessToken
  <2>6. ASSUME ForceReads(r) PROVE Goal
    BY <2>6 DEF ForceReads, CanAuthenticate, ShouldRequirePasswordChange
  <2>7. ASSUME NEW s \in Sessions, RefreshChecks(r, s) PROVE Goal
    BY <2>7 DEF RefreshChecks, Refreshable
  <2> QED
    BY <1>2, <2>1, <2>2, <2>3, <2>4, <2>5, <2>6, <2>7, Zenon DEF Starting
<1>3. ASSUME NEW r \in Requests, Continuing(r) PROVE Goal
  <2>1. ASSUME ResendWrites(r) PROVE Goal
    BY <2>1 DEF ResendWrites
  <2>2. ASSUME ConfirmWrites(r) PROVE Goal
    BY <2>2 DEF ConfirmWrites
  <2>3. ASSUME Refresh(r) PROVE Goal
    BY <2>3 DEF Refresh, CanAuthenticate, ShouldRequirePasswordChange
  <2>4. ASSUME ChangeWrites(r) PROVE Goal
    BY <2>4 DEF ChangeWrites, RevokeAll, SetsPassword
  <2>5. ASSUME ForceWrites(r) PROVE Goal
    BY <2>5 DEF ForceWrites, RevokeAll, SetsPassword
  <2>6. ASSUME Aborts(r) PROVE Goal
    BY <2>6 DEF Aborts
  <2>7. ASSUME NEW s \in Sessions, Issue(r, s) PROVE Goal
    BY <2>7 DEF Issue
  <2> QED
    BY <1>3, <2>1, <2>2, <2>3, <2>4, <2>5, <2>6, <2>7, Zenon DEF Continuing
<1>4. ASSUME UNCHANGED vars PROVE Goal
  BY <1>4 DEF vars
<1> QED
  BY <1>1, <1>2, <1>3, <1>4, Zenon DEF Next

\* A session is opened by a request that is entitled to it, and a request becomes
\* entitled by what it has read: nothing takes a confirmation back, and nothing
\* asks an administrator for a change of the password a second time.
LEMMA EntitlementStep ==
    ASSUME IInv, [Next]_vars
    PROVE  RequestsAreEntitled' /\ SessionsAreEntitled'
<1> DEFINE Goal == RequestsAreEntitled' /\ SessionsAreEntitled'
<1> USE DEF IInv, TypeOK, userVars, linkVars, Role, NothingBeforeRegistration,
            AdministratorsAreSeeded, RequestsAreEntitled, SessionsAreEntitled
<1>1. ASSUME AtOnce PROVE Goal
  <2>1. ASSUME NEW as \in {"STUDENT", "COMPANY_OWNER"}, Register(as) PROVE Goal
    BY <2>1 DEF Register
  <2>2. ASSUME NEW s \in {"ACTIVE", "SUSPENDED"}, UpdateStatus(s) PROVE Goal
    BY <2>2 DEF UpdateStatus, RevokeAll
  <2>3. ASSUME NEW s \in Sessions, SessionEnds(s) PROVE Goal
    BY <2>3 DEF SessionEnds
  <2>4. ASSUME VerificationExpires PROVE Goal
    BY <2>4 DEF VerificationExpires
  <2>5. ASSUME AdminLoginIsChallenged PROVE Goal
    BY <2>5 DEF AdminLoginIsChallenged, CanAuthenticate, ShouldRequirePasswordChange
  <2>6. ASSUME ChallengeExpires PROVE Goal
    BY <2>6 DEF ChallengeExpires
  <2>7. ASSUME ForgotPassword PROVE Goal
    BY <2>7 DEF ForgotPassword
  <2>8. ASSUME ResetPassword PROVE Goal
    BY <2>8 DEF ResetPassword, RevokeAll, SetsPassword
  <2>9. ASSUME RequestEmailChange PROVE Goal
    BY <2>9 DEF RequestEmailChange, HoldsAccessToken
  <2>10. ASSUME ConfirmEmailChange PROVE Goal
    BY <2>10 DEF ConfirmEmailChange, RevokeAll, HoldsAccessToken
  <2> QED
    BY <1>1, <2>1, <2>2, <2>3, <2>4, <2>5, <2>6, <2>7, <2>8, <2>9, <2>10,
       Zenon DEF AtOnce
<1>2. ASSUME NEW r \in Requests, Starting(r) PROVE Goal
  <2>1. ASSUME RegisterByInvitation(r) PROVE Goal
    BY <2>1 DEF RegisterByInvitation
  <2>2. ASSUME ResendReads(r) PROVE Goal
    BY <2>2 DEF ResendReads
  <2>3. ASSUME ConfirmReads(r) PROVE Goal
    BY <2>3 DEF ConfirmReads
  <2>4. ASSUME Login(r) PROVE Goal
    BY <2>4 DEF Login, CanAuthenticate, ShouldRequirePasswordChange
  <2>5. ASSUME ChangeReads(r) PROVE Goal
    BY <2>5 DEF ChangeReads, HoldsAccessToken
  <2>6. ASSUME ForceReads(r) PROVE Goal
    BY <2>6 DEF ForceReads, CanAuthenticate, ShouldRequirePasswordChange
  <2>7. ASSUME NEW s \in Sessions, RefreshChecks(r, s) PROVE Goal
    BY <2>7 DEF RefreshChecks, Refreshable
  <2> QED
    BY <1>2, <2>1, <2>2, <2>3, <2>4, <2>5, <2>6, <2>7, Zenon DEF Starting
<1>3. ASSUME NEW r \in Requests, Continuing(r) PROVE Goal
  <2>1. ASSUME ResendWrites(r) PROVE Goal
    BY <2>1 DEF ResendWrites
  <2>2. ASSUME ConfirmWrites(r) PROVE Goal
    BY <2>2 DEF ConfirmWrites
  <2>3. ASSUME Refresh(r) PROVE Goal
    BY <2>3 DEF Refresh, CanAuthenticate, ShouldRequirePasswordChange
  <2>4. ASSUME ChangeWrites(r) PROVE Goal
    BY <2>4 DEF ChangeWrites, RevokeAll, SetsPassword
  <2>5. ASSUME ForceWrites(r) PROVE Goal
    BY <2>5 DEF ForceWrites, RevokeAll, SetsPassword
  <2>6. ASSUME Aborts(r) PROVE Goal
    BY <2>6 DEF Aborts
  <2>7. ASSUME NEW s \in Sessions, Issue(r, s) PROVE Goal
    BY <2>7 DEF Issue
  <2> QED
    BY <1>3, <2>1, <2>2, <2>3, <2>4, <2>5, <2>6, <2>7, Zenon DEF Continuing
<1>4. ASSUME UNCHANGED vars PROVE Goal
  BY <1>4 DEF vars
<1> QED
  BY <1>1, <1>2, <1>3, <1>4, Zenon DEF Next

\* The inductive invariant.
LEMMA IInvHolds == Spec => []IInv
<1>1. IInv /\ [Next]_vars => IInv'
  BY TypeStep, RegistrationStep, EntitlementStep, Zenon DEF IInv
<1> QED
  BY InitHolds, <1>1, PTL DEF Spec

\* The columns keep their types.
THEOREM TypesHold == Spec => []TypeOK
<1>1. IInv => TypeOK
  BY DEF IInv
<1> QED
  BY IInvHolds, <1>1, PTL

\* Whoever is signed in is confirmed and has replaced a seeded password.
THEOREM OnlyEntitledSessions == Spec => []SessionsAreEntitled
<1>1. IInv => SessionsAreEntitled
  BY DEF IInv
<1> QED
  BY IInvHolds, <1>1, PTL

-----------------------------------------------------------------------------
\* A change of the password revokes every session; while it stays the same a
\* session or request inherits the password of a request or of a session.
LEMMA FadesStep ==
    ASSUME IInv, [Next]_vars
    PROVE  /\ password' # password => StaleSessions' = {}
           /\ password' = password /\ StaleSessions = {} /\ StaleRequests = {}
                 => StaleSessions' = {} /\ StaleRequests' = {}
<1> DEFINE Goal ==
      /\ password' # password => StaleSessions' = {}
      /\ password' = password /\ StaleSessions = {} /\ StaleRequests = {}
            => StaleSessions' = {} /\ StaleRequests' = {}
<1> USE DEF IInv, TypeOK, userVars, linkVars, StaleSessions, StaleRequests
<1>1. ASSUME AtOnce PROVE Goal
  <2>1. ASSUME NEW as \in {"STUDENT", "COMPANY_OWNER"}, Register(as) PROVE Goal
    BY <2>1 DEF Register
  <2>2. ASSUME NEW s \in {"ACTIVE", "SUSPENDED"}, UpdateStatus(s) PROVE Goal
    BY <2>2 DEF UpdateStatus, RevokeAll
  <2>3. ASSUME NEW s \in Sessions, SessionEnds(s) PROVE Goal
    BY <2>3 DEF SessionEnds
  <2>4. ASSUME VerificationExpires PROVE Goal
    BY <2>4 DEF VerificationExpires
  <2>5. ASSUME AdminLoginIsChallenged PROVE Goal
    BY <2>5 DEF AdminLoginIsChallenged, CanAuthenticate, ShouldRequirePasswordChange
  <2>6. ASSUME ChallengeExpires PROVE Goal
    BY <2>6 DEF ChallengeExpires
  <2>7. ASSUME ForgotPassword PROVE Goal
    BY <2>7 DEF ForgotPassword
  <2>8. ASSUME ResetPassword PROVE Goal
    BY <2>8 DEF ResetPassword, RevokeAll, SetsPassword
  <2>9. ASSUME RequestEmailChange PROVE Goal
    BY <2>9 DEF RequestEmailChange, HoldsAccessToken
  <2>10. ASSUME ConfirmEmailChange PROVE Goal
    BY <2>10 DEF ConfirmEmailChange, RevokeAll, HoldsAccessToken
  <2> QED
    BY <1>1, <2>1, <2>2, <2>3, <2>4, <2>5, <2>6, <2>7, <2>8, <2>9, <2>10,
       Zenon DEF AtOnce
<1>2. ASSUME NEW r \in Requests, Starting(r) PROVE Goal
  <2>1. ASSUME RegisterByInvitation(r) PROVE Goal
    BY <2>1 DEF RegisterByInvitation
  <2>2. ASSUME ResendReads(r) PROVE Goal
    BY <2>2 DEF ResendReads
  <2>3. ASSUME ConfirmReads(r) PROVE Goal
    BY <2>3 DEF ConfirmReads
  <2>4. ASSUME Login(r) PROVE Goal
    BY <2>4 DEF Login, CanAuthenticate, ShouldRequirePasswordChange
  <2>5. ASSUME ChangeReads(r) PROVE Goal
    BY <2>5 DEF ChangeReads, HoldsAccessToken
  <2>6. ASSUME ForceReads(r) PROVE Goal
    BY <2>6 DEF ForceReads, CanAuthenticate, ShouldRequirePasswordChange
  <2>7. ASSUME NEW s \in Sessions, RefreshChecks(r, s) PROVE Goal
    BY <2>7 DEF RefreshChecks, Refreshable
  <2> QED
    BY <1>2, <2>1, <2>2, <2>3, <2>4, <2>5, <2>6, <2>7, Zenon DEF Starting
<1>3. ASSUME NEW r \in Requests, Continuing(r) PROVE Goal
  <2>1. ASSUME ResendWrites(r) PROVE Goal
    BY <2>1 DEF ResendWrites
  <2>2. ASSUME ConfirmWrites(r) PROVE Goal
    BY <2>2 DEF ConfirmWrites
  <2>3. ASSUME Refresh(r) PROVE Goal
    BY <2>3 DEF Refresh, CanAuthenticate, ShouldRequirePasswordChange, RequestsAreEntitled
  <2>4. ASSUME ChangeWrites(r) PROVE Goal
    BY <2>4 DEF ChangeWrites, RevokeAll, SetsPassword
  <2>5. ASSUME ForceWrites(r) PROVE Goal
    BY <2>5 DEF ForceWrites, RevokeAll, SetsPassword
  <2>6. ASSUME Aborts(r) PROVE Goal
    BY <2>6 DEF Aborts
  <2>7. ASSUME NEW s \in Sessions, Issue(r, s) PROVE Goal
    BY <2>7 DEF Issue
  <2> QED
    BY <1>3, <2>1, <2>2, <2>3, <2>4, <2>5, <2>6, <2>7, Zenon DEF Continuing
<1>4. ASSUME UNCHANGED vars PROVE Goal
  BY <1>4 DEF vars
<1> QED
  BY <1>1, <1>2, <1>3, <1>4, Zenon DEF Next

\* No session outlives the password it was opened with, but through a request
\* that was in flight when the password changed.
THEOREM OldPasswordsFade == Spec => OldPasswordFades
<1>1. IInv /\ [Next]_vars =>
        [/\ password' # password => StaleSessions' = {}
         /\ password' = password /\ StaleSessions = {} /\ StaleRequests = {}
               => StaleSessions' = {} /\ StaleRequests' = {}]_vars
  BY FadesStep, Zenon
<1> QED
  BY IInvHolds, <1>1, PTL DEF Spec, OldPasswordFades

\* Once nobody is coming, every way in asks for a status that is not SUSPENDED.
LEMMA ShutStep ==
    ASSUME IInv, [Next]_vars, status = "SUSPENDED", confirmed, NobodyComing
    PROVE  NobodyComing'
<1> USE DEF IInv, TypeOK, userVars, linkVars, NothingBeforeRegistration, NobodyComing
<1>1. ASSUME AtOnce PROVE NobodyComing'
  <2>1. ASSUME NEW as \in {"STUDENT", "COMPANY_OWNER"}, Register(as) PROVE NobodyComing'
    BY <2>1 DEF Register
  <2>2. ASSUME NEW s \in {"ACTIVE", "SUSPENDED"}, UpdateStatus(s) PROVE NobodyComing'
    BY <2>2 DEF UpdateStatus, RevokeAll
  <2>3. ASSUME NEW s \in Sessions, SessionEnds(s) PROVE NobodyComing'
    BY <2>3 DEF SessionEnds
  <2>4. ASSUME VerificationExpires PROVE NobodyComing'
    BY <2>4 DEF VerificationExpires
  <2>5. ASSUME AdminLoginIsChallenged PROVE NobodyComing'
    BY <2>5 DEF AdminLoginIsChallenged, CanAuthenticate, ShouldRequirePasswordChange
  <2>6. ASSUME ChallengeExpires PROVE NobodyComing'
    BY <2>6 DEF ChallengeExpires
  <2>7. ASSUME ForgotPassword PROVE NobodyComing'
    BY <2>7 DEF ForgotPassword
  <2>8. ASSUME ResetPassword PROVE NobodyComing'
    BY <2>8 DEF ResetPassword, RevokeAll, SetsPassword
  <2>9. ASSUME RequestEmailChange PROVE NobodyComing'
    BY <2>9 DEF RequestEmailChange, HoldsAccessToken
  <2>10. ASSUME ConfirmEmailChange PROVE NobodyComing'
    BY <2>10 DEF ConfirmEmailChange, RevokeAll, HoldsAccessToken
  <2> QED
    BY <1>1, <2>1, <2>2, <2>3, <2>4, <2>5, <2>6, <2>7, <2>8, <2>9, <2>10,
       Zenon DEF AtOnce
<1>2. ASSUME NEW r \in Requests, Starting(r) PROVE NobodyComing'
  <2>1. ASSUME RegisterByInvitation(r) PROVE NobodyComing'
    BY <2>1 DEF RegisterByInvitation
  <2>2. ASSUME ResendReads(r) PROVE NobodyComing'
    BY <2>2 DEF ResendReads
  <2>3. ASSUME ConfirmReads(r) PROVE NobodyComing'
    BY <2>3 DEF ConfirmReads
  <2>4. ASSUME Login(r) PROVE NobodyComing'
    BY <2>4 DEF Login, CanAuthenticate, ShouldRequirePasswordChange
  <2>5. ASSUME ChangeReads(r) PROVE NobodyComing'
    BY <2>5 DEF ChangeReads, HoldsAccessToken
  <2>6. ASSUME ForceReads(r) PROVE NobodyComing'
    BY <2>6 DEF ForceReads, CanAuthenticate, ShouldRequirePasswordChange
  <2>7. ASSUME NEW s \in Sessions, RefreshChecks(r, s) PROVE NobodyComing'
    BY <2>7 DEF RefreshChecks, Refreshable
  <2> QED
    BY <1>2, <2>1, <2>2, <2>3, <2>4, <2>5, <2>6, <2>7, Zenon DEF Starting
<1>3. ASSUME NEW r \in Requests, Continuing(r) PROVE NobodyComing'
  <2>1. ASSUME ResendWrites(r) PROVE NobodyComing'
    BY <2>1 DEF ResendWrites
  <2>2. ASSUME ConfirmWrites(r) PROVE NobodyComing'
    BY <2>2 DEF ConfirmWrites
  <2>3. ASSUME Refresh(r) PROVE NobodyComing'
    BY <2>3 DEF Refresh, CanAuthenticate, ShouldRequirePasswordChange
  <2>4. ASSUME ChangeWrites(r) PROVE NobodyComing'
    BY <2>4 DEF ChangeWrites, RevokeAll, SetsPassword
  <2>5. ASSUME ForceWrites(r) PROVE NobodyComing'
    BY <2>5 DEF ForceWrites, RevokeAll, SetsPassword
  <2>6. ASSUME Aborts(r) PROVE NobodyComing'
    BY <2>6 DEF Aborts
  <2>7. ASSUME NEW s \in Sessions, Issue(r, s) PROVE NobodyComing'
    BY <2>7 DEF Issue
  <2> QED
    BY <1>3, <2>1, <2>2, <2>3, <2>4, <2>5, <2>6, <2>7, Zenon DEF Continuing
<1>4. ASSUME UNCHANGED vars PROVE NobodyComing'
  BY <1>4 DEF vars
<1> QED
  BY <1>1, <1>2, <1>3, <1>4, Zenon DEF Next

\* A suspended account stays shut until it is reinstated.
THEOREM SuspendedStayOut == Spec => SuspensionShutsOut
<1>1. IInv /\ [Next]_vars =>
        [status = "SUSPENDED" /\ confirmed /\ NobodyComing => NobodyComing']_vars
  BY ShutStep, Zenon
<1> QED
  BY IInvHolds, <1>1, PTL DEF Spec, SuspensionShutsOut

=============================================================================
