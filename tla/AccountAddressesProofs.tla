------------------------ MODULE AccountAddressesProofs ------------------------
(***************************************************************************)
(* Proofs about the addresses of accounts, for any number of users,        *)
(* addresses and requests in flight.                                       *)
(***************************************************************************)
EXTENDS AccountAddresses, TLAPS

USE AcademicAddresses, NoneIsNothing DEF Step, Idle, Starts, Ends, Proves, Exists

-----------------------------------------------------------------------------
\* What a link can still prove about the address of the account: it was sent
\* there, or that address is proven already.
GoodFor(u, a) == a = None \/ a = email[u] \/ email[u] \in proven[u]

\* What the requests in flight will write.
InFlight(q) ==
    /\ q.doing # "idle" => q.user \in Users
    /\ q.doing \in {"confirm", "studentConfirm"} => q.address \in proven[q.user]
    /\ q.doing = "confirm" => /\ email[q.user] \in proven[q.user]
                              /\ q.academic => q.address \in Academic
    /\ q.doing = "resend" => GoodFor(q.user, q.address)
    /\ q.doing \in {"set", "studentResend", "studentConfirm"} => q.address \in Academic

\* The strengthening: links go to the address of the account, or that address
\* is proven, and links for students go to the university.
LinksAreGood ==
    /\ \A u \in Users :
          /\ GoodFor(u, verification[u])
          /\ GoodFor(u, reset[u])
          /\ studentLink[u] # None => studentLink[u] \in Academic
    /\ \A r \in Requests : InFlight(request[r])

IInv == TypeOK /\ LinksAreGood /\ ConfirmedIsProven /\ StudentsAreAcademic

\* No account, no link and no request.
LEMMA InitHolds == Init => IInv
  BY DEF Init, IInv, TypeOK, LinksAreGood, GoodFor, InFlight, ConfirmedIsProven,
         StudentsAreAcademic

-----------------------------------------------------------------------------
\* No handler's step stores a value of another type.
LEMMA TypeStep == ASSUME IInv, [Next]_vars PROVE TypeOK'
<1> USE DEF IInv, TypeOK, userVars, linkVars
<1>1. ASSUME NEW u \in Users, AccountNext(u) PROVE TypeOK'
  <2>1. ASSUME ForgotPassword(u) PROVE TypeOK'
    BY <2>1 DEF ForgotPassword
  <2>2. ASSUME ResetPassword(u) PROVE TypeOK'
    BY <2>2 DEF ResetPassword
  <2>3. ASSUME ConfirmEmailChange(u) PROVE TypeOK'
    BY <2>3 DEF ConfirmEmailChange
  <2>4. ASSUME StudentLinkExpires(u) PROVE TypeOK'
    BY <2>4 DEF StudentLinkExpires
  <2>5. ASSUME NEW a \in Addresses, Register(u, a) PROVE TypeOK'
    BY <2>5 DEF Register
  <2>6. ASSUME NEW a \in Addresses, RequestEmailChange(u, a) PROVE TypeOK'
    BY <2>6 DEF RequestEmailChange
  <2> QED
    BY <1>1, <2>1, <2>2, <2>3, <2>4, <2>5, <2>6, Zenon DEF AccountNext
<1>2. ASSUME NEW r \in Requests, NEW u \in Users, Starting(r, u) PROVE TypeOK'
  <2>1. ASSUME ResendReads(r, u) PROVE TypeOK'
    BY <2>1 DEF ResendReads
  <2>2. ASSUME ConfirmReads(r, u) PROVE TypeOK'
    BY <2>2 DEF ConfirmReads, ApprovedDomain
  <2>3. ASSUME StudentResendReads(r, u) PROVE TypeOK'
    BY <2>3 DEF StudentResendReads
  <2>4. ASSUME StudentConfirmReads(r, u) PROVE TypeOK'
    BY <2>4 DEF StudentConfirmReads
  <2>5. ASSUME RequestDomainReads(r, u) PROVE TypeOK'
    BY <2>5 DEF RequestDomainReads
  <2>6. ASSUME NEW a \in Addresses, SetReads(r, u, a) PROVE TypeOK'
    BY <2>6 DEF SetReads, ApprovedDomain
  <2> QED
    BY <1>2, <2>1, <2>2, <2>3, <2>4, <2>5, <2>6, Zenon DEF Starting
<1>3. ASSUME NEW r \in Requests, Continuing(r) PROVE TypeOK'
  <2>0. request[r].doing # "idle" => request[r].user \in Users
    BY DEF LinksAreGood, InFlight
  <2>1. ASSUME ResendWrites(r) PROVE TypeOK'
    BY <2>1, <2>0 DEF ResendWrites
  <2>2. ASSUME ConfirmWrites(r) PROVE TypeOK'
    BY <2>2, <2>0 DEF ConfirmWrites
  <2>3. ASSUME SetWrites(r) PROVE TypeOK'
    BY <2>3, <2>0 DEF SetWrites
  <2>4. ASSUME StudentResendWrites(r) PROVE TypeOK'
    BY <2>4, <2>0 DEF StudentResendWrites
  <2>5. ASSUME StudentConfirmWrites(r) PROVE TypeOK'
    BY <2>5, <2>0 DEF StudentConfirmWrites
  <2>6. ASSUME RequestDomainWrites(r) PROVE TypeOK'
    BY <2>6, <2>0 DEF RequestDomainWrites
  <2>7. ASSUME Aborts(r) PROVE TypeOK'
    BY <2>7, <2>0 DEF Aborts
  <2> QED
    BY <1>3, <2>1, <2>2, <2>3, <2>4, <2>5, <2>6, <2>7, Zenon DEF Continuing
<1>4. ASSUME NEW s \in {"APPROVED", "REJECTED", "NONE"}, AdminSetsDomain(s) PROVE TypeOK'
  BY <1>4 DEF AdminSetsDomain
<1>5. ASSUME UNCHANGED vars PROVE TypeOK'
  BY <1>5 DEF vars
<1> QED
  BY <1>1, <1>2, <1>3, <1>4, <1>5, Zenon DEF Next

\* Links and requests are as good after a step as before it: an address that
\* is replaced is replaced by a proven one, and proof is never withdrawn.
LEMMA LinksStep == ASSUME IInv, [Next]_vars PROVE LinksAreGood'
<1> USE DEF IInv, TypeOK, userVars, linkVars, LinksAreGood, GoodFor, InFlight
<1>1. ASSUME NEW u \in Users, AccountNext(u) PROVE LinksAreGood'
  <2>1. ASSUME ForgotPassword(u) PROVE LinksAreGood'
    BY <2>1 DEF ForgotPassword
  <2>2. ASSUME ResetPassword(u) PROVE LinksAreGood'
    BY <2>2 DEF ResetPassword
  <2>3. ASSUME ConfirmEmailChange(u) PROVE LinksAreGood'
    BY <2>3 DEF ConfirmEmailChange
  <2>4. ASSUME StudentLinkExpires(u) PROVE LinksAreGood'
    BY <2>4 DEF StudentLinkExpires
  <2>5. ASSUME NEW a \in Addresses, Register(u, a) PROVE LinksAreGood'
    BY <2>5 DEF Register
  <2>6. ASSUME NEW a \in Addresses, RequestEmailChange(u, a) PROVE LinksAreGood'
    BY <2>6 DEF RequestEmailChange
  <2> QED
    BY <1>1, <2>1, <2>2, <2>3, <2>4, <2>5, <2>6, Zenon DEF AccountNext
<1>2. ASSUME NEW r \in Requests, NEW u \in Users, Starting(r, u) PROVE LinksAreGood'
  <2>1. ASSUME ResendReads(r, u) PROVE LinksAreGood'
    BY <2>1 DEF ResendReads
  <2>2. ASSUME ConfirmReads(r, u) PROVE LinksAreGood'
    BY <2>2 DEF ConfirmReads, ApprovedDomain
  <2>3. ASSUME StudentResendReads(r, u) PROVE LinksAreGood'
    BY <2>3 DEF StudentResendReads, StudentsAreAcademic
  <2>4. ASSUME StudentConfirmReads(r, u) PROVE LinksAreGood'
    BY <2>4 DEF StudentConfirmReads
  <2>5. ASSUME RequestDomainReads(r, u) PROVE LinksAreGood'
    BY <2>5 DEF RequestDomainReads
  <2>6. ASSUME NEW a \in Addresses, SetReads(r, u, a) PROVE LinksAreGood'
    BY <2>6 DEF SetReads, ApprovedDomain
  <2> QED
    BY <1>2, <2>1, <2>2, <2>3, <2>4, <2>5, <2>6, Zenon DEF Starting
<1>3. ASSUME NEW r \in Requests, Continuing(r) PROVE LinksAreGood'
  <2>1. ASSUME ResendWrites(r) PROVE LinksAreGood'
    BY <2>1 DEF ResendWrites
  <2>2. ASSUME ConfirmWrites(r) PROVE LinksAreGood'
    BY <2>2 DEF ConfirmWrites
  <2>3. ASSUME SetWrites(r) PROVE LinksAreGood'
    BY <2>3 DEF SetWrites
  <2>4. ASSUME StudentResendWrites(r) PROVE LinksAreGood'
    BY <2>4 DEF StudentResendWrites
  <2>5. ASSUME StudentConfirmWrites(r) PROVE LinksAreGood'
    BY <2>5 DEF StudentConfirmWrites
  <2>6. ASSUME RequestDomainWrites(r) PROVE LinksAreGood'
    BY <2>6 DEF RequestDomainWrites
  <2>7. ASSUME Aborts(r) PROVE LinksAreGood'
    BY <2>7 DEF Aborts
  <2> QED
    BY <1>3, <2>1, <2>2, <2>3, <2>4, <2>5, <2>6, <2>7, Zenon DEF Continuing
<1>4. ASSUME NEW s \in {"APPROVED", "REJECTED", "NONE"}, AdminSetsDomain(s)
      PROVE  LinksAreGood'
  BY <1>4 DEF AdminSetsDomain
<1>5. ASSUME UNCHANGED vars PROVE LinksAreGood'
  BY <1>5 DEF vars
<1> QED
  BY <1>1, <1>2, <1>3, <1>4, <1>5, Zenon DEF Next

-----------------------------------------------------------------------------
\* Only the writes of proven or academic addresses touch the accounts.
LEMMA AccountsStep ==
    ASSUME IInv, [Next]_vars PROVE ConfirmedIsProven' /\ StudentsAreAcademic'
<1> DEFINE Goal == ConfirmedIsProven' /\ StudentsAreAcademic'
<1> USE DEF IInv, TypeOK, userVars, linkVars, LinksAreGood, GoodFor, InFlight,
            ConfirmedIsProven, StudentsAreAcademic
<1>1. ASSUME NEW u \in Users, AccountNext(u) PROVE Goal
  <2>1. ASSUME ForgotPassword(u) \/ StudentLinkExpires(u) PROVE Goal
    BY <2>1 DEF ForgotPassword, StudentLinkExpires
  <2>2. ASSUME ResetPassword(u) PROVE Goal
    BY <2>2 DEF ResetPassword
  <2>3. ASSUME ConfirmEmailChange(u) PROVE Goal
    BY <2>3 DEF ConfirmEmailChange
  <2>4. ASSUME NEW a \in Addresses, Register(u, a) PROVE Goal
    <3>1. email[u] = None /\ None \notin proven[u]
      BY <2>4 DEF Register
    <3> QED
      BY <2>4, <3>1 DEF Register
  <2>5. ASSUME NEW a \in Addresses, RequestEmailChange(u, a) PROVE Goal
    BY <2>5 DEF RequestEmailChange
  <2> QED
    BY <1>1, <2>1, <2>2, <2>3, <2>4, <2>5, Zenon DEF AccountNext
<1>2. ASSUME NEW r \in Requests, NEW u \in Users, Starting(r, u) PROVE Goal
  <2>1. ASSUME ResendReads(r, u) \/ StudentResendReads(r, u) \/ RequestDomainReads(r, u)
        PROVE  Goal
    BY <2>1 DEF ResendReads, StudentResendReads, RequestDomainReads
  <2>2. ASSUME ConfirmReads(r, u) PROVE Goal
    BY <2>2 DEF ConfirmReads
  <2>3. ASSUME StudentConfirmReads(r, u) PROVE Goal
    BY <2>3 DEF StudentConfirmReads
  <2>4. ASSUME NEW a \in Addresses, SetReads(r, u, a) PROVE Goal
    BY <2>4 DEF SetReads
  <2> QED
    BY <1>2, <2>1, <2>2, <2>3, <2>4, Zenon DEF Starting
<1>3. ASSUME NEW r \in Requests, Continuing(r) PROVE Goal
  <2>1. ASSUME ConfirmWrites(r) PROVE Goal
    BY <2>1 DEF ConfirmWrites
  <2>2. ASSUME SetWrites(r) PROVE Goal
    BY <2>2 DEF SetWrites
  <2>3. ASSUME StudentConfirmWrites(r) PROVE Goal
    BY <2>3 DEF StudentConfirmWrites
  <2>4. ASSUME ResendWrites(r) \/ StudentResendWrites(r) \/ RequestDomainWrites(r)
                  \/ Aborts(r)
        PROVE  Goal
    BY <2>4 DEF ResendWrites, StudentResendWrites, RequestDomainWrites, Aborts
  <2> QED
    BY <1>3, <2>1, <2>2, <2>3, <2>4, Zenon DEF Continuing
<1>4. ASSUME NEW s \in {"APPROVED", "REJECTED", "NONE"}, AdminSetsDomain(s) PROVE Goal
  BY <1>4 DEF AdminSetsDomain
<1>5. ASSUME UNCHANGED vars PROVE Goal
  BY <1>5 DEF vars
<1> QED
  BY <1>1, <1>2, <1>3, <1>4, <1>5, Zenon DEF Next

\* The inductive invariant.
LEMMA IInvHolds == Spec => []IInv
<1>1. IInv /\ [Next]_vars => IInv'
  BY TypeStep, LinksStep, AccountsStep, Zenon DEF IInv
<1> QED
  BY InitHolds, <1>1, PTL DEF Spec

\* The columns keep their types.
THEOREM TypesHold == Spec => []TypeOK
<1>1. IInv => TypeOK
  BY DEF IInv
<1> QED
  BY IInvHolds, <1>1, PTL

\* A confirmed address presented a link, whatever requests cross.
THEOREM ConfirmationIsProof == Spec => []ConfirmedIsProven
<1>1. IInv => ConfirmedIsProven
  BY DEF IInv
<1> QED
  BY IInvHolds, <1>1, PTL

\* Every student's address belongs to the university.
THEOREM StudentsStayAcademic == Spec => []StudentsAreAcademic
<1>1. IInv => StudentsAreAcademic
  BY DEF IInv
<1> QED
  BY IInvHolds, <1>1, PTL

=============================================================================
