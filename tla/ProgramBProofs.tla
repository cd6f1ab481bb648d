---------------------------- MODULE ProgramBProofs ----------------------------
(***************************************************************************)
(* Proofs about Program B for any number of items, teams, users,           *)
(* applications and concurrent requests.                                   *)
(*                                                                         *)
(* The invariants of ProgramB hold each other up: a winner is unique       *)
(* because of the index, an item has one project because its accepted      *)
(* candidate is unique and waits IN_PAIRING, and the item's status follows *)
(* the project because there is only one.  Their conjunction is inductive. *)
(***************************************************************************)
EXTENDS ProgramB, TLAPS

USE DEF ItemStatus, AppStatus, ProjStatus, Sides, SubmitStep, SubmitRequest,
        IdleSubmit, Winning, Active

\* The empty tables have the types of their columns.
LEMMA TypeInit == Init => TypeOK
<1> USE NoneAssumption DEF vars, itemVars, appVars, projVars, envVars, reqVars
<1> SUFFICES ASSUME Init PROVE TypeOK
  OBVIOUS
<1>1. submitReq \in [Requests -> SubmitRequest]
  <2>1. IdleSubmit \in SubmitRequest
    OBVIOUS
  <2> QED
    BY <2>1, Zenon DEF Init
<1>2. /\ activeMembers \subseteq Users
      /\ activeCall \in BOOLEAN
      /\ accepted \in [Apps -> SUBSET Sides]
  BY DEF Init
<1>3. \A r \in Requests : submitReq[r].step = "idle" /\ withdrawReq[r] = None
  BY DEF Init
<1> QED
  BY <1>1, <1>2, <1>3 DEF Init, TypeOK

\* Every operation of the three services, and every change around them, keeps
\* the types of the columns.
LEMMA TypeStep == TypeOK /\ [Next]_vars => TypeOK'
<1> USE NoneAssumption DEF vars, itemVars, appVars, projVars, envVars, reqVars
<1> SUFFICES ASSUME TypeOK, [Next]_vars PROVE TypeOK'
  OBVIOUS
<1> USE DEF TypeOK
<1>1. ASSUME NEW i \in Items, NEW u \in Users \cup {None}, NEW ready \in BOOLEAN,
             CreateItem(i, u, ready)
      PROVE  TypeOK'
  BY <1>1 DEF CreateItem
<1>2. ASSUME NEW i \in Items, NEW u \in Users \cup {None}, NEW ready \in BOOLEAN,
             UpdateItem(i, u, ready)
      PROVE  TypeOK'
  BY <1>2 DEF UpdateItem
<1>3. ASSUME NEW i \in Items, RemoveItem(i) PROVE TypeOK'
  BY <1>3 DEF RemoveItem
<1>4. ASSUME NEW i \in Items, Publish(i) PROVE TypeOK'
  BY <1>4 DEF Publish
<1>5. ASSUME NEW i \in Items, Archive(i) PROVE TypeOK'
  BY <1>5 DEF Archive
<1>6. ASSUME NEW i \in Items, NEW u \in Users, AssignProductOwner(i, u)
      PROVE  TypeOK'
  BY <1>6 DEF AssignProductOwner
<1>7. ASSUME NEW a \in Apps, ShortlistCandidate(a) PROVE TypeOK'
  BY <1>7 DEF ShortlistCandidate, EnterPairing
<1>8. ASSUME NEW a \in Apps, AcceptCandidate(a) PROVE TypeOK'
  BY <1>8 DEF AcceptCandidate, EnterPairing, Decidable
<1>9. ASSUME NEW a \in Apps, RejectCandidate(a) PROVE TypeOK'
  BY <1>9 DEF RejectCandidate, Decidable
<1>10. ASSUME NEW a \in Apps, HandOff(a) PROVE TypeOK'
  BY <1>10 DEF HandOff, OwnerIsActive, ActiveMember
<1>11. ASSUME NEW a \in Apps, HandOffAgain(a) PROVE TypeOK'
  BY <1>11 DEF HandOffAgain
<1>12. ASSUME NEW r \in Requests, NEW i \in Items, NEW t \in Teams,
              SubmitReadsItem(r, i, t)
       PROVE  TypeOK'
  BY <1>12 DEF SubmitReadsItem
<1>13. ASSUME NEW r \in Requests, SubmitFindsNoneActive(r) PROVE TypeOK'
  BY <1>13 DEF SubmitFindsNoneActive
<1>14. ASSUME NEW r \in Requests, NEW a \in Apps, SubmitInserts(r, a)
       PROVE  TypeOK'
  BY <1>14 DEF SubmitInserts
<1>15. ASSUME NEW r \in Requests, SubmitFails(r) PROVE TypeOK'
  BY <1>15 DEF SubmitFails
<1>16. ASSUME NEW r \in Requests, NEW a \in Apps, WithdrawReads(r, a)
       PROVE  TypeOK'
  BY <1>16 DEF WithdrawReads
<1>17. ASSUME NEW r \in Requests, WithdrawWrites(r) PROVE TypeOK'
  BY <1>17 DEF WithdrawWrites
<1>18. ASSUME NEW a \in Apps, RecordProgress(a) PROVE TypeOK'
  BY <1>18 DEF RecordProgress, PromoteToRealization
<1>19. ASSUME NEW a \in Apps, NEW m \in Mentors, AssignMentor(a, m)
       PROVE  TypeOK'
  BY <1>19 DEF AssignMentor, PromoteToRealization
<1>20. ASSUME NEW a \in Apps, NEW side \in Sides, RecordFinalAcceptance(a, side)
       PROVE  TypeOK'
  BY <1>20 DEF RecordFinalAcceptance, CloseOnLastAcceptance, Writable
<1>21. ASSUME NEW a \in Apps, RepeatFinalAcceptance(a) PROVE TypeOK'
  BY <1>21 DEF RepeatFinalAcceptance
<1>22. CASE CallChanges
  BY <1>22 DEF CallChanges
<1>23. ASSUME NEW u \in Users, MemberStatusChanges(u) PROVE TypeOK'
  BY <1>23 DEF MemberStatusChanges
<1>24. CASE UNCHANGED vars
  BY <1>24
<1> QED
  BY <1>1, <1>2, <1>3, <1>4, <1>5, <1>6, <1>7, <1>8, <1>9, <1>10, <1>11, <1>12,
     <1>13, <1>14, <1>15, <1>16, <1>17, <1>18, <1>19, <1>20, <1>21, <1>22, <1>23,
     <1>24
  DEF Next, BacklogNext, ItemNext, CandidateNext, TeamApplicationNext,
      ProjectsNext, ProgressNext, AcceptanceNext

\* Every column keeps its type through every operation of the three services.
THEOREM TypeCorrect == Spec => []TypeOK
<1> QED
  BY TypeInit, TypeStep, PTL DEF Spec

-----------------------------------------------------------------------------
(***************************************************************************)
(* The inductive invariant                                                 *)
(***************************************************************************)
IInv ==
    /\ TypeOK
    /\ SingleWinner
    /\ OneProjectPerItem
    /\ ItemFollowsProject
    /\ WinnerAgreesWithItem
    /\ NoDecisionStranded
    /\ ClosedByBothSides
    /\ OwnerOfProjectIsOwnerOfItem

\* Without items, applications and projects there is nothing to go wrong.
LEMMA InvariantInit == Init => IInv
<1> SUFFICES ASSUME Init PROVE IInv
  OBVIOUS
<1>1. TypeOK
  BY TypeInit
<1>2. /\ \A i \in Items : itemStatus[i] = "ABSENT"
      /\ \A a \in Apps : /\ appStatus[a] = "ABSENT"
                        /\ projStatus[a] = "ABSENT"
                        /\ accepted[a] = {}
  BY DEF Init
<1> QED
  BY <1>1, <1>2 DEF IInv, SingleWinner, OneProjectPerItem, ItemFollowsProject,
                    WinnerAgreesWithItem, NoDecisionStranded, ClosedByBothSides,
                    OwnerOfProjectIsOwnerOfItem, HandedOff, ProjectOf

\* No operation, in whatever order the requests interleave, breaks a part of
\* the invariant that held before it.
LEMMA InvariantStep == IInv /\ [Next]_vars => IInv'
<1> USE NoneAssumption DEF vars, itemVars, appVars, projVars, envVars, reqVars
<1> SUFFICES ASSUME IInv, [Next]_vars PROVE IInv'
  OBVIOUS
<1>0. TypeOK'
  BY TypeStep DEF IInv
<1> USE DEF IInv, TypeOK, SingleWinner, OneProjectPerItem, ItemFollowsProject,
            WinnerAgreesWithItem, NoDecisionStranded, ClosedByBothSides,
            OwnerOfProjectIsOwnerOfItem, HandedOff, ProjectOf
<1>1. ASSUME NEW i \in Items, NEW u \in Users \cup {None}, NEW ready \in BOOLEAN,
             CreateItem(i, u, ready)
      PROVE  IInv'
  BY <1>0, <1>1 DEF CreateItem
<1>2. ASSUME NEW i \in Items, NEW u \in Users \cup {None}, NEW ready \in BOOLEAN,
             UpdateItem(i, u, ready)
      PROVE  IInv'
  BY <1>0, <1>2 DEF UpdateItem
<1>3. ASSUME NEW i \in Items, RemoveItem(i)
      PROVE  IInv'
  BY <1>0, <1>3 DEF RemoveItem
<1>4. ASSUME NEW i \in Items, Publish(i)
      PROVE  IInv'
  BY <1>0, <1>4 DEF Publish
<1>5. ASSUME NEW i \in Items, Archive(i)
      PROVE  IInv'
  BY <1>0, <1>5 DEF Archive, Archivable
<1>6. ASSUME NEW i \in Items, NEW u \in Users, AssignProductOwner(i, u)
      PROVE  IInv'
  BY <1>0, <1>6 DEF AssignProductOwner, OwnerAssignable
<1>7. ASSUME NEW a \in Apps, ShortlistCandidate(a)
      PROVE  IInv'
  BY <1>0, <1>7 DEF ShortlistCandidate, EnterPairing, CandidateDecisionsAllowed
<1>8. ASSUME NEW a \in Apps, AcceptCandidate(a)
      PROVE  IInv'
  BY <1>0, <1>8 DEF AcceptCandidate, EnterPairing, CandidateDecisionsAllowed,
                 Decidable, WinnerSlotFree
<1>9. ASSUME NEW a \in Apps, RejectCandidate(a)
      PROVE  IInv'
  BY <1>0, <1>9 DEF RejectCandidate, CandidateDecisionsAllowed, Decidable
<1>10. ASSUME NEW a \in Apps, HandOff(a)
      PROVE  IInv'
  <2> DEFINE i == appItem[a]
  <2>1. /\ itemStatus[i] = "IN_PAIRING"
        /\ ProjectOf(i) = {}
        /\ \A b \in Apps \ {a} : appItem[b] = i => appStatus[b] \notin Winning
    BY <1>10 DEF HandOff, WinnerSlotFree
  <2>2. /\ itemStatus'[i] = "ASSIGNED"
        /\ \A j \in Items \ {i} : itemStatus'[j] = itemStatus[j]
        /\ projStatus'[a] = "ACTIVE" /\ appStatus'[a] = "PROJECT_CREATED"
        /\ projOwner'[a] = itemOwner[i]
        /\ \A b \in Apps \ {a} : /\ projStatus'[b] = projStatus[b]
                               /\ projOwner'[b] = projOwner[b]
                               /\ appStatus'[b] = appStatus[b]
        /\ UNCHANGED <<itemOwner, appItem, accepted>>
    BY <1>10 DEF HandOff, OwnerIsActive, ActiveMember
  <2>3. (SingleWinner /\ OneProjectPerItem)'
    BY <2>1, <2>2
  <2>4. ItemFollowsProject'
    BY <1>0, <1>10, <2>1 DEF HandOff, OwnerIsActive, ActiveMember
  <2>5. (WinnerAgreesWithItem /\ NoDecisionStranded)'
    BY <1>0, <1>10, <2>1 DEF HandOff, OwnerIsActive, ActiveMember
  <2>6. (ClosedByBothSides /\ OwnerOfProjectIsOwnerOfItem)'
    BY <1>10, <2>2 DEF HandOff, OwnerIsActive, ActiveMember
  <2> QED
    BY <1>0, <2>3, <2>4, <2>5, <2>6
<1>11. ASSUME NEW a \in Apps, HandOffAgain(a)
      PROVE  IInv'
  BY <1>0, <1>11 DEF HandOffAgain, WinnerSlotFree
<1>12. ASSUME NEW r \in Requests, NEW i \in Items, NEW t \in Teams,
              SubmitReadsItem(r, i, t)
      PROVE  IInv'
  BY <1>0, <1>12 DEF SubmitReadsItem
<1>13. ASSUME NEW r \in Requests, SubmitFindsNoneActive(r)
      PROVE  IInv'
  BY <1>0, <1>13 DEF SubmitFindsNoneActive
<1>14. ASSUME NEW r \in Requests, NEW a \in Apps, SubmitInserts(r, a)
      PROVE  IInv'
  BY <1>0, <1>14 DEF SubmitInserts
<1>15. ASSUME NEW r \in Requests, SubmitFails(r)
      PROVE  IInv'
  BY <1>0, <1>15 DEF SubmitFails
<1>16. ASSUME NEW r \in Requests, NEW a \in Apps, WithdrawReads(r, a)
      PROVE  IInv'
  BY <1>0, <1>16 DEF WithdrawReads
<1>17. ASSUME NEW r \in Requests, WithdrawWrites(r)
      PROVE  IInv'
  BY <1>0, <1>17 DEF WithdrawWrites
<1>18. ASSUME NEW a \in Apps, RecordProgress(a)
      PROVE  IInv'
  BY <1>0, <1>18 DEF RecordProgress, PromoteToRealization, Writable
<1>19. ASSUME NEW a \in Apps, NEW m \in Mentors, AssignMentor(a, m)
      PROVE  IInv'
  BY <1>0, <1>19 DEF AssignMentor, PromoteToRealization
<1>20. ASSUME NEW a \in Apps, NEW side \in Sides, RecordFinalAcceptance(a, side)
      PROVE  IInv'
  <2> DEFINE i == appItem[a]
  <2>1. /\ projStatus[a] = "ACTIVE"
        /\ itemStatus[i] \in HandedOff
        /\ ProjectOf(i) = {a}
    BY <1>20 DEF RecordFinalAcceptance, Writable
  <2>2. /\ UNCHANGED <<appStatus, appItem, projOwner, itemOwner>>
        /\ \A b \in Apps \ {a} : /\ projStatus'[b] = projStatus[b]
                               /\ accepted'[b] = accepted[b]
        /\ \A j \in Items \ {i} : itemStatus'[j] = itemStatus[j]
    BY <1>20 DEF RecordFinalAcceptance, CloseOnLastAcceptance
  <2>3. CASE accepted[a] \cup {side} = Sides
    <3>1. /\ projStatus'[a] = "CLOSED"
          /\ itemStatus'[i] = "CLOSED"
          /\ accepted'[a] = Sides
      BY <1>20, <2>1, <2>3 DEF RecordFinalAcceptance, CloseOnLastAcceptance
    <3>2. (OneProjectPerItem /\ SingleWinner)'
      BY <1>0, <2>1, <2>2, <3>1
    <3>3. ItemFollowsProject'
      BY <1>0, <2>1, <2>2, <3>1
    <3>4. (WinnerAgreesWithItem /\ NoDecisionStranded)'
      BY <1>0, <2>1, <2>2, <3>1
    <3>5. ClosedByBothSides'
      <4> SUFFICES ASSUME NEW b \in Apps
                   PROVE  projStatus'[b] = "CLOSED" <=> accepted'[b] = Sides
        BY Zenon DEF ClosedByBothSides
      <4>1. CASE b = a
        BY <4>1, <3>1, Zenon
      <4>2. projStatus[b] = "CLOSED" <=> accepted[b] = Sides
        BY Zenon DEF IInv, ClosedByBothSides
      <4>3. CASE b # a
        BY <4>2, <4>3, <2>2, Zenon
      <4> QED
        BY <4>1, <4>3, Zenon
    <3>6. OwnerOfProjectIsOwnerOfItem'
      BY <1>0, <2>1, <2>2, <3>1
    <3> QED
      BY <1>0, <3>2, <3>3, <3>4, <3>5, <3>6
  <2>4. CASE accepted[a] \cup {side} # Sides
    <3>1. UNCHANGED <<projStatus, itemStatus>>
      BY <1>20, <2>4 DEF RecordFinalAcceptance, CloseOnLastAcceptance
    <3>2. projStatus[a] # "CLOSED" /\ accepted'[a] # Sides
      BY <1>20, <2>1, <2>4 DEF RecordFinalAcceptance
    <3>3. (OneProjectPerItem /\ SingleWinner)'
      BY <1>0, <2>2, <3>1, <3>2
    <3>4. (ItemFollowsProject /\ WinnerAgreesWithItem /\ NoDecisionStranded)'
      BY <1>0, <2>2, <3>1
    <3>5. ClosedByBothSides'
      <4> SUFFICES ASSUME NEW b \in Apps
                   PROVE  projStatus'[b] = "CLOSED" <=> accepted'[b] = Sides
        BY Zenon DEF ClosedByBothSides
      <4>1. CASE b = a
        BY <4>1, <3>1, <3>2, Zenon
      <4>2. projStatus[b] = "CLOSED" <=> accepted[b] = Sides
        BY Zenon DEF IInv, ClosedByBothSides
      <4>3. CASE b # a
        BY <4>2, <4>3, <2>2, <3>1, Zenon
      <4> QED
        BY <4>1, <4>3, Zenon
    <3>6. OwnerOfProjectIsOwnerOfItem'
      BY <1>0, <2>2, <3>1
    <3> QED
      BY <1>0, <3>3, <3>4, <3>5, <3>6
  <2> QED
    BY <2>3, <2>4
<1>21. ASSUME NEW a \in Apps, RepeatFinalAcceptance(a)
      PROVE  IInv'
  BY <1>0, <1>21 DEF RepeatFinalAcceptance
<1>22. CASE CallChanges
  BY <1>0, <1>22 DEF CallChanges
<1>23. ASSUME NEW u \in Users, MemberStatusChanges(u)
      PROVE  IInv'
  BY <1>0, <1>23 DEF MemberStatusChanges
<1>24. CASE UNCHANGED vars
  BY <1>0, <1>24
<1> HIDE DEF IInv
<1> QED
  BY <1>1, <1>2, <1>3, <1>4, <1>5, <1>6, <1>7, <1>8, <1>9, <1>10, <1>11, <1>12,
     <1>13, <1>14, <1>15, <1>16, <1>17, <1>18, <1>19, <1>20, <1>21, <1>22, <1>23, <1>24
  DEF Next, BacklogNext, ItemNext, CandidateNext, TeamApplicationNext,
      ProjectsNext, ProgressNext, AcceptanceNext

\* The conjunction holds in every reachable state.
THEOREM InvariantHolds == Spec => []IInv
<1> QED
  BY InvariantInit, InvariantStep, PTL DEF Spec

-----------------------------------------------------------------------------
(***************************************************************************)
(* What follows from it                                                    *)
(***************************************************************************)

\* An item has one winner at most, whatever the number of teams and requests.
THEOREM WinnerIsSingle == Spec => []SingleWinner
<1>1. IInv => SingleWinner
  BY DEF IInv
<1> QED
  BY InvariantHolds, <1>1, PTL

\* An item is executed by one project at most, although no index of the
\* database says so and a late withdrawal can demote a running candidate.
THEOREM ItemHasOneProject == Spec => []OneProjectPerItem
<1>1. IInv => OneProjectPerItem
  BY DEF IInv
<1> QED
  BY InvariantHolds, <1>1, PTL

\* The backlog item and the project of its winner tell the same story.
THEOREM ItemAgreesWithProject == Spec => []ItemFollowsProject
<1>1. IInv => ItemFollowsProject
  BY DEF IInv
<1> QED
  BY InvariantHolds, <1>1, PTL

\* An accepted candidate can always still be handed off, and a candidate
\* marked PROJECT_CREATED has its project.
THEOREM WinnerWaitsInPairing == Spec => []WinnerAgreesWithItem
<1>1. IInv => WinnerAgreesWithItem
  BY DEF IInv
<1> QED
  BY InvariantHolds, <1>1, PTL

\* No candidate with a positive decision belongs to a draft, published or
\* archived item.
THEOREM DecisionIsNeverStranded == Spec => []NoDecisionStranded
<1>1. IInv => NoDecisionStranded
  BY DEF IInv
<1> QED
  BY InvariantHolds, <1>1, PTL

\* A project is closed with the second acceptance and never otherwise.
THEOREM ClosedWithBothAcceptances == Spec => []ClosedByBothSides
<1>1. IInv => ClosedByBothSides
  BY DEF IInv
<1> QED
  BY InvariantHolds, <1>1, PTL

\* Item and project keep the same product owner.
THEOREM OwnerIsShared == Spec => []OwnerOfProjectIsOwnerOfItem
<1>1. IInv => OwnerOfProjectIsOwnerOfItem
  BY DEF IInv
<1> QED
  BY InvariantHolds, <1>1, PTL

-----------------------------------------------------------------------------
(***************************************************************************)
(* Action properties                                                       *)
(***************************************************************************)

\* A published item never moves back, and a closed or archived item never
\* moves, whatever is done to its project and its candidates.
THEOREM ItemMovesForward == Spec => ItemOnlyMovesForward
<1> USE NoneAssumption DEF vars, itemVars, appVars, projVars, envVars, reqVars
<1> DEFINE Forward == \A i \in Items :
                          itemStatus[i] \notin {"ABSENT", "DRAFT"} =>
                              itemStatus'[i] \in Onward(itemStatus[i]) \cup {itemStatus[i]}
<1>1. ASSUME IInv, Next PROVE Forward
  <2> USE <1>1 DEF IInv, TypeOK, Onward
  <2>1. CASE UNCHANGED itemStatus
    BY <2>1
  <2>2. ASSUME NEW j \in Items, NEW u \in Users \cup {None}, NEW ready \in BOOLEAN,
               CreateItem(j, u, ready)
        PROVE  Forward
    BY <2>2 DEF CreateItem
  <2>3. ASSUME NEW j \in Items, RemoveItem(j) \/ Publish(j) \/ Archive(j)
        PROVE  Forward
    BY <2>3 DEF RemoveItem, Publish, Archive, Archivable
  <2>4. ASSUME NEW a \in Apps, ShortlistCandidate(a) \/ AcceptCandidate(a)
        PROVE  Forward
    BY <2>4 DEF ShortlistCandidate, AcceptCandidate, EnterPairing
  <2>5. ASSUME NEW a \in Apps, HandOff(a) PROVE Forward
    <3>1. itemStatus[appItem[a]] = "IN_PAIRING"
      BY <2>5 DEF HandOff, OwnerIsActive, ActiveMember, WinnerAgreesWithItem
    <3> QED
      BY <2>5, <3>1 DEF HandOff, OwnerIsActive, ActiveMember
  <2>6. ASSUME NEW a \in Apps, PromoteToRealization(appItem[a]) PROVE Forward
    BY <2>6 DEF PromoteToRealization
  <2>7. ASSUME NEW a \in Apps,
               \/ \E side \in Sides : RecordFinalAcceptance(a, side)
               \/ RepeatFinalAcceptance(a)
        PROVE  Forward
    <3>1. projStatus[a] # "ABSENT"
      BY <2>7 DEF RecordFinalAcceptance, RepeatFinalAcceptance, Writable,
                  ClosedByBothSides
    <3>2. itemStatus[appItem[a]] \in HandedOff
      BY <3>1 DEF ItemFollowsProject, ProjectOf
    <3> QED
      BY <2>7, <3>2 DEF RecordFinalAcceptance, RepeatFinalAcceptance, HandedOff
  <2>8. ASSUME TeamApplicationNext PROVE UNCHANGED itemStatus
    BY <2>8 DEF TeamApplicationNext, SubmitReadsItem, SubmitFindsNoneActive,
                SubmitInserts, SubmitFails, WithdrawReads, WithdrawWrites
  <2>9. ASSUME NEW a \in Apps, RejectCandidate(a) \/ HandOffAgain(a)
        PROVE  UNCHANGED itemStatus
    BY <2>9 DEF RejectCandidate, HandOffAgain
  <2>10. ASSUME NEW j \in Items, NEW u \in Users \cup {None}, NEW ready \in BOOLEAN,
                UpdateItem(j, u, ready) \/ AssignProductOwner(j, u)
         PROVE  UNCHANGED itemStatus
    BY <2>10 DEF UpdateItem, AssignProductOwner
  <2>11. ASSUME CallChanges \/ \E u \in Users : MemberStatusChanges(u)
         PROVE  UNCHANGED itemStatus
    BY <2>11 DEF CallChanges, MemberStatusChanges
  <2>12. ASSUME NEW a \in Apps,
                RecordProgress(a) \/ \E m \in Mentors : AssignMentor(a, m)
         PROVE  PromoteToRealization(appItem[a])
    BY <2>12 DEF RecordProgress, AssignMentor
  <2> HIDE DEF IInv, TypeOK, Onward, Forward
  <2> QED
    BY <2>1, <2>2, <2>3, <2>4, <2>5, <2>6, <2>7, <2>8, <2>9, <2>10, <2>11, <2>12
    DEF Next, BacklogNext, ItemNext, CandidateNext, ProjectsNext,
      ProgressNext, AcceptanceNext
<1>2. IInv /\ [Next]_vars => [Forward]_vars
  BY <1>1
<1> QED
  BY InvariantHolds, <1>2, PTL DEF Spec, ItemOnlyMovesForward

\* A rejected or withdrawn candidate stays out of the selection for good.
THEOREM LosersAreOut == Spec => LosersStayOut
<1> USE NoneAssumption DEF vars, itemVars, appVars, projVars, envVars, reqVars
<1> DEFINE Out == \A a \in Apps :
                      appStatus[a] \in {"REJECTED", "WITHDRAWN"} =>
                          \/ appStatus'[a] \in {"REJECTED", "WITHDRAWN"}
                          \/ appStatus'[a] = "PROJECT_CREATED" /\ projStatus[a] # "ABSENT"
<1>1. ASSUME IInv, Next PROVE Out
  <2> USE <1>1 DEF IInv, TypeOK
  <2>1. CASE UNCHANGED appStatus
    BY <2>1
  <2>2. ASSUME NEW a \in Apps,
               ShortlistCandidate(a) \/ AcceptCandidate(a) \/ RejectCandidate(a)
        PROVE  Out
    BY <2>2 DEF ShortlistCandidate, AcceptCandidate, RejectCandidate, Decidable
  <2>3. ASSUME NEW a \in Apps, HandOff(a) \/ HandOffAgain(a) PROVE Out
    BY <2>3 DEF HandOff, HandOffAgain
  <2>4. ASSUME NEW r \in Requests,
               WithdrawWrites(r) \/ \E a \in Apps : SubmitInserts(r, a)
        PROVE  Out
    BY <2>4 DEF WithdrawWrites, SubmitInserts
  <2>5. ASSUME NEW r \in Requests,
               \/ \E i \in Items, t \in Teams : SubmitReadsItem(r, i, t)
               \/ SubmitFindsNoneActive(r)
               \/ SubmitFails(r)
               \/ \E a \in Apps : WithdrawReads(r, a)
        PROVE  UNCHANGED appStatus
    BY <2>5 DEF SubmitReadsItem, SubmitFindsNoneActive, SubmitFails, WithdrawReads
  <2>6. ASSUME ProjectsNext PROVE UNCHANGED appStatus
    BY <2>6 DEF ProjectsNext, ProgressNext, AcceptanceNext, RecordProgress,
                AssignMentor, RecordFinalAcceptance, RepeatFinalAcceptance
  <2>7. ASSUME NEW i \in Items, NEW u \in Users \cup {None}, NEW ready \in BOOLEAN,
               \/ CreateItem(i, u, ready)
               \/ UpdateItem(i, u, ready)
               \/ AssignProductOwner(i, u)
        PROVE  UNCHANGED appStatus
    BY <2>7 DEF CreateItem, UpdateItem, AssignProductOwner
  <2>8. ASSUME NEW i \in Items, RemoveItem(i) \/ Publish(i) \/ Archive(i)
        PROVE  UNCHANGED appStatus
    BY <2>8 DEF RemoveItem, Publish, Archive
  <2>9. ASSUME CallChanges \/ \E u \in Users : MemberStatusChanges(u)
        PROVE  UNCHANGED appStatus
    BY <2>9 DEF CallChanges, MemberStatusChanges
  <2> HIDE DEF IInv, TypeOK, Out
  <2> QED
    BY <2>1, <2>2, <2>3, <2>4, <2>5, <2>6, <2>7, <2>8, <2>9
    DEF Next, BacklogNext, ItemNext, CandidateNext, TeamApplicationNext
<1>2. IInv /\ [Next]_vars => [Out]_vars
  BY <1>1
<1> QED
  BY InvariantHolds, <1>2, PTL DEF Spec, LosersStayOut

=============================================================================
