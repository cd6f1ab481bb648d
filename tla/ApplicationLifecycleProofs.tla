---------------------- MODULE ApplicationLifecycleProofs ----------------------
(***************************************************************************)
(* Proofs about the Program A applications of a team, for any number of    *)
(* applications, calls, questions and requests.                            *)
(*                                                                         *)
(* The first half holds however many submissions overlap.  The second half *)
(* assumes that at most one is in flight: then a submission still finds    *)
(* the draft it read, and the service implements ApplicationCase.  The     *)
(* last part is about the mentoring and the conversations of the           *)
(* applications: what follows from Spec holds of WorkSpec as well.         *)
(***************************************************************************)
EXTENDS Conversations, TLAPS

USE DEF ApplicationStatus, StatusEvent, InfoStatus, Idle

\* An action that moves one application from a status in "from" to "to" and
\* touches neither the questions nor the calls.
MovesOnly(a, from, to) ==
    /\ status[a] \in from
    /\ Records(a, status[a], to)
    /\ UNCHANGED <<callOf, evaluated, infoVars, teamLocked, request>>

\* The transitions without a decision: what the seven of them have in common.
PlainMove(a) ==
    /\ \/ MovesOnly(a, {"SUBMITTED"}, "FORMALLY_VERIFIED")
       \/ MovesOnly(a, {"FORMALLY_VERIFIED"}, "EVALUATING")
       \/ MovesOnly(a, {"APPROVED"}, "ONBOARDING")
       \/ MovesOnly(a, {"ONBOARDING", "PAUSED"}, "ACTIVE_PROJECT")
       \/ MovesOnly(a, {"ACTIVE_PROJECT"}, "PAUSED")
       \/ MovesOnly(a, {"ACTIVE_PROJECT"}, "COMPLETED")
       \/ MovesOnly(a, {"COMPLETED"}, "ARCHIVED")
    /\ UNCHANGED decided

\* The decisions: approve, reject and createDecision.
DecidingMove(a) ==
    /\ \/ MovesOnly(a, {"FORMALLY_VERIFIED", "EVALUATING"}, "APPROVED")
       \/ MovesOnly(a, {"SUBMITTED", "FORMALLY_VERIFIED", "EVALUATING",
                        "NEEDS_INFO"}, "REJECTED")
    /\ decided' = [decided EXCEPT ![a] = TRUE]

\* Every step is a handler's read or write, a question, an answer or a move.
LEMMA StepKinds ==
    ASSUME Next
    PROVE  \/ \E r \in Requests : RequestNext(r)
           \/ \E a \in Apps : \/ PlainMove(a)
                              \/ DecidingMove(a)
                              \/ \E q \in InfoItems : CreateNeedsInfoItem(a, q)
                              \/ Resubmit(a)
<1>1. ASSUME NEW a \in Apps,
             \/ FormalVerify(a)
             \/ StartEvaluation(a)
             \/ ProjectNext(a)
      PROVE  PlainMove(a)
  BY <1>1, Zenon DEF FormalVerify, StartEvaluation, ProjectNext, StartOnboarding,
               Activate, Pause, Complete, Archive, Transition, PlainMove, MovesOnly
<1>2. ASSUME NEW a \in Apps, NEW outcome \in {"APPROVED", "REJECTED"},
             Approve(a) \/ Reject(a) \/ CreateDecision(a, outcome)
      PROVE  DecidingMove(a)
  BY <1>2 DEF Approve, Reject, CreateDecision, CanBeEvaluated, TransitionDecides,
              DecidingMove, MovesOnly
<1> QED
  BY <1>1, <1>2, Zenon DEF Next, ReviewNext, DecisionNext

-----------------------------------------------------------------------------
(***************************************************************************)
(* Types                                                                   *)
(***************************************************************************)

\* The empty tables have the types of their columns.
LEMMA TypeInit == Init => TypeOK
<1> SUFFICES ASSUME Init PROVE TypeOK
  OBVIOUS
<1>1. request \in [Requests -> Request]
  <2>1. Idle \in Request
    BY DEF Request
  <2> QED
    BY <2>1, Zenon DEF Init
<1>2. lastEvent \in [Apps -> [from : ApplicationStatus, to : ApplicationStatus]
                              \cup {None}]
  BY Zenon DEF Init
<1> QED
  BY <1>1, <1>2 DEF Init, TypeOK

\* A recorded move keeps the types of the status and of the events.
LEMMA RecordsTypes ==
    ASSUME TypeOK, NEW a \in Apps, NEW from \in ApplicationStatus,
           NEW to \in ApplicationStatus, Records(a, from, to)
    PROVE  /\ status' \in [Apps -> ApplicationStatus \cup {"ABSENT"}]
           /\ lastEvent' \in [Apps -> [from : ApplicationStatus, to : ApplicationStatus]
                                      \cup {None}]
           /\ \A b \in Apps \ {a} : status'[b] = status[b]
           /\ status'[a] = to
<1> DEFINE e == [from |-> from, to |-> to]
<1>1. e \in [from : ApplicationStatus, to : ApplicationStatus] \cup {None}
  BY Zenon
<1>2. /\ lastEvent' = [lastEvent EXCEPT ![a] = e]
      /\ lastEvent \in [Apps -> [from : ApplicationStatus, to : ApplicationStatus]
                                \cup {None}]
  BY Zenon DEF Records, TypeOK
<1> HIDE DEF e
<1>3. lastEvent' \in [Apps -> [from : ApplicationStatus, to : ApplicationStatus]
                             \cup {None}]
  BY <1>1, <1>2, Zenon
<1> QED
  BY <1>3, Zenon DEF Records, TypeOK

\* Every step keeps the types of the columns.
LEMMA TypeStep == TypeOK /\ [Next]_vars => TypeOK'
<1> USE NoneIsNoRow DEF vars, infoVars
<1> SUFFICES ASSUME TypeOK, [Next]_vars PROVE TypeOK'
  OBVIOUS
<1> USE DEF TypeOK
<1>1. ASSUME NEW r \in Requests, RequestNext(r) PROVE TypeOK'
  <2>1. ASSUME NEW c \in Calls, DraftReads(r, c) PROVE TypeOK'
    BY <2>1 DEF DraftReads, Begins, Request
  <2>2. ASSUME NEW a \in Apps, DraftInserts(r, a) PROVE TypeOK'
    BY <2>2 DEF DraftInserts, Ends, Request
  <2>3. ASSUME NEW a \in Apps, SubmitReads(r, a) \/ EvaluationReads(r, a)
        PROVE  TypeOK'
    BY <2>3 DEF SubmitReads, EvaluationReads, CanBeEvaluated, Begins, Request
  <2>4. CASE SubmitWrites(r)
    <3> DEFINE a == request[r].on
    <3>1. a \in Apps
      BY <2>4 DEF SubmitWrites, Request
    <3>2. Records(a, "DRAFT", "SUBMITTED")
      BY <2>4, Zenon DEF SubmitWrites
    <3>3. status[a] # "ABSENT" /\ callOf[a] \in Calls
      BY <2>4, <3>1 DEF SubmitWrites
    <3>4. /\ status' \in [Apps -> ApplicationStatus \cup {"ABSENT"}]
          /\ lastEvent' \in [Apps -> [from : ApplicationStatus, to : ApplicationStatus]
                                     \cup {None}]
          /\ \A b \in Apps \ {a} : status'[b] = status[b]
          /\ status'[a] = "SUBMITTED"
      BY <3>1, <3>2, RecordsTypes
    <3> QED
      BY <2>4, <3>1, <3>3, <3>4 DEF SubmitWrites, Ends, Request
  <2>5. CASE EvaluationWrites(r)
    BY <2>5 DEF EvaluationWrites, Ends, Request
  <2>6. ASSUME NEW q \in InfoItems, ReplyReads(r, q) PROVE TypeOK'
    BY <2>6 DEF ReplyReads, Begins, Request
  <2>7. CASE ReplyWrites(r)
    BY <2>7 DEF ReplyWrites, Ends, Request
  <2>8. CASE Aborts(r)
    BY <2>8 DEF Aborts, Ends, Request
  <2> HIDE DEF TypeOK
  <2> QED
    BY <1>1, <2>1, <2>2, <2>3, <2>4, <2>5, <2>6, <2>7, <2>8 DEF RequestNext
<1>2. ASSUME NEW a \in Apps, PlainMove(a) \/ DecidingMove(a) PROVE TypeOK'
  <2>1. PICK to \in ApplicationStatus :
            /\ status[a] \in ApplicationStatus
            /\ Records(a, status[a], to)
    BY <1>2 DEF PlainMove, DecidingMove, MovesOnly
  <2>2. /\ UNCHANGED <<callOf, evaluated, infoVars, teamLocked, request>>
        /\ decided' \in [Apps -> BOOLEAN]
    BY <1>2 DEF PlainMove, DecidingMove, MovesOnly
  <2>3. /\ status' \in [Apps -> ApplicationStatus \cup {"ABSENT"}]
        /\ lastEvent' \in [Apps -> [from : ApplicationStatus, to : ApplicationStatus]
                                   \cup {None}]
        /\ \A b \in Apps \ {a} : status'[b] = status[b]
        /\ status'[a] = to
    <3> HIDE DEF TypeOK, ApplicationStatus
    <3> QED
      BY <2>1, RecordsTypes
  <2>4. status[a] # "ABSENT"
    BY <2>1
  <2> QED
    BY <2>2, <2>3, <2>4 DEF Request
<1>3. ASSUME NEW a \in Apps, NEW q \in InfoItems, CreateNeedsInfoItem(a, q)
      PROVE  TypeOK'
  BY <1>3 DEF CreateNeedsInfoItem, Askable, Records
<1>4. ASSUME NEW a \in Apps, Resubmit(a) PROVE TypeOK'
  BY <1>4 DEF Resubmit, ResolveAnswered, Records
<1>5. CASE UNCHANGED vars
  BY <1>5
<1> HIDE DEF TypeOK
<1> QED
  BY <1>1, <1>2, <1>3, <1>4, <1>5, StepKinds

\* Every column keeps its type.
THEOREM LifecycleTypes == Spec => []TypeOK
<1> QED
  BY TypeInit, TypeStep, PTL DEF Spec

-----------------------------------------------------------------------------
(***************************************************************************)
(* However many submissions overlap                                        *)
(***************************************************************************)
OverlapInv == TypeOK /\ OneApplicationPerCall /\ QuestionAwaitsAnswer

\* No application, no question.
LEMMA OverlapInit == Init => OverlapInv
<1> SUFFICES ASSUME Init PROVE OverlapInv
  OBVIOUS
<1>1. \A a \in Apps : status[a] = "ABSENT"
  BY DEF Init
<1> QED
  BY <1>1, TypeInit DEF OverlapInv, OneApplicationPerCall, HoldsSlot,
                        QuestionAwaitsAnswer

\* A move to a status that holds the slot starts from one that holds it, or is
\* let through by the index; a step to NEEDS_INFO asks a question, and only
\* resubmit resolves one.
LEMMA OverlapStep == OverlapInv /\ [Next]_vars => OverlapInv'
<1> USE NoneIsNoRow DEF vars, infoVars
<1> SUFFICES ASSUME OverlapInv, [Next]_vars PROVE OverlapInv'
  OBVIOUS
<1>0. TypeOK /\ TypeOK'
  BY TypeStep DEF OverlapInv
<1> USE DEF OverlapInv, OneApplicationPerCall, QuestionAwaitsAnswer, HoldsSlot,
            Unresolved, ItemsOf
<1>1. ASSUME NEW r \in Requests, RequestNext(r) PROVE OverlapInv'
  <2>1. ASSUME UNCHANGED <<status, callOf, infoVars>> PROVE OverlapInv'
    BY <1>0, <2>1
  <2>2. ASSUME NEW a \in Apps, DraftInserts(r, a) PROVE OverlapInv'
    BY <1>0, <2>2 DEF DraftInserts, HoldersOf, TypeOK
  <2>3. CASE SubmitWrites(r)
    <3> DEFINE a == request[r].on
    <3>1. a \in Apps
      BY <1>0, <2>3 DEF SubmitWrites, TypeOK, Request
    <3>2. /\ HoldersOf(callOf[a]) \subseteq {a}
          /\ UNCHANGED <<callOf, infoVars>>
          /\ \A b \in Apps \ {a} : status'[b] = status[b]
          /\ status'[a] = "SUBMITTED"
      <4>1. HoldersOf(callOf[a]) \subseteq {a} /\ Records(a, "DRAFT", "SUBMITTED")
        BY <2>3, Zenon DEF SubmitWrites
      <4>2. UNCHANGED <<callOf, infoVars>>
        BY <2>3 DEF SubmitWrites
      <4> QED
        BY <1>0, <3>1, <4>1, <4>2, RecordsTypes
    <3> QED
      BY <1>0, <3>1, <3>2 DEF HoldersOf
  <2>4. CASE ReplyWrites(r)
    BY <1>0, <2>4 DEF ReplyWrites, TypeOK, Request
  <2>5. ASSUME NEW a \in Apps, SubmitReads(r, a) \/ EvaluationReads(r, a)
        PROVE  UNCHANGED <<status, callOf, infoVars>>
    BY <2>5 DEF SubmitReads, EvaluationReads
  <2>6. ASSUME \/ \E c \in Calls : DraftReads(r, c)
               \/ EvaluationWrites(r)
               \/ \E q \in InfoItems : ReplyReads(r, q)
               \/ Aborts(r)
        PROVE  UNCHANGED <<status, callOf, infoVars>>
    BY <2>6 DEF DraftReads, EvaluationWrites, ReplyReads, Aborts
  <2> HIDE DEF OverlapInv
  <2> QED
    BY <1>1, <2>1, <2>2, <2>3, <2>4, <2>5, <2>6 DEF RequestNext
<1>2. ASSUME NEW a \in Apps, PlainMove(a) \/ DecidingMove(a) PROVE OverlapInv'
  <2>1. /\ UNCHANGED <<callOf, infoVars>>
        /\ \A b \in Apps \ {a} : status'[b] = status[b]
        /\ status'[a] # "NEEDS_INFO"
        /\ HoldsSlot(status[a]) \/ ~HoldsSlot(status'[a])
    BY <1>0, <1>2 DEF PlainMove, DecidingMove, MovesOnly, Records, TypeOK
  <2> QED
    BY <1>0, <2>1
<1>3. ASSUME NEW a \in Apps, NEW q \in InfoItems, CreateNeedsInfoItem(a, q)
      PROVE  OverlapInv'
  <2>1. /\ UNCHANGED callOf
        /\ \A b \in Apps \ {a} : status'[b] = status[b]
        /\ HoldsSlot(status[a])
        /\ infoStatus'[q] = "OPEN" /\ infoApp'[q] = a
        /\ infoStatus[q] = "ABSENT"
        /\ \A p \in InfoItems \ {q} : /\ infoStatus'[p] = infoStatus[p]
                                     /\ infoApp'[p] = infoApp[p]
    BY <1>0, <1>3 DEF CreateNeedsInfoItem, Askable, Records, TypeOK
  <2> QED
    BY <1>0, <2>1
<1>4. ASSUME NEW a \in Apps, Resubmit(a) PROVE OverlapInv'
  <2>1. /\ UNCHANGED <<callOf, infoApp>>
        /\ \A b \in Apps \ {a} : status'[b] = status[b]
        /\ status[a] = "NEEDS_INFO" /\ status'[a] = "EVALUATING"
        /\ \A q \in InfoItems : infoApp[q] # a => infoStatus'[q] = infoStatus[q]
    BY <1>0, <1>4 DEF Resubmit, ResolveAnswered, Records, TypeOK
  <2> QED
    BY <1>0, <2>1
<1>5. CASE UNCHANGED vars
  BY <1>0, <1>5
<1> HIDE DEF OverlapInv
<1> QED
  BY <1>1, <1>2, <1>3, <1>4, <1>5, StepKinds

\* For one call a team has one application that is neither rejected nor
\* archived, also while submissions overlap.
THEOREM CallHasOneApplication == Spec => []OneApplicationPerCall
<1>1. OverlapInv => OneApplicationPerCall
  BY DEF OverlapInv
<1> QED
  BY <1>1, OverlapInit, OverlapStep, PTL DEF Spec

\* An application in NEEDS_INFO always has a question to resolve.
THEOREM NeedsInfoHasQuestion == Spec => []QuestionAwaitsAnswer
<1>1. OverlapInv => QuestionAwaitsAnswer
  BY DEF OverlapInv
<1> QED
  BY <1>1, OverlapInit, OverlapStep, PTL DEF Spec

-----------------------------------------------------------------------------
(***************************************************************************)
(* One submission at a time                                                *)
(***************************************************************************)
OneSubmitter == \A r, s \in Submitters : r = s

\* A submission in flight still finds the draft it read.
SubmissionFindsDraft ==
    \A r \in Requests :
        request[r].doing = "submit" =>
            r \in Submitters /\ status[request[r].on] = "DRAFT"

\* The newest event ends where the application is.
TimelineEndsAtStatus ==
    \A a \in Apps : lastEvent[a] # None => lastEvent[a].to = status[a]

SerialInv ==
    /\ OverlapInv
    /\ SubmissionFindsDraft
    /\ TimelineEndsAtStatus
    /\ NoForgottenQuestion
    /\ DecidedWhenDated

\* Nothing is in flight and nothing was decided.
LEMMA SerialInit == Init => SerialInv
<1> SUFFICES ASSUME Init PROVE SerialInv
  OBVIOUS
<1>1. /\ \A a \in Apps : /\ status[a] = "ABSENT"
                         /\ lastEvent[a] = None
                         /\ decided[a] = FALSE
      /\ \A q \in InfoItems : infoStatus[q] = "ABSENT"
      /\ \A r \in Requests : request[r].doing = "idle"
  BY DEF Init
<1>2. /\ SubmissionFindsDraft
      /\ TimelineEndsAtStatus
      /\ NoForgottenQuestion
  BY <1>1 DEF SubmissionFindsDraft, TimelineEndsAtStatus, NoForgottenQuestion,
              Unresolved, ItemsOf
<1>3. DecidedWhenDated
  BY <1>1 DEF DecidedWhenDated, Granted
<1> QED
  BY <1>2, <1>3, OverlapInit DEF SerialInv

\* What a step does to one application, seen from the rows of its parts.
LEMMA SerialStep ==
    ASSUME OneSubmitter, SerialInv, [Next]_vars
    PROVE  SerialInv'
<1> USE NoneIsNoRow, SubmitterAssumption DEF vars, infoVars
<1>0. TypeOK /\ TypeOK' /\ OverlapInv'
  BY OverlapStep DEF SerialInv, OverlapInv
<1> DEFINE Parts == /\ SubmissionFindsDraft
                    /\ TimelineEndsAtStatus
                    /\ NoForgottenQuestion
                    /\ DecidedWhenDated
<1> USE DEF SerialInv, SubmissionFindsDraft, TimelineEndsAtStatus, NoForgottenQuestion,
            DecidedWhenDated, Unresolved, ItemsOf, Granted
<1>1. ASSUME NEW r \in Requests, RequestNext(r) PROVE Parts'
  <2>1. ASSUME NEW c \in Calls, DraftReads(r, c) PROVE Parts'
    BY <1>0, <2>1 DEF DraftReads, Begins, TypeOK
  <2>2. ASSUME NEW a \in Apps, DraftInserts(r, a) PROVE Parts'
    BY <1>0, <2>2 DEF DraftInserts, Ends, TypeOK, Request
  <2>3. ASSUME NEW a \in Apps, SubmitReads(r, a) PROVE Parts'
    BY <1>0, <2>3 DEF SubmitReads, Begins, TypeOK
  <2>4. CASE SubmitWrites(r)
    <3> DEFINE a == request[r].on
    <3>1. /\ a \in Apps
          /\ status[a] = "DRAFT"
          /\ r \in Submitters
      BY <1>0, <2>4 DEF SubmitWrites, TypeOK, Request
    <3>2. /\ UNCHANGED <<decided, infoVars>>
          /\ \A b \in Apps \ {a} : /\ status'[b] = status[b]
                                   /\ lastEvent'[b] = lastEvent[b]
          /\ status'[a] = "SUBMITTED"
          /\ lastEvent'[a].to = "SUBMITTED"
          /\ request'[r] = Idle
          /\ \A s \in Requests \ {r} : request'[s] = request[s]
      BY <1>0, <2>4, <3>1 DEF SubmitWrites, Records, Ends, TypeOK
    <3>3. \A s \in Requests \ {r} : request[s].doing # "submit"
      BY <3>1 DEF OneSubmitter
    <3>4. SubmissionFindsDraft'
      BY <1>0, <3>1, <3>2, <3>3
    <3>5. (TimelineEndsAtStatus /\ DecidedWhenDated)'
      BY <1>0, <3>1, <3>2
    <3>6. NoForgottenQuestion'
      BY <1>0, <3>1, <3>2 DEF TypeOK
    <3> QED
      BY <3>4, <3>5, <3>6
  <2>5. ASSUME NEW a \in Apps, EvaluationReads(r, a) PROVE Parts'
    BY <1>0, <2>5 DEF EvaluationReads, Begins, TypeOK
  <2>6. CASE EvaluationWrites(r)
    BY <1>0, <2>6 DEF EvaluationWrites, Ends, TypeOK
  <2>7. ASSUME NEW q \in InfoItems, ReplyReads(r, q) PROVE Parts'
    BY <1>0, <2>7 DEF ReplyReads, Begins, TypeOK
  <2>8. CASE ReplyWrites(r)
    BY <1>0, <2>8 DEF ReplyWrites, Ends, TypeOK, Request
  <2>9. CASE Aborts(r)
    BY <1>0, <2>9 DEF Aborts, Ends, TypeOK
  <2> HIDE DEF Parts
  <2> QED
    BY <1>1, <2>1, <2>2, <2>3, <2>4, <2>5, <2>6, <2>7, <2>8, <2>9 DEF RequestNext
<1>2. ASSUME NEW a \in Apps, PlainMove(a) \/ DecidingMove(a) PROVE Parts'
  <2>1. /\ UNCHANGED <<infoVars, request>>
        /\ \A b \in Apps \ {a} : /\ status'[b] = status[b]
                                 /\ lastEvent'[b] = lastEvent[b]
                                 /\ decided'[b] = decided[b]
        /\ status[a] \notin {"ABSENT", "DRAFT"}
        /\ status[a] = "NEEDS_INFO" => status'[a] = "REJECTED"
        /\ status[a] # "REJECTED"
        /\ lastEvent'[a].to = status'[a]
        /\ decided'[a] <=> status'[a] \in Granted \cup {"REJECTED"}
    BY <1>0, <1>2 DEF PlainMove, DecidingMove, MovesOnly, Records, TypeOK
  <2> QED
    BY <1>0, <2>1 DEF TypeOK, Request
<1>3. ASSUME NEW a \in Apps, NEW q \in InfoItems, CreateNeedsInfoItem(a, q)
      PROVE  Parts'
  <2>1. /\ UNCHANGED <<decided, request>>
        /\ \A b \in Apps \ {a} : /\ status'[b] = status[b]
                                 /\ lastEvent'[b] = lastEvent[b]
        /\ status[a] \in Askable
        /\ status'[a] = "NEEDS_INFO"
        /\ lastEvent'[a].to = status'[a]
        /\ infoStatus'[q] = "OPEN" /\ infoApp'[q] = a
        /\ infoStatus[q] = "ABSENT"
        /\ \A p \in InfoItems \ {q} : /\ infoStatus'[p] = infoStatus[p]
                                     /\ infoApp'[p] = infoApp[p]
    BY <1>0, <1>3 DEF CreateNeedsInfoItem, Askable, Records, TypeOK
  <2>2. Unresolved(a) = {}
    BY <2>1 DEF Askable
  <2>3. NoForgottenQuestion'
    <3>1. \A p \in Unresolved(a)' : p = q
      BY <2>1, <2>2
    <3>2. \A b \in Apps \ {a} : \A p \in Unresolved(b)' : p \in Unresolved(b)
      BY <2>1
    <3> QED
      BY <1>0, <2>1, <3>1, <3>2
  <2>4. SubmissionFindsDraft'
    <3>1. \A r \in Requests : request[r].doing = "submit" => request[r].on \in Apps
      BY <1>0 DEF TypeOK, Request
    <3>2. status[a] # "DRAFT"
      BY <2>1 DEF Askable
    <3> QED
      BY <2>1, <3>1, <3>2
  <2>5. TimelineEndsAtStatus'
    BY <2>1
  <2>6. DecidedWhenDated'
    BY <2>1 DEF Askable
  <2> QED
    BY <2>3, <2>4, <2>5, <2>6
<1>4. ASSUME NEW a \in Apps, Resubmit(a) PROVE Parts'
  <2>1. /\ UNCHANGED <<decided, request, infoApp>>
        /\ \A b \in Apps \ {a} : /\ status'[b] = status[b]
                                 /\ lastEvent'[b] = lastEvent[b]
        /\ status[a] = "NEEDS_INFO" /\ status'[a] = "EVALUATING"
        /\ lastEvent'[a].to = status'[a]
        /\ \A q \in InfoItems : infoApp[q] # a => infoStatus'[q] = infoStatus[q]
        /\ \A q \in InfoItems : infoApp[q] = a =>
                                    infoStatus'[q] \in {"ABSENT", "RESOLVED"}
    BY <1>0, <1>4 DEF Resubmit, ResolveAnswered, Records, TypeOK
  <2> QED
    BY <1>0, <2>1 DEF TypeOK, Request
<1>5. ASSUME UNCHANGED vars PROVE Parts'
  <2>1. (SubmissionFindsDraft /\ TimelineEndsAtStatus)'
    BY <1>5
  <2>2. (NoForgottenQuestion /\ DecidedWhenDated)'
    BY <1>5
  <2> QED
    BY <2>1, <2>2
<1>6. Parts'
  <2> HIDE DEF Parts, SerialInv, SubmissionFindsDraft, TimelineEndsAtStatus,
               NoForgottenQuestion, DecidedWhenDated
  <2> QED
    BY <1>1, <1>2, <1>3, <1>4, <1>5, StepKinds
<1> QED
  BY <1>0, <1>6

\* With one submission at a time the strengthened invariant always holds.
LEMMA SerialHolds ==
    ASSUME OneSubmitter
    PROVE  Spec => []SerialInv
<1>1. SerialInv /\ [Next]_vars => SerialInv'
  BY SerialStep
<1> QED
  BY SerialInit, <1>1, PTL DEF Spec

\* A review that goes on has no forgotten question.
THEOREM ReviewForgetsNothing ==
    ASSUME OneSubmitter
    PROVE  Spec => []NoForgottenQuestion
<1>1. SerialInv => NoForgottenQuestion
  BY DEF SerialInv
<1> QED
  BY SerialHolds, <1>1, PTL

\* decidedAt is set on the decided applications and on no others.
THEOREM DecisionsAreDated ==
    ASSUME OneSubmitter
    PROVE  Spec => []DecidedWhenDated
<1>1. SerialInv => DecidedWhenDated
  BY DEF SerialInv
<1> QED
  BY SerialHolds, <1>1, PTL

\* With one submission in flight, every event begins at the status it leaves.
LEMMA EventsFollowStatus ==
    ASSUME SerialInv, [Next]_vars
    PROVE  \/ \E b \in Apps, to \in ApplicationStatus : Records(b, status[b], to)
           \/ \E b \in Apps : /\ status[b] = "ABSENT"
                              /\ status' = [status EXCEPT ![b] = "DRAFT"]
                              /\ UNCHANGED lastEvent
           \/ UNCHANGED <<status, lastEvent>>
<1>0. TypeOK
  BY DEF SerialInv, OverlapInv
<1>1. ASSUME NEW r \in Requests, SubmitWrites(r)
      PROVE  request[r].on \in Apps /\ Records(request[r].on, status[request[r].on], "SUBMITTED")
  <2>1. request[r].on \in Apps /\ status[request[r].on] = "DRAFT"
    BY <1>0, <1>1 DEF SubmitWrites, TypeOK, Request, SerialInv, SubmissionFindsDraft
  <2> QED
    BY <1>1, <2>1, Zenon DEF SubmitWrites
<1>2. ASSUME NEW r \in Requests, NEW a \in Apps, DraftInserts(r, a)
      PROVE  /\ status[a] = "ABSENT"
             /\ status' = [status EXCEPT ![a] = "DRAFT"]
             /\ UNCHANGED lastEvent
  BY <1>2 DEF DraftInserts
<1>3. ASSUME NEW r \in Requests,
             \/ \E c \in Calls : DraftReads(r, c)
             \/ \E a \in Apps : SubmitReads(r, a) \/ EvaluationReads(r, a)
             \/ EvaluationWrites(r)
             \/ \E q \in InfoItems : ReplyReads(r, q)
             \/ ReplyWrites(r)
             \/ Aborts(r)
      PROVE  UNCHANGED <<status, lastEvent>>
  BY <1>3 DEF DraftReads, SubmitReads, EvaluationReads, EvaluationWrites,
              ReplyReads, ReplyWrites, Aborts
<1>4. ASSUME NEW a \in Apps,
             \/ PlainMove(a)
             \/ DecidingMove(a)
             \/ \E q \in InfoItems : CreateNeedsInfoItem(a, q)
             \/ Resubmit(a)
      PROVE  \E to \in ApplicationStatus : Records(a, status[a], to)
  <2>1. PlainMove(a) => \E to \in ApplicationStatus : Records(a, status[a], to)
    BY Zenon DEF PlainMove, MovesOnly
  <2>2. DecidingMove(a) => \E to \in ApplicationStatus : Records(a, status[a], to)
    BY Zenon DEF DecidingMove, MovesOnly
  <2>3. ASSUME NEW q \in InfoItems, CreateNeedsInfoItem(a, q)
        PROVE  Records(a, status[a], "NEEDS_INFO")
    BY <2>3, Zenon DEF CreateNeedsInfoItem
  <2>4. Resubmit(a) => Records(a, status[a], "EVALUATING")
    BY Zenon DEF Resubmit
  <2> QED
    BY <1>4, <2>1, <2>2, <2>3, <2>4
<1>5. UNCHANGED vars => UNCHANGED <<status, lastEvent>>
  BY DEF vars
<1> QED
  BY <1>1, <1>2, <1>3, <1>4, <1>5, StepKinds, Zenon DEF RequestNext

\* The status events of an application are its unbroken history.
THEOREM TimelineIsHistory ==
    ASSUME OneSubmitter
    PROVE  Spec => TimelineIsUnbroken
<1> DEFINE Unbroken ==
      \A a \in Apps :
          /\ lastEvent'[a] # lastEvent[a] =>
                lastEvent'[a] = [from |-> status[a], to |-> status'[a]]
          /\ status'[a] # status[a] =>
                \/ status[a] = "ABSENT"
                \/ lastEvent'[a] # lastEvent[a]
<1>1. SerialInv /\ [Next]_vars => [Unbroken]_vars
  <2> SUFFICES ASSUME SerialInv, [Next]_vars PROVE Unbroken
    OBVIOUS
  <2>0. /\ status \in [Apps -> ApplicationStatus \cup {"ABSENT"}]
        /\ lastEvent \in [Apps -> StatusEvent \cup {None}]
    BY Zenon DEF SerialInv, OverlapInv, TypeOK
  <2>1. ASSUME NEW b \in Apps, NEW to \in ApplicationStatus, Records(b, status[b], to)
        PROVE  Unbroken
    <3>1. /\ \A a \in Apps : status'[a] = IF a = b THEN to ELSE status[a]
          /\ \A a \in Apps : lastEvent'[a] = IF a = b THEN [from |-> status[b], to |-> to]
                                                   ELSE lastEvent[a]
      BY <2>0, <2>1, Zenon DEF Records
    <3>2. ASSUME to # status[b], status[b] # "ABSENT"
          PROVE  [from |-> status[b], to |-> to] # lastEvent[b]
      <4>1. [from |-> status[b], to |-> to] \in StatusEvent
        BY <2>0, <3>2
      <4>2. lastEvent[b] # None => lastEvent[b].to = status[b]
        BY DEF SerialInv, TimelineEndsAtStatus
      <4> QED
        BY <3>2, <4>1, <4>2, NoneIsNoEvent
    <3> QED
      BY <3>1, <3>2
  <2>2. ASSUME NEW b \in Apps, status[b] = "ABSENT",
               status' = [status EXCEPT ![b] = "DRAFT"], UNCHANGED lastEvent
        PROVE  Unbroken
    BY <2>0, <2>2
  <2>3. ASSUME UNCHANGED <<status, lastEvent>> PROVE Unbroken
    BY <2>3
  <2> QED
    BY <2>1, <2>2, <2>3, EventsFollowStatus
<1> HIDE DEF Unbroken
<1>2. Spec => [][Unbroken]_vars
  BY SerialHolds, <1>1, PTL DEF Spec
<1> QED
  BY <1>2 DEF Unbroken, TimelineIsUnbroken

-----------------------------------------------------------------------------
(***************************************************************************)
(* The service implements ApplicationCase                                  *)
(***************************************************************************)
Phases == [a \in Apps |-> PhaseOf(status[a])]

\* The phase of every status.
LEMMA PhaseValues ==
    /\ PhaseOf("ABSENT") = "none"
    /\ PhaseOf("DRAFT") = "preparing"
    /\ \A s \in Askable : PhaseOf(s) = "review"
    /\ PhaseOf("NEEDS_INFO") = "question"
    /\ PhaseOf("REJECTED") = "refused"
    /\ PhaseOf("ARCHIVED") = "filed"
    /\ \A s \in Granted \ {"ARCHIVED"} : PhaseOf(s) = "granted"
  BY DEF PhaseOf, Askable, Granted

\* An application leaves the slot of its call in the closed phases.
LEMMA ClosedPhases ==
    ASSUME NEW s \in ApplicationStatus \cup {"ABSENT"}
    PROVE  PhaseOf(s) \in Case!Closed <=> ~HoldsSlot(s)
  BY DEF PhaseOf, Askable, HoldsSlot, Case!Closed

\* A step that moves one application moves its phase and no other.
LEMMA PhaseMoves ==
    ASSUME NEW a \in Apps, NEW to, status \in [Apps -> ApplicationStatus \cup {"ABSENT"}],
           status' = [status EXCEPT ![a] = to]
    PROVE  Phases' = [Phases EXCEPT ![a] = PhaseOf(to)]
<1>1. \A b \in Apps : status'[b] = IF b = a THEN to ELSE status[b]
  BY Zenon
<1>2. \A b \in Apps : PhaseOf(status[b])' = IF b = a THEN PhaseOf(to)
                                                     ELSE PhaseOf(status[b])
  BY <1>1 DEF PhaseOf
<1> QED
  BY <1>2 DEF Phases

\* With nothing prepared, every phase is "none".
LEMMA PromiseInit == Init => Case!Init
<1> SUFFICES ASSUME Init PROVE Case!Init
  OBVIOUS
<1>1. Phases = [a \in Apps |-> "none"]
  BY PhaseValues DEF Init, Phases
<1> QED
  BY <1>1 DEF Init, Phases, Case!Init

\* Every step of the service is a step of ApplicationCase or changes no phase.
LEMMA PromiseStep ==
    ASSUME SerialInv, [Next]_vars
    PROVE  [Case!Next]_(Case!vars)
<1>0. TypeOK
  BY DEF SerialInv, OverlapInv
<1> DEFINE Moved(a, to) == Phases' = [Phases EXCEPT ![a] = to]
<1>1. ASSUME UNCHANGED <<status, callOf>> PROVE UNCHANGED Case!vars
  BY <1>1 DEF Case!vars, PhaseOf
<1>2. ASSUME NEW a \in Apps, NEW from, NEW to, PhaseOf(status[a]) = from,
             Moved(a, to), UNCHANGED callOf,
             \/ from = "preparing" /\ to = "review"
             \/ from = "review" /\ to \in {"question", "granted", "refused"}
             \/ from = "question" /\ to \in {"review", "refused"}
             \/ from = "granted" /\ to = "filed"
      PROVE  Case!Next
  <2>1. Phases[a] = from
    BY <1>2 DEF Phases
  <2> QED
    BY <1>2, <2>1 DEF Phases, Case!Next, Case!Moves
<1>3. ASSUME NEW a \in Apps, Moved(a, PhaseOf(status[a])), UNCHANGED callOf
      PROVE  UNCHANGED Case!vars
  <2>1. Phases' = Phases
    BY <1>3 DEF Phases
  <2> QED
    BY <1>3, <2>1 DEF Phases, Case!vars
<1>4. ASSUME NEW a \in Apps, NEW to, Records(a, status[a], to)
      PROVE  Moved(a, PhaseOf(to))
  BY <1>0, <1>4, PhaseMoves DEF Records, TypeOK
<1>5. ASSUME NEW r \in Requests, RequestNext(r) PROVE [Case!Next]_(Case!vars)
  <2>1. ASSUME NEW a \in Apps, DraftInserts(r, a) PROVE Case!Next
    <3> DEFINE c == request[r].on
    <3>1. /\ c \in Calls
          /\ status[a] = "ABSENT"
          /\ status' = [status EXCEPT ![a] = "DRAFT"]
          /\ callOf' = [callOf EXCEPT ![a] = c]
          /\ HoldersOf(c) = {}
      BY <1>0, <2>1 DEF DraftInserts, TypeOK, Request
    <3>2. Moved(a, "preparing") /\ Phases[a] = "none"
      BY <1>0, <3>1, PhaseMoves, PhaseValues DEF Phases, TypeOK
    <3>3. \A b \in Apps : callOf[b] = c => Phases[b] \in Case!Closed
      BY <1>0, <3>1, ClosedPhases DEF Phases, HoldersOf, TypeOK
    <3>4. Case!Prepare(a, c)
      BY <3>1, <3>2, <3>3 DEF Case!Prepare, Phases
    <3> QED
      BY <3>1, <3>4 DEF Case!Next
  <2>2. ASSUME SubmitWrites(r) PROVE Case!Next
    <3> DEFINE a == request[r].on
    <3>1. /\ a \in Apps
          /\ status[a] = "DRAFT"
      BY <1>0, <2>2 DEF SubmitWrites, TypeOK, Request, SerialInv, SubmissionFindsDraft
    <3>2. Records(a, status[a], "SUBMITTED") /\ UNCHANGED callOf
      BY <2>2, <3>1, Zenon DEF SubmitWrites
    <3>3. PhaseOf(status[a]) = "preparing" /\ PhaseOf("SUBMITTED") = "review"
      BY <3>1, PhaseValues DEF Askable
    <3> QED
      BY <1>2, <1>4, <3>1, <3>2, <3>3
  <2>3. ASSUME NEW a \in Apps, SubmitReads(r, a) \/ EvaluationReads(r, a)
        PROVE  UNCHANGED <<status, callOf>>
    BY <2>3 DEF SubmitReads, EvaluationReads
  <2>4. ASSUME \/ \E c \in Calls : DraftReads(r, c)
               \/ EvaluationWrites(r)
               \/ \E q \in InfoItems : ReplyReads(r, q)
               \/ ReplyWrites(r)
               \/ Aborts(r)
        PROVE  UNCHANGED <<status, callOf>>
    BY <2>4 DEF DraftReads, EvaluationWrites, ReplyReads, ReplyWrites, Aborts
  <2> QED
    BY <1>1, <1>5, <2>1, <2>2, <2>3, <2>4 DEF RequestNext
<1>6. ASSUME NEW a \in Apps, PlainMove(a) PROVE [Case!Next]_(Case!vars)
  <2>1. UNCHANGED callOf
    BY <1>6 DEF PlainMove, MovesOnly
  <2>2. PICK to : /\ Records(a, status[a], to)
                  /\ \/ status[a] \in Askable /\ to \in Askable
                     \/ status[a] \in Granted \ {"ARCHIVED"} /\ to \in Granted
    BY <1>6 DEF PlainMove, MovesOnly, Askable, Granted
  <2>3. CASE PhaseOf(to) = PhaseOf(status[a])
    BY <1>3, <1>4, <2>1, <2>2, <2>3
  <2>4. CASE PhaseOf(status[a]) = "granted" /\ PhaseOf(to) = "filed"
    BY <1>2, <1>4, <2>1, <2>2, <2>4
  <2> QED
    BY <2>2, <2>3, <2>4, PhaseValues
<1>7. ASSUME NEW a \in Apps, DecidingMove(a) PROVE Case!Next
  <2>1. UNCHANGED callOf
    BY <1>7 DEF DecidingMove, MovesOnly
  <2>2. PICK to : /\ Records(a, status[a], to)
                  /\ \/ status[a] \in Askable /\ to \in {"APPROVED", "REJECTED"}
                     \/ status[a] = "NEEDS_INFO" /\ to = "REJECTED"
    BY <1>7 DEF DecidingMove, MovesOnly, Askable
  <2>3. \/ PhaseOf(status[a]) = "review" /\ PhaseOf(to) \in {"granted", "refused"}
        \/ PhaseOf(status[a]) = "question" /\ PhaseOf(to) = "refused"
    BY <2>2, PhaseValues DEF Granted
  <2> QED
    BY <1>2, <1>4, <2>1, <2>2, <2>3
<1>8. ASSUME NEW a \in Apps, NEW q \in InfoItems, CreateNeedsInfoItem(a, q)
      PROVE  Case!Next
  <2>1. UNCHANGED callOf /\ Records(a, status[a], "NEEDS_INFO") /\ status[a] \in Askable
    BY <1>8, Zenon DEF CreateNeedsInfoItem
  <2>2. PhaseOf(status[a]) = "review" /\ PhaseOf("NEEDS_INFO") = "question"
    BY <2>1, PhaseValues
  <2> QED
    BY <1>2, <1>4, <2>1, <2>2
<1>9. ASSUME NEW a \in Apps, Resubmit(a) PROVE Case!Next
  <2>1. UNCHANGED callOf /\ Records(a, status[a], "EVALUATING")
        /\ status[a] = "NEEDS_INFO"
    BY <1>9, Zenon DEF Resubmit
  <2>2. PhaseOf(status[a]) = "question" /\ PhaseOf("EVALUATING") = "review"
    BY <2>1, PhaseValues DEF Askable
  <2> QED
    BY <1>2, <1>4, <2>1, <2>2
<1>10. ASSUME UNCHANGED vars PROVE UNCHANGED <<status, callOf>>
  BY <1>10 DEF vars
<1> HIDE DEF Moved
<1> QED
  BY <1>1, <1>5, <1>6, <1>7, <1>8, <1>9, <1>10, StepKinds

\* When a team sends one submission at a time, Program A keeps its promise:
\* reviewed once, decided once, and never reopened.
THEOREM PromiseIsKept ==
    ASSUME OneSubmitter
    PROVE  Spec => KeepsPromise
<1>1. SerialInv /\ [Next]_vars => [Case!Next]_(Case!vars)
  BY PromiseStep
<1> QED
  BY SerialHolds, PromiseInit, <1>1, PTL DEF Spec, KeepsPromise, Case!Spec

-----------------------------------------------------------------------------
(***************************************************************************)
(* Mentoring and conversations                                             *)
(***************************************************************************)

\* The work leaves the life of the applications as it is, so all that is
\* proved of Spec holds of WorkSpec.
THEOREM WorkLeavesLife == WorkSpec => Spec
<1>1. WorkInit => Init
  BY DEF WorkInit
<1>2. [\/ Next /\ UNCHANGED workVars
       \/ WorkNext /\ UNCHANGED vars]_allVars => [Next]_vars
  BY DEF allVars
<1> QED
  BY <1>1, <1>2, PTL DEF WorkSpec, Spec

\* The fields of a visit on its way.
LEMMA VisitFields ==
    ASSUME WorkTypeOK, NEW v \in Visits
    PROVE  /\ visit[v] \in Visit
           /\ visit[v].doing = "mentor" =>
                 visit[v].on \in Apps /\ visit[v].to \in Mentors
           /\ visit[v].doing \in {"note", "milestone", "progress"} =>
                 visit[v].on \in Apps /\ visit[v].by \in Users /\ visit[v].to = None
           /\ visit[v].doing = "post" =>
                 visit[v].on \in Anchors /\ visit[v].by \in Users /\ visit[v].to \in Channels
           /\ visit[v].doing \in {"load", "edit", "delete"} =>
                 visit[v].on \in Rows /\ visit[v].by \in Users /\ visit[v].to = None
<1>1. visit[v] \in Visit
  BY DEF WorkTypeOK
<1> QED
  BY <1>1 DEF Visit, NoVisit

\* What an insertion, and a change of a message or milestone, stores is a row.
LEMMA RowsStored ==
    ASSUME WorkTypeOK, NEW w \in Rows
    PROVE  /\ \A a \in Apps, u \in Users, kind \in {"note", "milestone"} :
                 NewRow(kind, a, None, u) \in Row
           /\ \A x \in Anchors, ch \in Channels, u \in Users :
                 NewRow("message", x, ch, u) \in Row
           /\ row[w] # None => row[w] \in Row
           /\ row[w] # None /\ row[w].kind = "milestone" => [row[w] EXCEPT !.edited = TRUE] \in Row
           /\ row[w] # None /\ row[w].kind = "message" =>
                 /\ [row[w] EXCEPT !.edited = TRUE] \in Row
                 /\ [row[w] EXCEPT !.deleted = TRUE] \in Row
<1>1. \A a \in Apps, u \in Users, kind \in {"note", "milestone"} :
         NewRow(kind, a, None, u) \in Row
  BY DEF NewRow, Row
<1>2. \A x \in Anchors, ch \in Channels, u \in Users :
         NewRow("message", x, ch, u) \in Row
  BY DEF NewRow, Row
<1>3. row[w] # None => row[w] \in Row
  BY DEF WorkTypeOK
<1>4. ASSUME row[w] \in Row, row[w].kind = "milestone"
      PROVE  [row[w] EXCEPT !.edited = TRUE] \in Row
  BY <1>4 DEF Row
<1>5. ASSUME row[w] \in Row, row[w].kind = "message"
      PROVE  /\ [row[w] EXCEPT !.edited = TRUE] \in Row
             /\ [row[w] EXCEPT !.deleted = TRUE] \in Row
  BY <1>5 DEF Row
<1> QED
  BY <1>1, <1>2, <1>3, <1>4, <1>5

\* The groups are no mentors, and applications, projects and rows differ.
LEMMA WorkDomains ==
    /\ None \notin Mentors /\ None \notin Anchors /\ None \notin Rows
    /\ "admin" \notin Mentors /\ "insider" \notin Mentors /\ "client" \notin Mentors
    /\ Groups \subseteq Users /\ Mentors \subseteq Users
    /\ \A p \in Projects : p \notin Apps /\ p \in Anchors
    /\ \A a \in Apps : a \in Anchors
  BY MentorAssumption, AnchorAssumption, NoneIsNoRow DEF Groups, Users, Anchors

\* A row stays what it is about: nothing is deleted, and no change touches the
\* fields that say what a row belongs to.
RowsStay ==
    \A w \in Rows : row[w] # None =>
        row'[w] # None /\ row'[w].kind = row[w].kind /\ row'[w].on = row[w].on

\* A visit ends and rows stay: what is left keeps its types.
LEMMA WorkTypeLeaves ==
    ASSUME WorkTypeOK, NEW v \in Visits, Leaves(v), RowsStay,
           row' \in [Rows -> Row \cup {None}],
           mentor' \in [Anchors -> Mentors \cup {None}], closed' \subseteq Projects
    PROVE  WorkTypeOK'
<1>1. visit' \in [Visits -> Visit]
  BY DEF WorkTypeOK, Leaves, Visit
<1>2. \A x \in Visits : visit'[x].doing \in {"load", "edit", "delete"} =>
                           visit'[x] = visit[x] /\ visit[x].on \in Rows
  <2> SUFFICES ASSUME NEW x \in Visits, visit'[x].doing \in {"load", "edit", "delete"}
               PROVE  visit'[x] = visit[x] /\ visit[x].on \in Rows
    OBVIOUS
  <2>1. x # v
    BY DEF Leaves, NoVisit, WorkTypeOK
  <2> QED
    BY <2>1, VisitFields DEF Leaves, WorkTypeOK
<1> QED
  BY <1>1, <1>2 DEF WorkTypeOK, RowsStay

\* A visit that arrives, or goes on, at something it may be about.
LEMMA WorkTypeArrives ==
    ASSUME WorkTypeOK, NEW v \in Visits, NEW e \in Visit,
           visit' = [visit EXCEPT ![v] = e],
           e.doing \in {"load", "edit", "delete"} =>
              row[e.on] # None /\ row[e.on].kind = "message",
           UNCHANGED <<mentor, row, closed>>
    PROVE  WorkTypeOK'
<1>1. visit' \in [Visits -> Visit]
  BY DEF WorkTypeOK
<1>2. \A x \in Visits : visit'[x] = IF x = v THEN e ELSE visit[x]
  BY DEF WorkTypeOK
<1> QED
  BY <1>1, <1>2 DEF WorkTypeOK

LEMMA WorkTypeInit == WorkInit => WorkTypeOK
  BY DEF WorkInit, WorkTypeOK, Visit, NoVisit

\* An insertion stores a row and keeps the others.
LEMMA InsertsKeeps ==
    ASSUME WorkTypeOK, NEW v \in Visits, NEW w \in Rows, NEW kind, Inserts(v, w, kind),
           NewRow(kind, visit[v].on, visit[v].to, visit[v].by) \in Row
    PROVE  RowsStay /\ row' \in [Rows -> Row \cup {None}]
<1> DEFINE n == NewRow(kind, visit[v].on, visit[v].to, visit[v].by)
<1>1. row[w] = None /\ row' = [row EXCEPT ![w] = n] /\ n \in Row
  BY DEF Inserts
<1> HIDE DEF n
<1> QED
  BY <1>1 DEF RowsStay, WorkTypeOK

\* So does a change of one.
LEMMA ChangeKeeps ==
    ASSUME WorkTypeOK, NEW w \in Rows, row[w] # None,
           \/ row' = [row EXCEPT ![w].edited = TRUE]
           \/ row[w].kind = "message" /\ row' = [row EXCEPT ![w].deleted = TRUE],
           row[w].kind \in {"milestone", "message"}
    PROVE  /\ RowsStay
           /\ row' \in [Rows -> Row \cup {None}]
<1>1. row[w] \in Row
  BY RowsStored
<1>2. CASE row' = [row EXCEPT ![w].edited = TRUE]
  <2> DEFINE e == [row[w] EXCEPT !.edited = TRUE]
  <2>1. row' = [row EXCEPT ![w] = e]
    BY <1>2, Zenon
  <2>2. e \in Row
    BY RowsStored, Zenon
  <2>3. e.kind = row[w].kind /\ e.on = row[w].on
    BY <1>1 DEF Row
  <2> HIDE DEF e
  <2> QED
    BY <2>1, <2>2, <2>3, NoneIsNoRecord DEF RowsStay, WorkTypeOK
<1>3. CASE row[w].kind = "message" /\ row' = [row EXCEPT ![w].deleted = TRUE]
  <2> DEFINE e == [row[w] EXCEPT !.deleted = TRUE]
  <2>1. row' = [row EXCEPT ![w] = e]
    BY <1>3, Zenon
  <2>2. e \in Row
    BY <1>3, RowsStored, Zenon
  <2>3. e.kind = row[w].kind /\ e.on = row[w].on
    BY <1>1 DEF Row
  <2> HIDE DEF e
  <2> QED
    BY <2>1, <2>2, <2>3, NoneIsNoRecord DEF RowsStay, WorkTypeOK
<1> QED
  BY <1>2, <1>3

\* A visit passes a check: what it is about is as it must be, and the ground of
\* its user's right is there.
PassesCheck(v, e) ==
    /\ visit' = [visit EXCEPT ![v] = e]
    /\ UNCHANGED <<mentor, row, closed>>
    /\ e.doing \in {"mentor", "note", "milestone", "progress", "post"} =>
          ~GroundGone(e.by, e.on)
    /\ e.doing \in {"mentor", "milestone"} => status[e.on] \in Granted
    /\ e.doing = "note" => mentor[e.on] # None
    /\ e.doing \in {"load", "edit", "delete"} =>
          row[e.on] # None /\ row[e.on].kind = "message"
    /\ e.doing \in {"edit", "delete"} => ~GroundGone(e.by, row[e.on].on)

\* A visit writes a row about what it is about.
WritesRow(v, w) ==
    /\ \A x \in Rows \ {w} : row'[x] = row[x]
    /\ \/ /\ visit[v].doing \in {"note", "milestone", "post"}
          /\ row[w] = None
          /\ row'[w].on = visit[v].on
          /\ row'[w].kind = "milestone" => visit[v].doing = "milestone"
          /\ row'[w].kind = "note" => visit[v].doing = "note"
       \/ /\ row[w] # None
          /\ \/ visit[v].doing = "progress" /\ visit[v].on = row[w].on
             \/ visit[v].doing \in {"edit", "delete"} /\ visit[v].on = w

\* A visit ends, having written the application, a row or nothing.
EndsVisit(v) ==
    /\ Leaves(v)
    /\ UNCHANGED closed
    /\ RowsStay
    /\ row' \in [Rows -> Row \cup {None}]
    /\ \/ UNCHANGED <<mentor, row>>
       \/ /\ visit[v].doing = "mentor"
          /\ mentor' = [mentor EXCEPT ![visit[v].on] = visit[v].to]
          /\ UNCHANGED row
       \/ UNCHANGED mentor /\ \E w \in Rows : WritesRow(v, w)

\* Who may write about x has a ground.
LEMMA RightsHaveGround ==
    ASSUME WorkTypeOK, NEW u \in Users, NEW x \in Anchors, NEW channel
    PROVE  /\ WritableA(u, x, channel) /\ x \in Apps => ~GroundGone(u, x)
           /\ WritableB(u, x, channel) /\ x \in Projects => ~GroundGone(u, x)
           /\ AdminOrMentor(u, x) /\ ArchivedIsReadOnly(u, x) /\ x \in Apps => ~GroundGone(u, x)
<1>1. x \in Apps => x \notin closed
  BY WorkDomains DEF WorkTypeOK
<1>2. x \in Projects => x \notin Apps
  BY WorkDomains
<1> QED
  BY <1>1, <1>2, WorkDomains
     DEF WritableA, WritableB, ReadableB, Internal, Participates, AdminOrMentor,
         ArchivedIsReadOnly, AssignedMentor, GroundGone, Groups, Users

\* A step of a visit passes a check or ends it.
LEMMA VisitKinds ==
    ASSUME WorkTypeOK, NEW v \in Visits, VisitNext(v)
    PROVE  \/ \E e \in Visit : PassesCheck(v, e)
           \/ EndsVisit(v)
<1> USE WorkDomains
<1>1. ASSUME NEW a \in Apps, MentorshipChecks(v, a), UNCHANGED closed
      PROVE  \E e \in Visit : PassesCheck(v, e)
  <2>1. ASSUME NEW m \in Mentors, AssignReads(v, a, m)
        PROVE  \E e \in Visit : PassesCheck(v, e)
    <3> DEFINE e == [doing |-> "mentor", on |-> a, by |-> "admin", to |-> m]
    <3>1. e \in Visit
      BY DEF Visit
    <3>2. status[a] \in Granted /\ ~GroundGone("admin", a)
      BY <2>1 DEF AssignReads, Assignable, Granted, GroundGone, WorkTypeOK
    <3>3. PassesCheck(v, e)
      BY <1>1, <2>1, <3>2 DEF AssignReads, Arrives, PassesCheck
    <3> QED
      BY <3>1, <3>3
  <2>2. ASSUME NEW u \in Users, NoteReads(v, a, u)
        PROVE  \E e \in Visit : PassesCheck(v, e)
    <3> DEFINE e == [doing |-> "note", on |-> a, by |-> u, to |-> None]
    <3>1. e \in Visit
      BY DEF Visit
    <3>2. mentor[a] # None /\ ~GroundGone(u, a)
      BY <2>2, RightsHaveGround DEF NoteReads
    <3>3. PassesCheck(v, e)
      BY <1>1, <2>2, <3>2 DEF NoteReads, Arrives, PassesCheck
    <3> QED
      BY <3>1, <3>3
  <2>3. ASSUME NEW u \in Users, NEW what \in {"milestone", "progress"},
               TrackingReads(v, a, u, what)
        PROVE  \E e \in Visit : PassesCheck(v, e)
    <3> DEFINE e == [doing |-> what, on |-> a, by |-> u, to |-> None]
    <3>1. e \in Visit
      BY DEF Visit
    <3>2. status[a] \in Granted /\ ~GroundGone(u, a)
      BY <2>3, RightsHaveGround DEF TrackingReads, Tracked, Granted
    <3>3. PassesCheck(v, e)
      BY <1>1, <2>3, <3>2 DEF TrackingReads, Arrives, PassesCheck
    <3> QED
      BY <3>1, <3>3
  <2> QED
    BY <1>1, <2>1, <2>2, <2>3 DEF MentorshipChecks
<1>2. ASSUME PostNext(v)
      PROVE  (\E e \in Visit : PassesCheck(v, e)) \/ EndsVisit(v)
  <2>1. ASSUME NEW channel \in Channels, NEW u \in Users, NEW x \in Anchors,
               ~GroundGone(u, x), Arrives(v, "post", x, u, channel),
               UNCHANGED <<mentor, row, closed>>
        PROVE  \E e \in Visit : PassesCheck(v, e)
    <3> DEFINE e == [doing |-> "post", on |-> x, by |-> u, to |-> channel]
    <3>1. e \in Visit
      BY DEF Visit
    <3>2. PassesCheck(v, e)
      BY <2>1 DEF Arrives, PassesCheck
    <3> QED
      BY <3>1, <3>2
  <2>2. ASSUME NEW channel \in Channels, NEW u \in Users, NEW a \in Apps,
               ApplicationPostReads(v, a, channel, u)
        PROVE  \E e \in Visit : PassesCheck(v, e)
    BY <2>1, <2>2, RightsHaveGround DEF ApplicationPostReads
  <2>3. ASSUME NEW channel \in Channels, NEW u \in Users, NEW p \in Projects,
               ProjectPostReads(v, p, channel, u)
        PROVE  \E e \in Visit : PassesCheck(v, e)
    BY <2>1, <2>3, RightsHaveGround DEF ProjectPostReads
  <2>4. ASSUME NEW w \in Rows, PostWrites(v, w) PROVE EndsVisit(v)
    <3>1. visit[v].doing = "post" /\ Inserts(v, w, "message") /\ UNCHANGED closed
      BY <2>4 DEF PostWrites
    <3>2. NewRow("message", visit[v].on, visit[v].to, visit[v].by) \in Row
      BY <3>1, VisitFields, RowsStored
    <3>3. RowsStay /\ row' \in [Rows -> Row \cup {None}]
      BY <3>1, <3>2, InsertsKeeps
    <3>4. WritesRow(v, w)
      BY <3>1 DEF Inserts, WritesRow, NewRow, WorkTypeOK
    <3> QED
      BY <3>1, <3>3, <3>4 DEF Inserts, EndsVisit
  <2> QED
    BY <1>2, <2>2, <2>3, <2>4 DEF PostNext
<1>3. ASSUME MessageNext(v)
      PROVE  (\E e \in Visit : PassesCheck(v, e)) \/ EndsVisit(v)
  <2>1. ASSUME NEW w \in Rows, NEW u \in Users, MessageReads(v, w, u)
        PROVE  \E e \in Visit : PassesCheck(v, e)
    <3> DEFINE e == [doing |-> "load", on |-> w, by |-> u, to |-> None]
    <3>1. e \in Visit
      BY DEF Visit
    <3>2. PassesCheck(v, e)
      BY <2>1 DEF MessageReads, Arrives, PassesCheck
    <3> QED
      BY <3>1, <3>2
  <2>2. ASSUME NEW what \in {"edit", "delete"}, MessageChecks(v, what)
        PROVE  \E e \in Visit : PassesCheck(v, e)
    <3> DEFINE e == [visit[v] EXCEPT !.doing = what]
               w == visit[v].on
    <3>1. /\ visit[v].doing = "load"
          /\ Writable(visit[v].by, row[w].on, row[w].channel)
          /\ visit' = [visit EXCEPT ![v] = e]
          /\ UNCHANGED <<mentor, row, closed>>
      BY <2>2, Zenon DEF MessageChecks
    <3>2. w \in Rows /\ visit[v].by \in Users /\ row[w] # None /\ row[w].kind = "message"
          /\ visit[v] \in Visit
      BY <3>1, VisitFields DEF WorkTypeOK
    <3>3. e \in Visit /\ e.doing = what /\ e.on = w /\ e.by = visit[v].by
      BY <3>1, <3>2 DEF Visit, NoVisit
    <3>4. row[w] \in Row /\ row[w].on \in Anchors
      BY <3>2, RowsStored DEF Row
    <3>5. ~GroundGone(visit[v].by, row[w].on)
      BY <3>1, <3>2, <3>4, RightsHaveGround DEF Writable
    <3> HIDE DEF e, w
    <3>6. PassesCheck(v, e)
      BY <3>1, <3>2, <3>3, <3>5 DEF PassesCheck
    <3> QED
      BY <3>3, <3>6
  <2>3. CASE EditWrites(v)
    <3> DEFINE w == visit[v].on
    <3>1. w \in Rows /\ row[w] # None /\ row[w].kind = "message"
      BY <2>3, VisitFields DEF EditWrites, WorkTypeOK
    <3>2. row' = [row EXCEPT ![w].edited = TRUE]
      BY <2>3 DEF EditWrites
    <3>3. RowsStay /\ row' \in [Rows -> Row \cup {None}]
      BY <3>1, <3>2, ChangeKeeps
    <3>4. WritesRow(v, w)
      BY <2>3, <3>1, <3>2 DEF EditWrites, WritesRow, WorkTypeOK
    <3> QED
      BY <2>3, <3>1, <3>3, <3>4 DEF EditWrites, EndsVisit
  <2>4. CASE DeleteWrites(v)
    <3> DEFINE w == visit[v].on
    <3>1. w \in Rows /\ row[w] # None /\ row[w].kind = "message"
      BY <2>4, VisitFields DEF DeleteWrites, WorkTypeOK
    <3>2. row' = [row EXCEPT ![w].deleted = TRUE]
      BY <2>4 DEF DeleteWrites
    <3>3. RowsStay /\ row' \in [Rows -> Row \cup {None}]
      BY <3>1, <3>2, ChangeKeeps
    <3>4. WritesRow(v, w)
      BY <2>4, <3>1, <3>2 DEF DeleteWrites, WritesRow, WorkTypeOK
    <3> QED
      BY <2>4, <3>1, <3>3, <3>4 DEF DeleteWrites, EndsVisit
  <2> QED
    BY <1>3, <2>1, <2>2, <2>3, <2>4 DEF MessageNext
<1>4. ASSUME MentorshipWrites(v), UNCHANGED closed PROVE EndsVisit(v)
  <2>1. CASE AssignWrites(v)
    BY <1>4, <2>1 DEF AssignWrites, EndsVisit, RowsStay, WorkTypeOK
  <2>2. ASSUME NEW w \in Rows, NEW kind \in {"note", "milestone"},
               visit[v].doing = kind, Inserts(v, w, kind)
        PROVE  EndsVisit(v)
    <3>1. NewRow(kind, visit[v].on, visit[v].to, visit[v].by) \in Row
      BY <2>2, VisitFields, RowsStored
    <3>2. RowsStay /\ row' \in [Rows -> Row \cup {None}]
      BY <2>2, <3>1, InsertsKeeps
    <3>3. WritesRow(v, w)
      BY <2>2 DEF Inserts, WritesRow, NewRow, WorkTypeOK
    <3> QED
      BY <1>4, <2>2, <3>2, <3>3 DEF Inserts, EndsVisit
  <2>3. ASSUME NEW w \in Rows, MilestoneUpdates(v, w) PROVE EndsVisit(v)
    <3>1. row' = [row EXCEPT ![w].edited = TRUE] /\ row[w] # None /\ row[w].kind = "milestone"
      BY <2>3 DEF MilestoneUpdates
    <3>2. RowsStay /\ row' \in [Rows -> Row \cup {None}]
      BY <3>1, ChangeKeeps
    <3>3. WritesRow(v, w)
      BY <2>3, <3>1 DEF MilestoneUpdates, WritesRow, WorkTypeOK
    <3> QED
      BY <1>4, <2>3, <3>2, <3>3 DEF MilestoneUpdates, EndsVisit
  <2> QED
    BY <1>4, <2>1, <2>2, <2>3 DEF MentorshipWrites, NoteWrites, MilestoneInserts
<1>5. ASSUME GivesUp(v), UNCHANGED closed PROVE EndsVisit(v)
  BY <1>5 DEF GivesUp, EndsVisit, RowsStay, WorkTypeOK
<1> QED
  BY <1>1, <1>2, <1>3, <1>4, <1>5, Zenon DEF VisitNext

\* A project's mentor, and its end, keep the types.
LEMMA ProjectStepTypes ==
    ASSUME WorkTypeOK, NEW p \in Projects, (\E m \in Mentors : ProjectMentor(p, m)) \/ ProjectCloses(p)
    PROVE  WorkTypeOK'
  BY WorkDomains DEF ProjectMentor, ProjectCloses, WorkTypeOK, mentorshipVars

LEMMA WorkTypeStep ==
    ASSUME WorkTypeOK,
           [\/ Next /\ UNCHANGED workVars
            \/ WorkNext /\ UNCHANGED vars]_allVars
    PROVE  WorkTypeOK'
<1>1. ASSUME UNCHANGED workVars PROVE WorkTypeOK'
  BY <1>1 DEF workVars, mentorshipVars, WorkTypeOK
<1>2. ASSUME NEW v \in Visits, VisitNext(v) PROVE WorkTypeOK'
  <2>1. ASSUME NEW e \in Visit, PassesCheck(v, e) PROVE WorkTypeOK'
    BY <2>1, WorkTypeArrives DEF PassesCheck
  <2>2. CASE EndsVisit(v)
    <3>1. mentor' \in [Anchors -> Mentors \cup {None}]
      BY <2>2, VisitFields, WorkDomains DEF EndsVisit, WorkTypeOK
    <3> QED
      BY <2>2, <3>1, WorkTypeLeaves DEF EndsVisit, WorkTypeOK
  <2> QED
    BY <1>2, <2>1, <2>2, VisitKinds
<1> QED
  BY <1>1, <1>2, ProjectStepTypes DEF WorkNext, allVars

\* The mentors, rows and visits keep their types.
THEOREM WorkTypes == WorkSpec => []WorkTypeOK
  BY WorkTypeInit, WorkTypeStep, PTL DEF WorkSpec

-----------------------------------------------------------------------------
\* No step takes a grant back.
LEMMA GrantStays ==
    ASSUME SerialInv, [Next]_vars, NEW a \in Apps, status[a] \in Granted
    PROVE  status'[a] \in Granted
<1> USE DEF Granted
<1>0. TypeOK
  BY DEF SerialInv, OverlapInv
<1>1. ASSUME NEW b \in Apps, NEW from, NEW to, Records(b, from, to), b # a
      PROVE  status'[a] = status[a]
  BY <1>0, <1>1 DEF Records, TypeOK
<1>2. ASSUME NEW r \in Requests, RequestNext(r) PROVE status'[a] \in Granted
  <2>1. ASSUME NEW b \in Apps, DraftInserts(r, b) PROVE status'[a] = status[a]
    BY <1>0, <2>1 DEF DraftInserts, TypeOK
  <2>2. CASE SubmitWrites(r)
    <3>1. status[request[r].on] = "DRAFT" /\ request[r].on \in Apps
      BY <1>0, <2>2 DEF SerialInv, SubmissionFindsDraft, SubmitWrites, TypeOK, Request
    <3> QED
      BY <1>1, <2>2, <3>1 DEF SubmitWrites
  <2> QED
    BY <1>2, <2>1, <2>2 DEF RequestNext, DraftReads, SubmitReads, EvaluationReads,
       EvaluationWrites, ReplyReads, ReplyWrites, Aborts
<1>3. ASSUME NEW b \in Apps, PlainMove(b) PROVE status'[a] \in Granted
  BY <1>0, <1>3 DEF PlainMove, MovesOnly, Records, TypeOK
<1>4. ASSUME NEW b \in Apps, DecidingMove(b) PROVE status'[a] \in Granted
  BY <1>0, <1>4 DEF DecidingMove, MovesOnly, Records, TypeOK
<1>5. ASSUME NEW b \in Apps,
             (\E q \in InfoItems : CreateNeedsInfoItem(b, q)) \/ Resubmit(b)
      PROVE  status'[a] \in Granted
  BY <1>0, <1>5 DEF CreateNeedsInfoItem, Resubmit, Askable, Records, TypeOK
<1>6. ASSUME UNCHANGED vars PROVE status'[a] \in Granted
  BY <1>6 DEF vars
<1> QED
  BY <1>2, <1>3, <1>4, <1>5, <1>6, StepKinds

\* What a request that passed its check relies on still holds when it writes.
ChecksStillHold ==
    \A v \in Visits :
        /\ visit[v].doing \in {"mentor", "milestone"} => status[visit[v].on] \in Granted
        /\ visit[v].doing = "note" => mentor[visit[v].on] # None

SupportInv == WorkTypeOK /\ SupportIsOfGranted /\ ChecksStillHold

LEMMA SupportInit == WorkInit => SupportInv
  BY WorkTypeInit, WorkDomains DEF WorkInit, SupportInv, SupportIsOfGranted, ChecksStillHold, NoVisit

\* A grant stays, a mentor is replaced but never removed, and every write comes
\* after its check.
LEMMA SupportStep ==
    ASSUME SupportInv, SerialInv,
           [\/ Next /\ UNCHANGED workVars
            \/ WorkNext /\ UNCHANGED vars]_allVars
    PROVE  SupportInv'
<1>0. WorkTypeOK /\ WorkTypeOK'
  BY WorkTypeStep DEF SupportInv
<1> DEFINE Holds == SupportIsOfGranted /\ ChecksStillHold
<1>a. \A w \in Rows : row[w] # None => row[w] \in Row
  BY <1>0 DEF WorkTypeOK
<1>b. \A w \in Rows : row[w] # None /\ row[w].kind \in {"note", "milestone"} => row[w].on \in Apps
  BY <1>a DEF Row
<1>c. \A v \in Visits : visit[v].doing \in {"mentor", "milestone", "note"} => visit[v].on \in Apps
  BY <1>0, VisitFields
<1>1. ASSUME Next, UNCHANGED workVars PROVE Holds'
  <2>1. UNCHANGED <<mentor, row, visit>>
    BY <1>1 DEF workVars, mentorshipVars
  <2>2. \A a \in Apps : status[a] \in Granted => status'[a] \in Granted
    BY <1>1, GrantStays
  <2> QED
    BY <1>b, <1>c, <2>1, <2>2 DEF SupportInv, SupportIsOfGranted, ChecksStillHold
<1>2. ASSUME UNCHANGED allVars PROVE Holds'
  BY <1>2 DEF allVars, workVars, vars, mentorshipVars, SupportInv, SupportIsOfGranted, ChecksStillHold
<1>3. ASSUME NEW v \in Visits, VisitNext(v), UNCHANGED vars PROVE Holds'
  <2>0. status' = status
    BY <1>3 DEF vars
  <2>1. ASSUME NEW e \in Visit, PassesCheck(v, e) PROVE Holds'
    <3>1. \A x \in Visits : visit'[x] = IF x = v THEN e ELSE visit[x]
      BY <1>0, <2>1 DEF PassesCheck, WorkTypeOK
    <3> QED
      BY <2>0, <2>1, <3>1 DEF PassesCheck, SupportInv, SupportIsOfGranted, ChecksStillHold
  <2>2. CASE EndsVisit(v)
    <3>1. \A x \in Visits : visit'[x] = IF x = v THEN NoVisit ELSE visit[x]
      BY <1>0, <2>2 DEF EndsVisit, Leaves, WorkTypeOK
    <3>2. \A a \in Apps : mentor[a] # None => mentor'[a] # None
      BY <1>0, <2>2, VisitFields, WorkDomains DEF EndsVisit, WorkTypeOK
    <3>3. \A a \in Apps : mentor'[a] # None => status'[a] \in Granted
      BY <1>0, <2>0, <2>2, <1>c, WorkDomains
         DEF EndsVisit, WorkTypeOK, SupportInv, SupportIsOfGranted, ChecksStillHold
    <3>4. ASSUME NEW w \in Rows, row'[w] # None
          PROVE  /\ row'[w].kind = "milestone" => status'[row'[w].on] \in Granted
                 /\ row'[w].kind = "note" => mentor'[row'[w].on] # None
      <4>1. CASE row[w] # None
        <5>1. row'[w].kind = row[w].kind /\ row'[w].on = row[w].on
          BY <2>2, <4>1 DEF EndsVisit, RowsStay
        <5> QED
          BY <1>b, <2>0, <3>2, <4>1, <5>1 DEF SupportInv, SupportIsOfGranted
      <4>2. CASE row[w] = None
        <5>1. WritesRow(v, w) /\ UNCHANGED mentor
          BY <2>2, <3>4, <4>2 DEF EndsVisit, WritesRow
        <5> QED
          BY <2>0, <4>2, <5>1 DEF WritesRow, SupportInv, ChecksStillHold
      <4> QED
        BY <4>1, <4>2
    <3>5. ChecksStillHold'
      BY <1>c, <2>0, <3>1, <3>2 DEF SupportInv, ChecksStillHold, NoVisit
    <3> QED
      BY <3>3, <3>4, <3>5 DEF SupportIsOfGranted
  <2> QED
    BY <1>0, <1>3, <2>1, <2>2, VisitKinds
<1>4. ASSUME NEW p \in Projects, (\E m \in Mentors : ProjectMentor(p, m)) \/ ProjectCloses(p),
             UNCHANGED vars
      PROVE  Holds'
  <2>1. \A a \in Apps : mentor'[a] = mentor[a]
    BY <1>0, <1>4, WorkDomains DEF ProjectMentor, ProjectCloses, mentorshipVars, WorkTypeOK
  <2>2. UNCHANGED <<status, row, visit>>
    BY <1>4 DEF ProjectMentor, ProjectCloses, mentorshipVars, vars
  <2> QED
    BY <1>b, <1>c, <2>1, <2>2 DEF SupportInv, SupportIsOfGranted, ChecksStillHold
<1> QED
  BY <1>0, <1>1, <1>2, <1>3, <1>4 DEF SupportInv, WorkNext

\* When a team sends one submission at a time, mentors, notes and milestones
\* are of granted applications only.
THEOREM SupportFollowsGrant ==
    ASSUME OneSubmitter
    PROVE  WorkSpec => []SupportIsOfGranted
<1>1. SupportInv => SupportIsOfGranted
  BY DEF SupportInv
<1>2. Spec => []SerialInv
  BY SerialHolds
<1> QED
  BY <1>1, <1>2, WorkLeavesLife, SupportInit, SupportStep, PTL DEF WorkSpec

-----------------------------------------------------------------------------
\* A visit v, and no other, may join those that passed, and does only where
\* the ground of its user's right is there.
THEOREM RightsEnd == WorkSpec => RightsEndWithTheirGround
<1> DEFINE Expires(x) ==
      /\ \A u \in Users : GroundGone(u, x) /\ GroundGone(u, x)' =>
            Passed(u, x)' \subseteq Passed(u, x)
      /\ (\E w \in WrittenAbout(x)' : row'[w] # row[w]) =>
            \E u \in Users : Passed(u, x)' \subseteq Passed(u, x)
                             /\ Passed(u, x)' # Passed(u, x)
<1>1. ASSUME NEW x \in Anchors, UNCHANGED <<row, visit>> PROVE Expires(x)
  BY <1>1 DEF Passed
<1>2. ASSUME WorkTypeOK, NEW v \in Visits, VisitNext(v), UNCHANGED vars, NEW x \in Anchors
      PROVE  Expires(x)
  <2>1. ASSUME NEW e \in Visit, PassesCheck(v, e) PROVE Expires(x)
    <3>1. \A z \in Visits : visit'[z] = IF z = v THEN e ELSE visit[z]
      BY <1>2, <2>1 DEF PassesCheck, WorkTypeOK
    <3>2. row' = row
      BY <2>1 DEF PassesCheck
    <3> QED
      BY <2>1, <3>1, <3>2 DEF PassesCheck, Passed, WrittenAbout
  <2>2. CASE EndsVisit(v)
    <3>1. \A z \in Visits : visit'[z] = IF z = v THEN NoVisit ELSE visit[z]
      BY <1>2, <2>2 DEF EndsVisit, Leaves, WorkTypeOK
    <3>2. \A z \in Visits : visit[z].doing \in {"edit", "delete"} =>
             visit[z].on \in Rows /\ row[visit[z].on] # None
      BY <1>2, VisitFields DEF WorkTypeOK
    <3>3. \A u \in Users : Passed(u, x)' \subseteq Passed(u, x) \ {v}
      BY <2>2, <3>1, <3>2 DEF EndsVisit, RowsStay, Passed, NoVisit
    <3>4. ASSUME NEW w \in WrittenAbout(x)', row'[w] # row[w]
          PROVE  \E u \in Users : v \in Passed(u, x)
      <4>1. w \in Rows /\ row'[w] # None /\ row'[w].on = x
        BY <3>4 DEF WrittenAbout
      <4>2. WritesRow(v, w)
        BY <2>2, <3>4, <4>1 DEF EndsVisit, WritesRow
      <4>3. visit[v].by \in Users
        BY <1>2, <4>2, VisitFields DEF WritesRow
      <4>4. row[w] # None => row[w].on = x
        BY <2>2, <4>1 DEF EndsVisit, RowsStay
      <4>5. v \in Passed(visit[v].by, x)
        BY <4>1, <4>2, <4>4 DEF WritesRow, Passed
      <4> QED
        BY <4>3, <4>5
    <3> QED
      BY <3>3, <3>4
  <2> QED
    BY <1>2, <2>1, <2>2, VisitKinds
<1>3. ASSUME WorkTypeOK,
             [\/ Next /\ UNCHANGED workVars
              \/ WorkNext /\ UNCHANGED vars]_allVars
      PROVE  [\A x \in Anchors : Expires(x)]_allVars
  <2>1. ASSUME UNCHANGED workVars, NEW x \in Anchors PROVE Expires(x)
    BY <1>1, <2>1 DEF workVars, mentorshipVars
  <2>2. ASSUME NEW p \in Projects, (\E m \in Mentors : ProjectMentor(p, m)) \/ ProjectCloses(p),
               NEW x \in Anchors
        PROVE  Expires(x)
    BY <1>1, <2>2 DEF ProjectMentor, ProjectCloses, mentorshipVars
  <2> QED
    BY <1>2, <1>3, <2>1, <2>2 DEF WorkNext
<1> QED
  BY <1>3, WorkTypes, PTL DEF WorkSpec, RightsEndWithTheirGround

==============================================================================
