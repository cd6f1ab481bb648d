------------------------- MODULE ApplicationLifecycle -------------------------
(***************************************************************************)
(* The Program A applications of one student team, through                 *)
(* ApplicationsService: drafting, submission, review with needs-info       *)
(* questions, evaluation, decision and the lifecycle of a granted project. *)
(* Applications of different teams share no row this module models.        *)
(*                                                                         *)
(* Isolation.  A status transition reads the status and writes with the    *)
(* status it read as a condition (updateStatusIfCurrent), so it is one     *)
(* action, at the moment of the write.  createDecision, createNeedsInfoItem *)
(* and resubmit are SERIALIZABLE besides.  The handlers that check one row *)
(* and then write another, or write without a condition, are two actions   *)
(* of a request: createDraft, submit, createEvaluation and                 *)
(* replyToNeedsInfoItem.                                                   *)
(*                                                                         *)
(* Who may call an operation is left out, and so is what only refuses a    *)
(* submission: the call's window, missing documents and sections.          *)
(***************************************************************************)

CONSTANTS
    Apps,         \* application identifiers (bounds the table)
    Calls,        \* calls of Program A
    InfoItems,    \* needs-info item identifiers (bounds the table)
    Requests,     \* HTTP requests that can be in flight at the same time
    Submitters,   \* those among them that may carry a submission
    None          \* the SQL null

ASSUME SubmitterAssumption == Submitters \subseteq Requests
ASSUME NoneIsNoRow == None \notin Apps \cup Calls \cup InfoItems

VARIABLES
    status,       \* Application.status
    callOf,       \* Application.callId
    decided,      \* Application.decidedAt is set
    evaluated,    \* the application has an ApplicationEvaluation
    lastEvent,    \* its newest ApplicationStatusEvent
    infoStatus,   \* NeedsInfoItem.status
    infoApp,      \* NeedsInfoItem.applicationId
    teamLocked,   \* Team.lockedAt is set
    request       \* the handler each request is in the middle of

infoVars == <<infoStatus, infoApp>>
vars == <<status, callOf, decided, evaluated, lastEvent, infoVars, teamLocked, request>>

-----------------------------------------------------------------------------
ApplicationStatus ==
    {"DRAFT", "SUBMITTED", "FORMALLY_VERIFIED", "EVALUATING", "NEEDS_INFO",
     "APPROVED", "REJECTED", "ONBOARDING", "ACTIVE_PROJECT", "PAUSED",
     "COMPLETED", "ARCHIVED"}

\* The two statuses an ApplicationStatusEvent records.
StatusEvent == [from : ApplicationStatus, to : ApplicationStatus]

ASSUME NoneIsNoEvent == None \notin StatusEvent

Granted == {"APPROVED", "ONBOARDING", "ACTIVE_PROJECT", "PAUSED", "COMPLETED",
            "ARCHIVED"}

InfoStatus == {"OPEN", "ANSWERED", "RESOLVED"}

\* A handler between its read and its write, and the row it works on.
Request == [doing : {"draft"}, on : Calls]
           \cup [doing : {"submit", "evaluate"}, on : Apps]
           \cup [doing : {"reply"}, on : InfoItems]
           \cup [doing : {"idle"}, on : {None}]
Idle == [doing |-> "idle", on |-> None]

Begins(r, what, row) ==
    /\ request[r] = Idle
    /\ request' = [request EXCEPT ![r] = [doing |-> what, on |-> row]]

Ends(r) == request' = [request EXCEPT ![r] = Idle]

\* A transaction may always fail: refused by the index, not serializable,
\* timed out or cut off.  It is rolled back.
Aborts(r) ==
    /\ request[r] # Idle
    /\ Ends(r)
    /\ UNCHANGED <<status, callOf, decided, evaluated, lastEvent, infoVars, teamLocked>>

Init ==
    /\ status = [a \in Apps |-> "ABSENT"]
    /\ callOf = [a \in Apps |-> None]
    /\ decided = [a \in Apps |-> FALSE]
    /\ evaluated = [a \in Apps |-> FALSE]
    /\ lastEvent = [a \in Apps |-> None]
    /\ infoStatus = [q \in InfoItems |-> "ABSENT"]
    /\ infoApp = [q \in InfoItems |-> None]
    /\ teamLocked = FALSE
    /\ request = [r \in Requests |-> Idle]

\* Statuses the partial index Application_active_unique_constraint counts.
HoldsSlot(s) == s \notin {"ABSENT", "REJECTED", "ARCHIVED"}

\* Faulty variant: the index does not exist.
NoHolders(c) == {}

\* The team's applications that hold its slot for call c.
HoldersOf(c) == {a \in Apps : callOf[a] = c /\ HoldsSlot(status[a])}

\* The row moves to a new status and an event records the move.
Records(a, from, to) ==
    /\ status' = [status EXCEPT ![a] = to]
    /\ lastEvent' = [lastEvent EXCEPT ![a] = [from |-> from, to |-> to]]

-----------------------------------------------------------------------------
(***************************************************************************)
(* Drafting and submission                                                 *)
(***************************************************************************)

\* findActiveApplicationForTeam: drafts do not count.
RunningElsewhere ==
    \E a \in Apps :
        status[a] \notin {"ABSENT", "DRAFT", "REJECTED", "ARCHIVED", "COMPLETED"}

\* createDraft checks the creation rules ...
DraftReads(r, c) ==
    /\ ~RunningElsewhere
    /\ Begins(r, "draft", c)
    /\ UNCHANGED <<status, callOf, decided, evaluated, lastEvent, infoVars, teamLocked>>

\* ... and inserts the row, which the index may refuse.  The query for an
\* active application of the same call asks what the index enforces.
DraftInserts(r, a) ==
    /\ request[r].doing = "draft"
    /\ status[a] = "ABSENT"
    /\ HoldersOf(request[r].on) = {}
    /\ status' = [status EXCEPT ![a] = "DRAFT"]
    /\ callOf' = [callOf EXCEPT ![a] = request[r].on]
    /\ Ends(r)
    /\ UNCHANGED <<decided, evaluated, lastEvent, infoVars, teamLocked>>

\* submit finds a draft ...
SubmitReads(r, a) ==
    /\ r \in Submitters
    /\ status[a] = "DRAFT"
    /\ Begins(r, "submit", a)
    /\ UNCHANGED <<status, callOf, decided, evaluated, lastEvent, infoVars, teamLocked>>

\* ... and writes by identifier (submitDraft), locking the team.  The index
\* lets a closed application reopen only if no newer one holds the slot.
SubmitWrites(r) ==
    LET a == request[r].on IN
    /\ request[r].doing = "submit"
    /\ HoldersOf(callOf[a]) \subseteq {a}
    /\ Records(a, "DRAFT", "SUBMITTED")
    /\ teamLocked' = TRUE
    /\ Ends(r)
    /\ UNCHANGED <<callOf, decided, evaluated, infoVars>>

-----------------------------------------------------------------------------
(***************************************************************************)
(* Review                                                                  *)
(***************************************************************************)

\* Faulty variant: the status is no condition of the write.
TransitionByIdentifier(a, from, to) ==
    /\ status[a] # "ABSENT"
    /\ Records(a, status[a], to)
    /\ UNCHANGED <<callOf, decided, evaluated, infoVars, teamLocked, request>>

\* transitionReviewState and transitionLifecycle without a decision.
Transition(a, from, to) ==
    /\ status[a] \in from
    /\ Records(a, status[a], to)
    /\ UNCHANGED <<callOf, decided, evaluated, infoVars, teamLocked, request>>

\* transitionReviewState with setDecidedAt.
TransitionDecides(a, from, to) ==
    /\ status[a] \in from
    /\ Records(a, status[a], to)
    /\ decided' = [decided EXCEPT ![a] = TRUE]
    /\ UNCHANGED <<callOf, evaluated, infoVars, teamLocked, request>>

FormalVerify(a)    == Transition(a, {"SUBMITTED"}, "FORMALLY_VERIFIED")
StartEvaluation(a) == Transition(a, {"FORMALLY_VERIFIED"}, "EVALUATING")
Approve(a)         == TransitionDecides(a, {"EVALUATING"}, "APPROVED")
Reject(a)          == TransitionDecides(a, {"SUBMITTED", "FORMALLY_VERIFIED",
                                            "EVALUATING", "NEEDS_INFO"}, "REJECTED")

\* ensureApplicationCanBeEvaluated
CanBeEvaluated(a) == status[a] \in {"FORMALLY_VERIFIED", "EVALUATING"}

EvaluationReads(r, a) ==
    /\ CanBeEvaluated(a)
    /\ Begins(r, "evaluate", a)
    /\ UNCHANGED <<status, callOf, decided, evaluated, lastEvent, infoVars, teamLocked>>

\* The upsert does not look at the application again.
EvaluationWrites(r) ==
    /\ request[r].doing = "evaluate"
    /\ evaluated' = [evaluated EXCEPT ![request[r].on] = TRUE]
    /\ Ends(r)
    /\ UNCHANGED <<status, callOf, decided, lastEvent, infoVars, teamLocked>>

\* ensureEvaluationCompleteness: some evaluation has a score for every required
\* criterion.  Any evaluation has: its scores are checked and stored together.
EvaluationComplete(a) == evaluated[a]

\* createDecision
CreateDecision(a, outcome) ==
    /\ ~decided[a]
    /\ CanBeEvaluated(a)
    /\ EvaluationComplete(a)
    /\ Records(a, status[a], outcome)
    /\ decided' = [decided EXCEPT ![a] = TRUE]
    /\ UNCHANGED <<callOf, evaluated, infoVars, teamLocked, request>>

-----------------------------------------------------------------------------
(***************************************************************************)
(* Needs-info questions                                                    *)
(***************************************************************************)
ItemsOf(a) == {q \in InfoItems : infoApp[q] = a}
Unresolved(a) == {q \in ItemsOf(a) : infoStatus[q] \in {"OPEN", "ANSWERED"}}

Askable == {"SUBMITTED", "FORMALLY_VERIFIED", "EVALUATING"}

CreateNeedsInfoItem(a, q) ==
    /\ status[a] \in Askable
    /\ infoStatus[q] = "ABSENT"
    /\ infoStatus' = [infoStatus EXCEPT ![q] = "OPEN"]
    /\ infoApp' = [infoApp EXCEPT ![q] = a]
    /\ Records(a, status[a], "NEEDS_INFO")
    /\ UNCHANGED <<callOf, decided, evaluated, teamLocked, request>>

\* replyToNeedsInfoItem: the status is that of the transaction's snapshot; a
\* READ COMMITTED rejection may commit before the reply does.  A reply to an
\* answered item changes no status.
ReplyReads(r, q) ==
    /\ infoStatus[q] = "OPEN"
    /\ status[infoApp[q]] = "NEEDS_INFO"
    /\ Begins(r, "reply", q)
    /\ UNCHANGED <<status, callOf, decided, evaluated, lastEvent, infoVars, teamLocked>>

\* Faulty variant: a reply settles the question.
ReplyResolves(r) ==
    LET q == request[r].on IN
    /\ request[r].doing = "reply"
    /\ infoStatus[q] = "OPEN"
    /\ infoStatus' = [infoStatus EXCEPT ![q] = "RESOLVED"]
    /\ Ends(r)
    /\ UNCHANGED <<status, callOf, decided, evaluated, lastEvent, infoApp, teamLocked>>

\* Of two concurrent replies to an item one fails to serialize.
ReplyWrites(r) ==
    LET q == request[r].on IN
    /\ request[r].doing = "reply"
    /\ infoStatus[q] = "OPEN"
    /\ infoStatus' = [infoStatus EXCEPT ![q] = "ANSWERED"]
    /\ Ends(r)
    /\ UNCHANGED <<status, callOf, decided, evaluated, lastEvent, infoApp, teamLocked>>

\* Faulty variant: the answered items stay unresolved.
ResolveNothing(a) == infoStatus' = infoStatus

ResolveAnswered(a) ==
    infoStatus' = [q \in InfoItems |->
                      IF infoApp[q] = a /\ infoStatus[q] = "ANSWERED"
                      THEN "RESOLVED"
                      ELSE infoStatus[q]]

Resubmit(a) ==
    /\ status[a] = "NEEDS_INFO"
    /\ Unresolved(a) # {}
    /\ \A q \in Unresolved(a) : infoStatus[q] # "OPEN"
    /\ ResolveAnswered(a)
    /\ Records(a, "NEEDS_INFO", "EVALUATING")
    /\ UNCHANGED <<callOf, decided, evaluated, infoApp, teamLocked, request>>

-----------------------------------------------------------------------------
(***************************************************************************)
(* The granted project                                                     *)
(***************************************************************************)
StartOnboarding(a) == Transition(a, {"APPROVED"}, "ONBOARDING")
Activate(a)        == Transition(a, {"ONBOARDING", "PAUSED"}, "ACTIVE_PROJECT")
Pause(a)           == Transition(a, {"ACTIVE_PROJECT"}, "PAUSED")
Complete(a)        == Transition(a, {"ACTIVE_PROJECT"}, "COMPLETED")
Archive(a)         == Transition(a, {"COMPLETED"}, "ARCHIVED")

RequestNext(r) ==
    \/ \E c \in Calls : DraftReads(r, c)
    \/ \E a \in Apps : DraftInserts(r, a)
    \/ \E a \in Apps : SubmitReads(r, a)
    \/ SubmitWrites(r)
    \/ \E a \in Apps : EvaluationReads(r, a)
    \/ EvaluationWrites(r)
    \/ \E q \in InfoItems : ReplyReads(r, q)
    \/ ReplyWrites(r)
    \/ Aborts(r)

\* The endpoints of a reviewer ...
ReviewNext(a) ==
    \/ FormalVerify(a)
    \/ StartEvaluation(a)
    \/ Approve(a)
    \/ Reject(a)

\* ... and those a decision and the questions before it go through.
DecisionNext(a) ==
    \/ \E outcome \in {"APPROVED", "REJECTED"} : CreateDecision(a, outcome)
    \/ \E q \in InfoItems : CreateNeedsInfoItem(a, q)
    \/ Resubmit(a)

ProjectNext(a) ==
    \/ StartOnboarding(a)
    \/ Activate(a)
    \/ Pause(a)
    \/ Complete(a)
    \/ Archive(a)

Next ==
    \/ \E r \in Requests : RequestNext(r)
    \/ \E a \in Apps : ReviewNext(a) \/ DecisionNext(a) \/ ProjectNext(a)

Spec == Init /\ [][Next]_vars

-----------------------------------------------------------------------------
(***************************************************************************)
(* Invariants                                                              *)
(***************************************************************************)

\* Every column holds a value of its type, and the rows that name others name
\* existing ones.
TypeOK ==
    /\ status \in [Apps -> ApplicationStatus \cup {"ABSENT"}]
    /\ callOf \in [Apps -> Calls \cup {None}]
    /\ decided \in [Apps -> BOOLEAN]
    /\ evaluated \in [Apps -> BOOLEAN]
    /\ lastEvent \in [Apps -> StatusEvent \cup {None}]
    /\ infoStatus \in [InfoItems -> InfoStatus \cup {"ABSENT"}]
    /\ infoApp \in [InfoItems -> Apps \cup {None}]
    /\ teamLocked \in BOOLEAN
    /\ request \in [Requests -> Request]
    /\ \A a \in Apps : status[a] # "ABSENT" => callOf[a] \in Calls
    /\ \A q \in InfoItems : infoStatus[q] # "ABSENT" => infoApp[q] \in Apps
    /\ \A r \in Requests : request[r].doing \in {"submit", "evaluate"} =>
                             status[request[r].on] # "ABSENT"

\* A team never has two applications for one call that are neither rejected
\* nor archived, not even when a submission in flight reopens a closed one.
OneApplicationPerCall ==
    \A a, b \in Apps :
        /\ HoldsSlot(status[a])
        /\ HoldsSlot(status[b])
        /\ callOf[a] = callOf[b]
        => a = b

\* An application in NEEDS_INFO has a question left to resolve: resubmit
\* refuses one that has none, and nobody but a rejection could end it.
QuestionAwaitsAnswer ==
    \A a \in Apps : status[a] = "NEEDS_INFO" => Unresolved(a) # {}

\* A review that goes on has no forgotten question, and asks one at a time;
\* only a rejection may leave a question behind.
NoForgottenQuestion ==
    \A a \in Apps :
        /\ Unresolved(a) # {} => status[a] \in {"NEEDS_INFO", "REJECTED"}
        /\ \A p, q \in Unresolved(a) : p = q

\* decidedAt is set exactly on the applications that were decided, by either
\* of the two ways to decide one.
DecidedWhenDated ==
    \A a \in Apps : decided[a] <=> status[a] \in Granted \cup {"REJECTED"}

-----------------------------------------------------------------------------
(***************************************************************************)
(* Action properties                                                       *)
(***************************************************************************)

\* The status events of an application are its history: every change of the
\* status appends one that begins where the application was and ends where
\* it is, and nothing else appends any.
TimelineIsUnbroken ==
    [][\A a \in Apps :
          /\ lastEvent'[a] # lastEvent[a] =>
                lastEvent'[a] = [from |-> status[a], to |-> status'[a]]
          /\ status'[a] # status[a] =>
                \/ status[a] = "ABSENT"
                \/ lastEvent'[a] # lastEvent[a]]_vars

-----------------------------------------------------------------------------
(***************************************************************************)
(* The promise to the team, when it sends one submission at a time         *)
(***************************************************************************)
PhaseOf(s) ==
    CASE s = "ABSENT"     -> "none"
      [] s = "DRAFT"      -> "preparing"
      [] s \in Askable    -> "review"
      [] s = "NEEDS_INFO" -> "question"
      [] s = "REJECTED"   -> "refused"
      [] s = "ARCHIVED"   -> "filed"
      [] OTHER            -> "granted"

Case == INSTANCE ApplicationCase
            WITH phase <- [a \in Apps |-> PhaseOf(status[a])],
                 forCall <- callOf

\* The service keeps the promise of ApplicationCase.
KeepsPromise == Case!Spec

-----------------------------------------------------------------------------
(***************************************************************************)
(* What the documentation and the messages say, and the code refutes       *)
(***************************************************************************)

\* docs/PROGRAM_A_STATUS_MAP.md: REJECTED is terminal.
RejectedIsTerminal ==
    [][\A a \in Apps : status[a] = "REJECTED" => status'[a] = "REJECTED"]_vars

=============================================================================
