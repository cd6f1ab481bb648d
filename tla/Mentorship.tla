------------------------------ MODULE Mentorship ------------------------------
(***************************************************************************)
(* The mentor of a Program A application, its mentorship notes and its     *)
(* milestones (ProgramAMentorshipService, ProgramAMilestonesService).      *)
(*                                                                         *)
(* Each handler checks the application in a READ COMMITTED transaction and *)
(* then writes another row, or the application by identifier: it is two    *)
(* actions of a visit, and the application may move on in between.         *)
(*                                                                         *)
(* A user is a mentor, or stands for a group with the same rights: an      *)
(* administrator; an insider (an evaluator, or a member of the team); a    *)
(* client (the product owner, or a company user of the organisation).      *)
(* Conversations adds the Program B projects and the messages.             *)
(***************************************************************************)
EXTENDS ApplicationLifecycle

CONSTANTS
    Mentors,      \* active users with the role MENTOR
    Projects,     \* Program B project identifiers
    Rows,         \* identifiers of notes, milestones and messages
    Visits        \* HTTP requests in flight on them

Groups == {"admin", "insider", "client"}
Users  == Mentors \cup Groups

ASSUME MentorAssumption == Mentors \cap (Groups \cup {None}) = {}
ASSUME AnchorAssumption ==
    /\ None \notin Projects \cup Rows
    /\ Projects \cap Apps = {}
    /\ Rows \cap (Apps \cup Projects) = {}

VARIABLES
    mentor,       \* Application.mentorUserId, ProgramBProject.mentorUserId
    row,          \* ProgramAMentorshipNote, ProgramAMilestone, ConversationMessage
    visit         \* the handler each visit is in the middle of

mentorshipVars == <<mentor, row, visit>>

-----------------------------------------------------------------------------
\* A note or a milestone belongs to an application, a message to a channel of
\* an application or of a project.
NewRow(kind, x, channel, u) ==
    [kind |-> kind, on |-> x, channel |-> channel, by |-> u,
     edited |-> FALSE, deleted |-> FALSE]

NoVisit == [doing |-> "idle", on |-> None, by |-> None, to |-> None]

Arrives(v, what, x, u, t) ==
    /\ visit[v] = NoVisit
    /\ visit' = [visit EXCEPT ![v] = [doing |-> what, on |-> x, by |-> u, to |-> t]]

Leaves(v) == visit' = [visit EXCEPT ![v] = NoVisit]

\* A handler that fails after its check writes nothing.
GivesUp(v) ==
    /\ visit[v] # NoVisit
    /\ Leaves(v)
    /\ UNCHANGED <<mentor, row>>

Inserts(v, w, kind) ==
    /\ row[w] = None
    /\ row' = [row EXCEPT ![w] = NewRow(kind, visit[v].on, visit[v].to, visit[v].by)]
    /\ Leaves(v)
    /\ UNCHANGED mentor

-----------------------------------------------------------------------------
\* MENTORSHIP_ASSIGNABLE_STATUSES
Assignable == {"APPROVED", "ONBOARDING", "ACTIVE_PROJECT", "PAUSED", "COMPLETED"}

\* PROGRAM_A_TRACKING_STATUSES
Tracked == {"APPROVED", "ONBOARDING", "ACTIVE_PROJECT", "PAUSED", "COMPLETED"}

AssignedMentor(u, x) == u \in Mentors /\ mentor[x] = u

\* ensureMentorshipAccess, ensureProgramATrackingAccess
AdminOrMentor(u, a) == u = "admin" \/ AssignedMentor(u, a)

\* ensureArchivedApplicationIsReadOnlyForNonAdmin
ArchivedIsReadOnly(u, a) == status[a] = "ARCHIVED" => u = "admin"

\* Faulty variant: the status of the application is not looked at.
AssignReadsAnyStatus(v, a, m) ==
    /\ status[a] # "ABSENT"
    /\ Arrives(v, "mentor", a, "admin", m)
    /\ UNCHANGED <<mentor, row>>

\* assignMentor, by an administrator ...
AssignReads(v, a, m) ==
    /\ status[a] \in Assignable
    /\ Arrives(v, "mentor", a, "admin", m)
    /\ UNCHANGED <<mentor, row>>

\* ... updates the application by identifier.
AssignWrites(v) ==
    /\ visit[v].doing = "mentor"
    /\ mentor' = [mentor EXCEPT ![visit[v].on] = visit[v].to]
    /\ Leaves(v)
    /\ UNCHANGED row

\* createMentorshipNote: the mentor is checked, the status is not.
NoteReads(v, a, u) ==
    /\ mentor[a] # None
    /\ AdminOrMentor(u, a)
    /\ ArchivedIsReadOnly(u, a)
    /\ Arrives(v, "note", a, u, None)
    /\ UNCHANGED <<mentor, row>>

NoteWrites(v, w) == visit[v].doing = "note" /\ Inserts(v, w, "note")

\* createProgramAMilestone, updateProgramAMilestone
TrackingReads(v, a, u, what) ==
    /\ status[a] \in Tracked
    /\ AdminOrMentor(u, a)
    /\ ArchivedIsReadOnly(u, a)
    /\ Arrives(v, what, a, u, None)
    /\ UNCHANGED <<mentor, row>>

MilestoneInserts(v, w) == visit[v].doing = "milestone" /\ Inserts(v, w, "milestone")

\* findByIdForApplication and the update: a milestone is never removed.
MilestoneUpdates(v, w) ==
    /\ visit[v].doing = "progress"
    /\ row[w] # None
    /\ row[w].kind = "milestone" /\ row[w].on = visit[v].on
    /\ row' = [row EXCEPT ![w].edited = TRUE]
    /\ Leaves(v)
    /\ UNCHANGED mentor

-----------------------------------------------------------------------------
\* The endpoints of an administrator and a mentor that check ...
MentorshipChecks(v, a) ==
    \/ \E m \in Mentors : AssignReads(v, a, m)
    \/ \E u \in Users : NoteReads(v, a, u)
    \/ \E u \in Users, what \in {"milestone", "progress"} : TrackingReads(v, a, u, what)

\* ... and then write.
MentorshipWrites(v) ==
    \/ AssignWrites(v)
    \/ \E w \in Rows : NoteWrites(v, w) \/ MilestoneInserts(v, w) \/ MilestoneUpdates(v, w)

=============================================================================
