---------------------------- MODULE Conversations ----------------------------
(***************************************************************************)
(* The conversations about a Program A application or a Program B project  *)
(* (ConversationsService, ConversationAccessService), beside the mentoring *)
(* and the life of the application they are about.                         *)
(*                                                                         *)
(* A message is checked against its anchor, the application or project,    *)
(* outside the transaction that writes it.  The conversation row is        *)
(* upserted with the first message and carries nothing else.               *)
(***************************************************************************)
EXTENDS Mentorship

VARIABLE closed      \* the projects with status CLOSED

workVars == <<mentorshipVars, closed>>
allVars  == <<vars, workVars>>

Anchors  == Apps \cup Projects
Channels == {"INTERNAL", "PARTICIPANTS"}

\* canReadProgramA, isProgramBInternalMember
Internal(u, x) == u \in {"admin", "insider"} \/ AssignedMentor(u, x)

\* assertProgramAChannelWritable: an application has one channel.
WritableA(u, a, channel) ==
    /\ status[a] # "ABSENT"
    /\ channel = "INTERNAL"
    /\ Internal(u, a)
    /\ status[a] = "ARCHIVED" => u = "admin"

\* canReadProgramB
ReadableB(u, p, channel) ==
    \/ Internal(u, p)
    \/ channel = "PARTICIPANTS" /\ u = "client"

\* canWriteProgramBParticipants
Participates(u, p) == u \in {"admin", "client"} \/ AssignedMentor(u, p)

\* assertProgramBChannelWritable
WritableB(u, p, channel) ==
    /\ ReadableB(u, p, channel)
    /\ channel = "PARTICIPANTS" => Participates(u, p)
    /\ p \in closed => u = "admin"

Writable(u, x, channel) ==
    \/ x \in Apps /\ WritableA(u, x, channel)
    \/ x \in Projects /\ WritableB(u, x, channel)

-----------------------------------------------------------------------------
\* createProgramAMessage and createProgramBMessage check the anchor, then the
\* attachments ...
ApplicationPostReads(v, a, channel, u) ==
    /\ WritableA(u, a, channel)
    /\ Arrives(v, "post", a, u, channel)
    /\ UNCHANGED <<mentor, row, closed>>

ProjectPostReads(v, p, channel, u) ==
    /\ WritableB(u, p, channel)
    /\ Arrives(v, "post", p, u, channel)
    /\ UNCHANGED <<mentor, row, closed>>

\* ... and insert the message.
PostWrites(v, w) ==
    /\ visit[v].doing = "post"
    /\ Inserts(v, w, "message")
    /\ UNCHANGED closed

\* updateMessage and deleteMessage load the message, its author's and not
\* deleted ...
MessageReads(v, w, u) ==
    /\ row[w] # None
    /\ row[w].kind = "message" /\ row[w].by = u /\ ~row[w].deleted
    /\ Arrives(v, "load", w, u, None)
    /\ UNCHANGED <<mentor, row, closed>>

\* Faulty variant: the channel is not checked.
MessageUnchecked(v, what) ==
    /\ visit[v].doing = "load"
    /\ visit' = [visit EXCEPT ![v].doing = what]
    /\ UNCHANGED <<mentor, row, closed>>

\* ... then its anchor (assertMessageChannelWritable) ...
MessageChecks(v, what) ==
    /\ visit[v].doing = "load"
    /\ LET m == row[visit[v].on] IN Writable(visit[v].by, m.on, m.channel)
    /\ visit' = [visit EXCEPT ![v].doing = what]
    /\ UNCHANGED <<mentor, row, closed>>

\* ... and update it by identifier, whatever became of either meanwhile.
EditWrites(v) ==
    /\ visit[v].doing = "edit"
    /\ row' = [row EXCEPT ![visit[v].on].edited = TRUE]
    /\ Leaves(v)
    /\ UNCHANGED <<mentor, closed>>

DeleteWrites(v) ==
    /\ visit[v].doing = "delete"
    /\ row' = [row EXCEPT ![visit[v].on].deleted = TRUE]
    /\ Leaves(v)
    /\ UNCHANGED <<mentor, closed>>

-----------------------------------------------------------------------------
\* ProgramBProjectsService.assignMentor, for a project in any status.
ProjectMentor(p, m) ==
    /\ mentor' = [mentor EXCEPT ![p] = m]
    /\ UNCHANGED <<row, visit, closed>>

\* The last of its two final acceptances closes a project.
ProjectCloses(p) ==
    /\ closed' = closed \cup {p}
    /\ UNCHANGED mentorshipVars

\* The endpoints that post a message, and change or delete one.
PostNext(v) ==
    \/ \E channel \in Channels, u \in Users :
          \/ \E a \in Apps : ApplicationPostReads(v, a, channel, u)
          \/ \E p \in Projects : ProjectPostReads(v, p, channel, u)
    \/ \E w \in Rows : PostWrites(v, w)

MessageNext(v) ==
    \/ \E w \in Rows, u \in Users : MessageReads(v, w, u)
    \/ \E what \in {"edit", "delete"} : MessageChecks(v, what)
    \/ EditWrites(v)
    \/ DeleteWrites(v)

VisitNext(v) ==
    \/ \E a \in Apps : MentorshipChecks(v, a) /\ UNCHANGED closed
    \/ MentorshipWrites(v) /\ UNCHANGED closed
    \/ GivesUp(v) /\ UNCHANGED closed
    \/ PostNext(v)
    \/ MessageNext(v)

WorkNext ==
    \/ \E v \in Visits : VisitNext(v)
    \/ \E p \in Projects, m \in Mentors : ProjectMentor(p, m)
    \/ \E p \in Projects : ProjectCloses(p)

WorkInit ==
    /\ Init
    /\ mentor = [x \in Anchors |-> None]
    /\ row = [w \in Rows |-> None]
    /\ visit = [v \in Visits |-> NoVisit]
    /\ closed = {}

\* Work on the applications goes on while they live.
WorkSpec ==
    /\ WorkInit
    /\ [][\/ Next /\ UNCHANGED workVars
          \/ WorkNext /\ UNCHANGED vars]_allVars

-----------------------------------------------------------------------------
(***************************************************************************)
(* Invariants                                                              *)
(***************************************************************************)

\* What a visit may be about, and what a row records.
Visit == [doing : {"mentor"}, on : Apps, by : {"admin"}, to : Mentors]
         \cup [doing : {"note", "milestone", "progress"}, on : Apps, by : Users, to : {None}]
         \cup [doing : {"post"}, on : Anchors, by : Users, to : Channels]
         \cup [doing : {"load", "edit", "delete"}, on : Rows, by : Users, to : {None}]
         \cup {NoVisit}

Row == [kind : {"note", "milestone"}, on : Apps, channel : {None}, by : Users,
        edited : BOOLEAN, deleted : {FALSE}]
       \cup [kind : {"message"}, on : Anchors, channel : Channels, by : Users,
             edited : BOOLEAN, deleted : BOOLEAN]

ASSUME NoneIsNoRecord == None \notin Row

\* Every column holds a value of its type, and a visit that loaded a message
\* names one.
WorkTypeOK ==
    /\ mentor \in [Anchors -> Mentors \cup {None}]
    /\ row \in [Rows -> Row \cup {None}]
    /\ visit \in [Visits -> Visit]
    /\ closed \subseteq Projects
    /\ \A v \in Visits : visit[v].doing \in {"load", "edit", "delete"} =>
          row[visit[v].on] # None /\ row[visit[v].on].kind = "message"

\* Only a granted application has a mentor or a milestone, and only one with a
\* mentor has notes: no grant is undone while a request that checked it is on
\* its way.  It takes a team that sends one submission at a time.
SupportIsOfGranted ==
    /\ \A a \in Apps : mentor[a] # None => status[a] \in Granted
    /\ \A w \in Rows : row[w] # None =>
          /\ row[w].kind = "milestone" => status[row[w].on] \in Granted
          /\ row[w].kind = "note" => mentor[row[w].on] # None

-----------------------------------------------------------------------------
(***************************************************************************)
(* Action properties                                                       *)
(***************************************************************************)

\* The ground of a user's right to write about x is gone: x is over, or
\* another mentor was assigned.
GroundGone(u, x) ==
    \/ u # "admin" /\ (x \in closed \/ (x \in Apps /\ status[x] = "ARCHIVED"))
    \/ u \in Mentors /\ mentor[x] # u

\* The visits of u that passed the check for x and have not written yet.
Passed(u, x) ==
    {v \in Visits :
        /\ visit[v].by = u
        /\ \/ visit[v].doing \in {"mentor", "note", "milestone", "progress", "post"}
              /\ visit[v].on = x
           \/ visit[v].doing \in {"edit", "delete"} /\ row[visit[v].on].on = x}

WrittenAbout(x) == {w \in Rows : row[w] # None /\ row[w].on = x}

\* Once the ground of a user's right is gone, the requests that passed the
\* check before may still write, each of them once, and no other does: the
\* notes, milestones and messages about x change only when a request that
\* passed is used up.
RightsEndWithTheirGround ==
    [][\A x \in Anchors :
          /\ \A u \in Users : GroundGone(u, x) /\ GroundGone(u, x)' =>
                Passed(u, x)' \subseteq Passed(u, x)
          /\ (\E w \in WrittenAbout(x)' : row'[w] # row[w]) =>
                \E u \in Users : Passed(u, x)' \subseteq Passed(u, x)
                                 /\ Passed(u, x)' # Passed(u, x)]_allVars

=============================================================================
