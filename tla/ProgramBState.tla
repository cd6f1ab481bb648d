---------------------------- MODULE ProgramBState ----------------------------
(***************************************************************************)
(* The PostgreSQL tables of Program B, shared by the three services that   *)
(* work on them: company backlog items, the applications of student teams  *)
(* for an item, and the execution project an item's winner is handed to.   *)
(*                                                                         *)
(* A row's identifier is a member of Items or Apps; "ABSENT" marks an      *)
(* identifier that names no row.  A project carries its candidate's        *)
(* identifier, because ProgramBProject.teamApplicationId is unique.        *)
(*                                                                         *)
(* Who may call an operation (role, organisation, team leadership) is left *)
(* out: some authorised caller always exists, and a refused call changes   *)
(* nothing.  Texts, dates, budgets and e-mails are left out too.           *)
(***************************************************************************)

CONSTANTS
    Items,      \* backlog item identifiers of one organisation
    Teams,      \* student teams, each with a leader who may apply
    Users,      \* company users of the organisation
    Mentors,    \* active mentors a reviewer may assign
    Apps,       \* team application identifiers (bounds the table)
    Requests,   \* HTTP requests that can be in flight at the same time
    None        \* the SQL null

ASSUME NoneAssumption ==
    None \notin Items \cup Teams \cup Users \cup Mentors \cup Apps

VARIABLES
    itemStatus,     \* BacklogItem.status
    itemReady,      \* title, description and a positive budget are present
    itemOwner,      \* BacklogItem.productOwnerUserId
    appStatus,      \* ProgramBTeamApplication.status
    appItem,        \* ProgramBTeamApplication.backlogItemId
    appTeam,        \* ProgramBTeamApplication.teamId
    projStatus,     \* ProgramBProject.status, by teamApplicationId
    projOwner,      \* ProgramBProject.productOwnerUserId
    projMentor,     \* ProgramBProject.mentorUserId
    accepted,       \* the sides whose final acceptance is recorded
    activeCall,     \* hasActiveProgramBCall(now)
    activeMembers,  \* ACTIVE members of the organisation
    submitReq,      \* progress of the submitApplication handlers
    withdrawReq     \* the application each withdrawApplication handler has read

itemVars == <<itemStatus, itemReady, itemOwner>>
appVars  == <<appStatus, appItem, appTeam>>
projVars == <<projStatus, projOwner, projMentor, accepted>>
envVars  == <<activeCall, activeMembers>>
reqVars  == <<submitReq, withdrawReq>>
vars == <<itemVars, appVars, projVars, envVars, reqVars>>

-----------------------------------------------------------------------------
ItemStatus == {"DRAFT", "PUBLISHED", "IN_PAIRING", "ASSIGNED",
               "IN_REALIZATION", "CLOSED", "ARCHIVED"}

AppStatus == {"SUBMITTED", "SHORTLISTED", "ACCEPTED", "REJECTED",
              "WITHDRAWN", "PROJECT_CREATED"}

\* The statuses BLOCKED and COMPLETED of the enum are never written.
ProjStatus == {"ACTIVE", "CLOSED"}

Sides == {"COMPANY", "NTI"}

\* An application that still takes part in the selection, or has won it.
Winning == {"ACCEPTED", "PROJECT_CREATED"}
Active  == {"SUBMITTED", "SHORTLISTED"} \cup Winning

\* A submitApplication handler between its database calls.
SubmitStep == {"idle", "itemRead", "noneActive"}
SubmitRequest == [step : SubmitStep, item : Items \cup {None},
                  team : Teams \cup {None}]
IdleSubmit == [step |-> "idle", item |-> None, team |-> None]

ProjectOf(i) == {a \in Apps : appItem[a] = i /\ projStatus[a] # "ABSENT"}

\* Faulty variant: the index does not exist.
WinnerSlotUnchecked(a) == TRUE

\* The partial unique index single_winner_per_backlog_key lets candidate a
\* of its item take a winning status only if no other candidate holds one.
WinnerSlotFree(a) ==
    \A b \in Apps \ {a} : appItem[b] = appItem[a] => appStatus[b] \notin Winning

=============================================================================
