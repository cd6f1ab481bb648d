--------------------------- MODULE ProgramBProjects ---------------------------
(***************************************************************************)
(* ProgramBProjectsService: the execution of a project and its final       *)
(* acceptance.  Every handler modelled here runs in a SERIALIZABLE         *)
(* transaction and is one action.  Milestones, notes, reviews and the      *)
(* reward are rows that no property tells apart: recording one shows only  *)
(* in what it does to the backlog item.                                    *)
(***************************************************************************)
EXTENDS ProgramBState

\* ensureProjectWritable
Writable(a) == projStatus[a] \in ProjStatus \ {"CLOSED"}

\* Faulty variant: the item's status is not looked at.
PromoteAlways(i) == itemStatus' = [itemStatus EXCEPT ![i] = "IN_REALIZATION"]

\* promoteBacklogToRealizationIfNeeded
PromoteToRealization(i) ==
    itemStatus' = IF itemStatus[i] = "ASSIGNED"
                  THEN [itemStatus EXCEPT ![i] = "IN_REALIZATION"]
                  ELSE itemStatus

\* createMilestone, updateMilestone, createMentoringNote, createPoReview
RecordProgress(a) ==
    /\ Writable(a)
    /\ PromoteToRealization(appItem[a])
    /\ UNCHANGED <<itemReady, itemOwner, appVars, projVars, envVars, reqVars>>

\* assignMentor, for a project in any status.
AssignMentor(a, m) ==
    /\ projStatus[a] # "ABSENT"
    /\ projMentor' = [projMentor EXCEPT ![a] = m]
    /\ PromoteToRealization(appItem[a])
    /\ UNCHANGED <<itemReady, itemOwner, appVars, projStatus, projOwner, accepted,
                   envVars, reqVars>>

-----------------------------------------------------------------------------
\* The update that records the acceptance of one side closes the project if
\* the row, as read, already carries the acceptance of the other side.
CloseOnLastAcceptance(a, side) ==
    projStatus' = IF accepted[a] \cup {side} = Sides
                  THEN [projStatus EXCEPT ![a] = "CLOSED"]
                  ELSE projStatus

\* recordFinalAcceptance, the first time for this side.  Once both sides have
\* accepted, the backlog item is closed with the project.
RecordFinalAcceptance(a, side) ==
    LET i == appItem[a] IN
    /\ Writable(a)
    /\ side \notin accepted[a]
    /\ accepted' = [accepted EXCEPT ![a] = @ \cup {side}]
    /\ CloseOnLastAcceptance(a, side)
    /\ itemStatus' = IF accepted[a] \cup {side} = Sides
                     THEN [itemStatus EXCEPT ![i] = "CLOSED"]
                     ELSE itemStatus
    /\ UNCHANGED <<itemReady, itemOwner, appVars, projOwner, projMentor, envVars,
                   reqVars>>

\* Faulty variant: one acceptance is enough to close the item.
RepeatOneAcceptance(a) ==
    /\ accepted[a] # {}
    /\ itemStatus' = [itemStatus EXCEPT ![appItem[a]] = "CLOSED"]
    /\ UNCHANGED <<itemReady, itemOwner, appVars, projVars, envVars, reqVars>>

\* recordFinalAcceptance repeated by a side: it writes the closed item again.
RepeatFinalAcceptance(a) ==
    /\ accepted[a] = Sides
    /\ itemStatus' = [itemStatus EXCEPT ![appItem[a]] = "CLOSED"]
    /\ UNCHANGED <<itemReady, itemOwner, appVars, projVars, envVars, reqVars>>

-----------------------------------------------------------------------------
\* The members of a project report on it.
ProgressNext == \E a \in Apps : RecordProgress(a)

\* A reviewer names its mentor; the company and NTI accept its result.
AcceptanceNext ==
    \E a \in Apps :
        \/ \E m \in Mentors : AssignMentor(a, m)
        \/ \E side \in Sides : RecordFinalAcceptance(a, side)
        \/ RepeatFinalAcceptance(a)

ProjectsNext == ProgressNext \/ AcceptanceNext

=============================================================================
