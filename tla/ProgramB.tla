------------------------------- MODULE ProgramB -------------------------------
(***************************************************************************)
(* Program B as a whole: the backlog, team application and project         *)
(* services over the same tables, while members of the organisation are    *)
(* suspended and reinstated and calls open and close.                      *)
(***************************************************************************)
EXTENDS ProgramBBacklog, ProgramBTeamApplication, ProgramBProjects

Init ==
    /\ itemStatus = [i \in Items |-> "ABSENT"]
    /\ itemReady = [i \in Items |-> FALSE]
    /\ itemOwner = [i \in Items |-> None]
    /\ appStatus = [a \in Apps |-> "ABSENT"]
    /\ appItem = [a \in Apps |-> None]
    /\ appTeam = [a \in Apps |-> None]
    /\ projStatus = [a \in Apps |-> "ABSENT"]
    /\ projOwner = [a \in Apps |-> None]
    /\ projMentor = [a \in Apps |-> None]
    /\ accepted = [a \in Apps |-> {}]
    /\ activeCall = FALSE
    /\ activeMembers = Users
    /\ submitReq = [r \in Requests |-> IdleSubmit]
    /\ withdrawReq = [r \in Requests |-> None]

\* An administrator opens or closes a call, or its time window does.
CallChanges ==
    /\ activeCall' = ~activeCall
    /\ UNCHANGED <<itemVars, appVars, projVars, activeMembers, reqVars>>

\* An administrator suspends or reinstates a member (updateStatus).
MemberStatusChanges(u) ==
    /\ activeMembers' = IF u \in activeMembers THEN activeMembers \ {u}
                                               ELSE activeMembers \cup {u}
    /\ UNCHANGED <<itemVars, appVars, projVars, activeCall, reqVars>>

Next ==
    \/ BacklogNext
    \/ TeamApplicationNext
    \/ ProjectsNext
    \/ CallChanges
    \/ \E u \in Users : MemberStatusChanges(u)

Spec == Init /\ [][Next]_vars

-----------------------------------------------------------------------------
(***************************************************************************)
(* Invariants                                                              *)
(***************************************************************************)

\* Every column holds a value of its type; an application row names its item
\* and team, and a project row its product owner.
TypeOK ==
    /\ itemStatus \in [Items -> ItemStatus \cup {"ABSENT"}]
    /\ itemReady \in [Items -> BOOLEAN]
    /\ itemOwner \in [Items -> Users \cup {None}]
    /\ appStatus \in [Apps -> AppStatus \cup {"ABSENT"}]
    /\ appItem \in [Apps -> Items \cup {None}]
    /\ appTeam \in [Apps -> Teams \cup {None}]
    /\ projStatus \in [Apps -> ProjStatus \cup {"ABSENT"}]
    /\ projOwner \in [Apps -> Users \cup {None}]
    /\ projMentor \in [Apps -> Mentors \cup {None}]
    /\ accepted \in [Apps -> SUBSET Sides]
    /\ activeCall \in BOOLEAN
    /\ activeMembers \subseteq Users
    /\ submitReq \in [Requests -> SubmitRequest]
    /\ withdrawReq \in [Requests -> Apps \cup {None}]
    /\ \A a \in Apps : appStatus[a] # "ABSENT" =>
                          appItem[a] \in Items /\ appTeam[a] \in Teams
    /\ \A a \in Apps : projStatus[a] # "ABSENT" =>
                          appStatus[a] # "ABSENT" /\ projOwner[a] \in Users
    /\ \A r \in Requests : submitReq[r].step # "idle" =>
                          submitReq[r].item \in Items /\ submitReq[r].team \in Teams
    /\ \A r \in Requests : withdrawReq[r] # None =>
                          appStatus[withdrawReq[r]] # "ABSENT"

\* An item never has two winners, however late a submission or a withdrawal
\* lands between the company's decisions.
SingleWinner ==
    \A a, b \in Apps :
        /\ appStatus[a] \in Winning
        /\ appStatus[b] \in Winning
        /\ appItem[a] = appItem[b]
        => a = b

\* An item is executed by at most one project.  No index of the database says
\* so: a project's key is its candidate, and a withdrawal that lands late can
\* take the winning status from the candidate of a running project.
OneProjectPerItem ==
    \A a, b \in Apps :
        /\ projStatus[a] # "ABSENT"
        /\ projStatus[b] # "ABSENT"
        /\ appItem[a] = appItem[b]
        => a = b

\* The item is handed off exactly while a project of it exists, and closed
\* exactly when that project is.
HandedOff == {"ASSIGNED", "IN_REALIZATION", "CLOSED"}

ItemFollowsProject ==
    \A i \in Items :
        /\ itemStatus[i] \in HandedOff <=> ProjectOf(i) # {}
        /\ itemStatus[i] = "CLOSED" <=> \E a \in ProjectOf(i) : projStatus[a] = "CLOSED"

\* An accepted candidate still waits in the pairing of its item, so it can be
\* handed off; a candidate with PROJECT_CREATED has its project.
WinnerAgreesWithItem ==
    \A a \in Apps :
        /\ appStatus[a] = "ACCEPTED" =>
              itemStatus[appItem[a]] = "IN_PAIRING" /\ projStatus[a] = "ABSENT"
        /\ appStatus[a] = "PROJECT_CREATED" => projStatus[a] # "ABSENT"

\* A draft, published or archived item has no candidate past SUBMITTED but
\* losers: a decision in a team's favour is never stranded by an archive.
NoDecisionStranded ==
    \A a \in Apps :
        appStatus[a] \in Active \ {"SUBMITTED"} =>
            itemStatus[appItem[a]] \notin {"ABSENT", "DRAFT", "PUBLISHED", "ARCHIVED"}

\* A project is closed exactly when the company and NTI have both accepted it.
ClosedByBothSides ==
    \A a \in Apps : projStatus[a] = "CLOSED" <=> accepted[a] = Sides

\* The product owner copied into the project stays the item's product owner.
OwnerOfProjectIsOwnerOfItem ==
    \A a \in Apps : projStatus[a] # "ABSENT" => projOwner[a] = itemOwner[appItem[a]]

-----------------------------------------------------------------------------
(***************************************************************************)
(* Action properties                                                       *)
(***************************************************************************)

\* The statuses an item may reach in one step from a status past DRAFT.
Onward(s) ==
    CASE s = "PUBLISHED"      -> {"IN_PAIRING", "ARCHIVED"}
      [] s = "IN_PAIRING"     -> {"ASSIGNED"}
      [] s = "ASSIGNED"       -> {"IN_REALIZATION", "CLOSED"}
      [] s = "IN_REALIZATION" -> {"CLOSED"}
      [] OTHER                -> {}

\* A published item never moves back, and neither a closed nor an archived
\* item moves at all: not even when a mentor is assigned after the close, or
\* an accepted candidate is handed off late.
ItemOnlyMovesForward ==
    [][\A i \in Items :
          itemStatus[i] \notin {"ABSENT", "DRAFT"} =>
              itemStatus'[i] \in Onward(itemStatus[i]) \cup {itemStatus[i]}]_vars

\* A candidate that lost or left never comes back into the selection; the
\* only way back is the mark PROJECT_CREATED of a project it already has.
LosersStayOut ==
    [][\A a \in Apps :
          appStatus[a] \in {"REJECTED", "WITHDRAWN"} =>
              \/ appStatus'[a] \in {"REJECTED", "WITHDRAWN"}
              \/ appStatus'[a] = "PROJECT_CREATED" /\ projStatus[a] # "ABSENT"]_vars

=============================================================================
