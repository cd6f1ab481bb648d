--------------------------- MODULE ProgramBBacklog ---------------------------
(***************************************************************************)
(* ProgramBBacklogService: the life of a backlog item, the company's       *)
(* decisions on its candidates and the hand-off to a project.              *)
(*                                                                         *)
(* Every write but the insert of create runs in a SERIALIZABLE transaction, *)
(* so one handler is one action.  The status some handlers read before     *)
(* their transaction is repeated by a conditional update inside it (status *)
(* IN ...): finding it wrong only refuses the request earlier.             *)
(***************************************************************************)
EXTENDS ProgramBState

\* The company user is an active member of the organisation: a member who was
\* suspended, or left, can neither be given an item nor carry one further.
ActiveMember(u) == u \in activeMembers

\* ensureProductOwnerFromSameOrganization, for the owner the item has.
OwnerIsActive(i) == ActiveMember(itemOwner[i])

-----------------------------------------------------------------------------
\* create.  The owner, if there is one, was an active member when the handler
\* checked, and may have been suspended since.
CreateItem(i, u, ready) ==
    /\ itemStatus[i] = "ABSENT"
    /\ itemStatus' = [itemStatus EXCEPT ![i] = "DRAFT"]
    /\ itemReady' = [itemReady EXCEPT ![i] = ready]
    /\ itemOwner' = [itemOwner EXCEPT ![i] = u]
    /\ UNCHANGED <<appVars, projVars, envVars, reqVars>>

\* update: texts, budget and owner of a draft, in any combination; the owner
\* is checked as in create.
UpdateItem(i, u, ready) ==
    /\ itemStatus[i] = "DRAFT"
    /\ itemReady' = [itemReady EXCEPT ![i] = ready]
    /\ itemOwner' = [itemOwner EXCEPT ![i] = u]
    /\ UNCHANGED <<itemStatus, appVars, projVars, envVars, reqVars>>

\* remove: deleteDraftById.
RemoveItem(i) ==
    /\ itemStatus[i] = "DRAFT"
    /\ itemStatus' = [itemStatus EXCEPT ![i] = "ABSENT"]
    /\ itemReady' = [itemReady EXCEPT ![i] = FALSE]
    /\ itemOwner' = [itemOwner EXCEPT ![i] = None]
    /\ UNCHANGED <<appVars, projVars, envVars, reqVars>>

\* Faulty variant: the owner may also change after the hand-off.
OwnerAssignableLate == {"DRAFT", "PUBLISHED", "IN_PAIRING", "ASSIGNED"}

\* assignProductOwner, up to the hand-off.
OwnerAssignable == {"DRAFT", "PUBLISHED", "IN_PAIRING"}

AssignProductOwner(i, u) ==
    /\ itemStatus[i] \in OwnerAssignable
    /\ ActiveMember(u)
    /\ itemOwner' = [itemOwner EXCEPT ![i] = u]
    /\ UNCHANGED <<itemStatus, itemReady, appVars, projVars, envVars, reqVars>>

\* ensurePublishReadiness
ReadyToPublish(i) == itemReady[i] /\ itemOwner[i] # None

Publish(i) ==
    /\ itemStatus[i] = "DRAFT"
    /\ ReadyToPublish(i)
    /\ OwnerIsActive(i)
    /\ itemStatus' = [itemStatus EXCEPT ![i] = "PUBLISHED"]
    /\ UNCHANGED <<itemReady, itemOwner, appVars, projVars, envVars, reqVars>>

\* Faulty variant: an item in pairing may be archived too.
ArchivableInPairing == {"DRAFT", "PUBLISHED", "IN_PAIRING"}

Archivable == {"DRAFT", "PUBLISHED"}

Archive(i) ==
    /\ itemStatus[i] \in Archivable
    /\ itemStatus' = [itemStatus EXCEPT ![i] = "ARCHIVED"]
    /\ UNCHANGED <<itemReady, itemOwner, appVars, projVars, envVars, reqVars>>

-----------------------------------------------------------------------------
\* Faulty variant: only the first of the two checks.
DecisionsUnlessArchived(i) == itemStatus[i] # "ARCHIVED"

\* ensureCandidateDecisionsAllowed
CandidateDecisionsAllowed(i) == itemStatus[i] \in {"PUBLISHED", "IN_PAIRING"}

\* Faulty variant: the item stays in the listing.
StayPublished(i) == itemStatus' = itemStatus

\* The first positive decision takes a published item out of the listing.
EnterPairing(i) ==
    itemStatus' = IF itemStatus[i] = "PUBLISHED"
                  THEN [itemStatus EXCEPT ![i] = "IN_PAIRING"]
                  ELSE itemStatus

\* shortlistCandidate of a submitted candidate; repeating it changes nothing.
ShortlistCandidate(a) ==
    /\ appStatus[a] = "SUBMITTED"
    /\ CandidateDecisionsAllowed(appItem[a])
    /\ appStatus' = [appStatus EXCEPT ![a] = "SHORTLISTED"]
    /\ EnterPairing(appItem[a])
    /\ UNCHANGED <<itemReady, itemOwner, appItem, appTeam, projVars, envVars,
                   reqVars>>

Decidable == {"SUBMITTED", "SHORTLISTED"}

\* acceptCandidate: the other open candidates of the item lose.
AcceptCandidate(a) ==
    /\ appStatus[a] \in Decidable
    /\ CandidateDecisionsAllowed(appItem[a])
    /\ WinnerSlotFree(a)
    /\ appStatus' = [b \in Apps |->
                        IF b = a THEN "ACCEPTED"
                        ELSE IF appItem[b] = appItem[a] /\ appStatus[b] \in Decidable
                             THEN "REJECTED"
                             ELSE appStatus[b]]
    /\ EnterPairing(appItem[a])
    /\ UNCHANGED <<itemReady, itemOwner, appItem, appTeam, projVars, envVars,
                   reqVars>>

\* rejectCandidate leaves the item where it is.
RejectCandidate(a) ==
    /\ appStatus[a] \in Decidable
    /\ CandidateDecisionsAllowed(appItem[a])
    /\ appStatus' = [appStatus EXCEPT ![a] = "REJECTED"]
    /\ UNCHANGED <<itemVars, appItem, appTeam, projVars, envVars, reqVars>>

-----------------------------------------------------------------------------
\* createProjectFromCandidate, when the candidate has no project yet.  The
\* item may be in any status but ARCHIVED.
HandOff(a) ==
    LET i == appItem[a] IN
    /\ appStatus[a] = "ACCEPTED"
    /\ projStatus[a] = "ABSENT"
    /\ itemStatus[i] # "ARCHIVED"
    /\ OwnerIsActive(i)
    /\ WinnerSlotFree(a)
    /\ projStatus' = [projStatus EXCEPT ![a] = "ACTIVE"]
    /\ projOwner' = [projOwner EXCEPT ![a] = itemOwner[i]]
    /\ appStatus' = [appStatus EXCEPT ![a] = "PROJECT_CREATED"]
    /\ itemStatus' = [itemStatus EXCEPT ![i] = "ASSIGNED"]
    /\ UNCHANGED <<itemReady, itemOwner, appItem, appTeam, projMentor, accepted,
                   envVars, reqVars>>

\* createProjectFromCandidate again: the project stands, and the candidate is
\* marked PROJECT_CREATED whatever its status has become.
HandOffAgain(a) ==
    /\ projStatus[a] # "ABSENT"
    /\ appStatus[a] # "PROJECT_CREATED"
    /\ itemStatus[appItem[a]] # "ARCHIVED"
    /\ WinnerSlotFree(a)
    /\ appStatus' = [appStatus EXCEPT ![a] = "PROJECT_CREATED"]
    /\ UNCHANGED <<itemVars, appItem, appTeam, projVars, envVars, reqVars>>

-----------------------------------------------------------------------------
\* The organisation edits its items.
ItemNext ==
    \/ \E i \in Items, u \in Users \cup {None}, ready \in BOOLEAN :
          CreateItem(i, u, ready) \/ UpdateItem(i, u, ready)
    \/ \E i \in Items : RemoveItem(i) \/ Publish(i) \/ Archive(i)
    \/ \E i \in Items, u \in Users : AssignProductOwner(i, u)

\* It decides on the candidates of one of them.
CandidateNext ==
    \E a \in Apps : \/ ShortlistCandidate(a)
                    \/ AcceptCandidate(a)
                    \/ RejectCandidate(a)
                    \/ HandOff(a)
                    \/ HandOffAgain(a)

BacklogNext == ItemNext \/ CandidateNext

=============================================================================
