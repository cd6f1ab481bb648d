----------------------- MODULE ProgramBTeamApplication -----------------------
(***************************************************************************)
(* ProgramBTeamApplicationService.  Its handlers run outside a serializable *)
(* transaction: other requests interleave between the statements of one    *)
(* handler, so each handler is a sequence of steps of a request r.         *)
(***************************************************************************)
EXTENDS ProgramBState

(***************************************************************************)
(* submitApplication reads the item and the call (itemRead), then the      *)
(* team's other applications (noneActive), and inserts the row in a READ   *)
(* COMMITTED transaction that checks only the call again.                  *)
(***************************************************************************)
SubmitReadsItem(r, i, t) ==
    /\ submitReq[r].step = "idle"
    /\ itemStatus[i] = "PUBLISHED"
    /\ activeCall
    /\ submitReq' = [submitReq EXCEPT
                        ![r] = [step |-> "itemRead", item |-> i, team |-> t]]
    /\ UNCHANGED <<itemVars, appVars, projVars, envVars, withdrawReq>>

HasActiveApplication(i, t) ==
    \E a \in Apps : appItem[a] = i /\ appTeam[a] = t /\ appStatus[a] \in Active

SubmitFindsNoneActive(r) ==
    /\ submitReq[r].step = "itemRead"
    /\ ~HasActiveApplication(submitReq[r].item, submitReq[r].team)
    /\ submitReq' = [submitReq EXCEPT ![r].step = "noneActive"]
    /\ UNCHANGED <<itemVars, appVars, projVars, envVars, withdrawReq>>

SubmitInserts(r, a) ==
    /\ submitReq[r].step = "noneActive"
    /\ activeCall
    /\ appStatus[a] = "ABSENT"
    /\ appStatus' = [appStatus EXCEPT ![a] = "SUBMITTED"]
    /\ appItem' = [appItem EXCEPT ![a] = submitReq[r].item]
    /\ appTeam' = [appTeam EXCEPT ![a] = submitReq[r].team]
    /\ submitReq' = [submitReq EXCEPT ![r] = IdleSubmit]
    /\ UNCHANGED <<itemVars, projVars, envVars, withdrawReq>>

\* Either check fails, with a conflict response.
SubmitFails(r) ==
    /\ \/ /\ submitReq[r].step = "itemRead"
          /\ HasActiveApplication(submitReq[r].item, submitReq[r].team)
       \/ /\ submitReq[r].step = "noneActive"
          /\ ~activeCall
    /\ submitReq' = [submitReq EXCEPT ![r] = IdleSubmit]
    /\ UNCHANGED <<itemVars, appVars, projVars, envVars, withdrawReq>>

-----------------------------------------------------------------------------
(***************************************************************************)
(* withdrawApplication reads the row, checks that it is SUBMITTED, and     *)
(* then updates it by its identifier alone.                                *)
(***************************************************************************)
WithdrawReads(r, a) ==
    /\ withdrawReq[r] = None
    /\ appStatus[a] = "SUBMITTED"
    /\ withdrawReq' = [withdrawReq EXCEPT ![r] = a]
    /\ UNCHANGED <<itemVars, appVars, projVars, envVars, submitReq>>

WithdrawWrites(r) ==
    /\ withdrawReq[r] # None
    /\ appStatus' = [appStatus EXCEPT ![withdrawReq[r]] = "WITHDRAWN"]
    /\ withdrawReq' = [withdrawReq EXCEPT ![r] = None]
    /\ UNCHANGED <<itemVars, appItem, appTeam, projVars, envVars, submitReq>>

TeamApplicationNext ==
    \E r \in Requests :
        \/ \E i \in Items, t \in Teams : SubmitReadsItem(r, i, t)
        \/ SubmitFindsNoneActive(r)
        \/ \E a \in Apps : SubmitInserts(r, a)
        \/ SubmitFails(r)
        \/ \E a \in Apps : WithdrawReads(r, a)
        \/ WithdrawWrites(r)

=============================================================================
