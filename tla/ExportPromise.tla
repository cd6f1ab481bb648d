----------------------------- MODULE ExportPromise -----------------------------
(***************************************************************************)
(* What the export of reports promises an administrator, without requests, *)
(* queue, workers, files and links.                                        *)
(*                                                                         *)
(* Nothing is handed over before it is on record.  An export that is put   *)
(* to work has been recorded too; it may be tried as often as it takes,    *)
(* but once it is said to be completed or failed that is final, and of a   *)
(* failed one nothing is handed over any more.  A small report is handed   *)
(* over at once and never put to work.                                     *)
(***************************************************************************)

CONSTANT Exports

VARIABLES
    recorded,   \* the audit event of each export is stored
    handed,     \* the administrator holds the report
    outcome     \* what is said of the export

vars == <<recorded, handed, outcome>>

Init ==
    /\ recorded = [j \in Exports |-> FALSE]
    /\ handed = [j \in Exports |-> FALSE]
    /\ outcome = [j \in Exports |-> "none"]

Record(j) ==
    /\ recorded' = [recorded EXCEPT ![j] = TRUE]
    /\ UNCHANGED <<handed, outcome>>

Begin(j) ==
    /\ recorded[j]
    /\ outcome[j] = "none"
    /\ outcome' = [outcome EXCEPT ![j] = "underway"]
    /\ UNCHANGED <<recorded, handed>>

Settle(j, how) ==
    /\ outcome[j] = "underway"
    /\ outcome' = [outcome EXCEPT ![j] = how]
    /\ UNCHANGED <<recorded, handed>>

HandOver(j) ==
    /\ recorded[j]
    /\ outcome[j] # "FAILED"
    /\ handed' = [handed EXCEPT ![j] = TRUE]
    /\ UNCHANGED <<recorded, outcome>>

Next ==
    \E j \in Exports :
        \/ Record(j)
        \/ Begin(j)
        \/ \E how \in {"COMPLETED", "FAILED"} : Settle(j, how)
        \/ HandOver(j)

Spec == Init /\ [][Next]_vars

=============================================================================
