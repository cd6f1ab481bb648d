---------------------------- MODULE ApplicationCase ----------------------------
(***************************************************************************)
(* What Program A promises a team that applies: the phases of its          *)
(* applications, without requests, events, questions and evaluations.      *)
(*                                                                         *)
(* An application is prepared, reviewed, perhaps sent back with a          *)
(* question, and decided once.  A granted application runs as a project    *)
(* and is filed in the end; a refused or filed one never comes back.  For  *)
(* one call a team has one application that is neither refused nor filed.  *)
(***************************************************************************)

CONSTANTS Apps, Calls, None

VARIABLES
    phase,      \* the phase of each application
    forCall     \* the call it answers

vars == <<phase, forCall>>

Phase == {"none", "preparing", "review", "question", "granted", "refused", "filed"}

\* Refused and filed applications leave the call to a new attempt.
Closed == {"none", "refused", "filed"}

Init ==
    /\ phase = [a \in Apps |-> "none"]
    /\ forCall = [a \in Apps |-> None]

Prepare(a, c) ==
    /\ phase[a] = "none"
    /\ \A b \in Apps : forCall[b] = c => phase[b] \in Closed
    /\ phase' = [phase EXCEPT ![a] = "preparing"]
    /\ forCall' = [forCall EXCEPT ![a] = c]

Moves(a, from, to) ==
    /\ phase[a] \in from
    /\ phase' = [phase EXCEPT ![a] = to]
    /\ UNCHANGED forCall

Next ==
    \E a \in Apps :
        \/ \E c \in Calls : Prepare(a, c)
        \/ Moves(a, {"preparing"}, "review")
        \/ Moves(a, {"review"}, "question")
        \/ Moves(a, {"question"}, "review")
        \/ Moves(a, {"review"}, "granted")
        \/ Moves(a, {"review", "question"}, "refused")
        \/ Moves(a, {"granted"}, "filed")

Spec == Init /\ [][Next]_vars

=============================================================================
