------------------------ MODULE EligibilitySignals ------------------------
(***************************************************************************)
(* The eligibility signals of one application (EligibilitySignalsService): *)
(* five verdicts on its team and on the academic profiles of the members,  *)
(* stored row by row and computed again when a student changes his         *)
(* academic information, when the team changes, when the application is    *)
(* submitted and when somebody asks for them.                              *)
(*                                                                         *)
(* A computation reads the facts, then the stored rows, then upserts those *)
(* that differ.  Where a student or a reader caused it no transaction      *)
(* holds the steps together.                                               *)
(***************************************************************************)
EXTENDS Naturals, FiniteSets, Sequences

CONSTANTS
    Students, Leader,  \* the leader of the application's team is one of them
    Submissions,       \* bound: the requests, each sent once
    Limits,            \* the thresholds an administrator may give the call
    Null               \* the SQL null, and a row that is not there

ASSUME LeaderIsStudent == Leader \in Students
ASSUME NullIsNoSubmission == Null \notin Submissions

VARIABLES
    profile,      \* the StudentProfile rows
    submission,   \* how far each request is
    application,  \* status of the application of the team, if there is one
    members,      \* the TeamMember rows
    limits,       \* threshold of the call's EligibilityRuleConfig rows
    signals,      \* the EligibilitySignal rows by their code
    quiet         \* history: what has happened about the last computation

teamVars == <<application, members, limits>>
signalVars == <<application, members, limits, signals, quiet>>

HasProfile(p) == profile[p] # Null
Unsent == [doing |-> "idle"]
Done == [doing |-> "done"]

-----------------------------------------------------------------------------
(***************************************************************************)
(* The verdicts                                                            *)
(***************************************************************************)
Codes == <<"TEAM_SIZE_MIN", "DECLARATION_PRESENT", "ACADEMIC_EVIDENCE_PRESENT",
           "TRANSFERRED_SUBJECTS_MAX", "PROFILE_SUBJECTS_AVERAGE_MAX">>

Default == [TEAM_SIZE_MIN |-> 3, TRANSFERRED_SUBJECTS_MAX |-> 0,
            PROFILE_SUBJECTS_AVERAGE_MAX |-> 2]

\* Null stands for a rule that is absent, disabled, blank or not a number.
Limit(c) == IF limits[c] = Null THEN Default[c] ELSE limits[c]

\* What the reason of a signal names; the signal passes when that is nothing.
Against(c, team) ==
    CASE c = "TEAM_SIZE_MIN" ->
            IF Cardinality(team) >= Limit(c) THEN {} ELSE {<<Cardinality(team), Limit(c)>>}
      [] c = "DECLARATION_PRESENT" ->
            {p \in team : ~HasProfile(p) \/ profile[p].declared = Null}
      [] c = "ACADEMIC_EVIDENCE_PRESENT" ->
            {p \in team : ~HasProfile(p) \/ ~profile[p].evidence}
      [] c = "TRANSFERRED_SUBJECTS_MAX" ->
            {p \in team : HasProfile(p) /\ profile[p].transferred > Limit(c)}
      [] c = "PROFILE_SUBJECTS_AVERAGE_MAX" ->
            {p \in team : /\ HasProfile(p)
                          /\ profile[p].average # Null
                          /\ profile[p].average > Limit(c)}

Verdicts(team) == [c \in {Codes[i] : i \in 1..5} |-> Against(c, team)]

\* findActiveApplicationIdsByTeamId and findActiveApplicationIdsByStudentUserId
Active == {"DRAFT", "SUBMITTED"}

\* Faulty variant: only whether the signal passes is compared.
PassesOtherwise(results, c) ==
    c \in DOMAIN signals => (signals[c] = {}) # (results[c] = {})

\* The loop skips a code whose row has the same passed and the same reason.
Differs(results, c) == c \in DOMAIN signals => signals[c] # results[c]

Differing(results) ==
    LET cs == {c \in DOMAIN results : Differs(results, c)}
    IN [c \in cs |-> results[c]]

\* The rows after those of "results" were upserted.
Upserted(results) ==
    [c \in DOMAIN results \cup DOMAIN signals |->
        IF c \in DOMAIN results THEN results[c] ELSE signals[c]]

-----------------------------------------------------------------------------
(***************************************************************************)
(* A computation, and whether it ran with nothing changing around it       *)
(***************************************************************************)
Computing(m) == submission[m].doing \in {"computed", "recording"}

\* m computes, and is the only one to.
Begins(m) ==
    quiet' = IF \E k \in Submissions \ {m} : Computing(k) THEN "disturbed" ELSE "alone"

Finishes(m) ==
    /\ submission' = [submission EXCEPT ![m] = Done]
    /\ quiet' = IF quiet = "alone" THEN "settled" ELSE quiet

\* getEligibilitySignals: a computation for an application in any status.
GetEligibilitySignals(m) ==
    /\ submission[m] = Unsent
    /\ application # "NONE"
    /\ Begins(m)
    /\ submission' = [submission EXCEPT ![m] =
                      [doing |-> "computed", by |-> "reader", of |-> Null,
                       results |-> Verdicts(members)]]
    /\ UNCHANGED <<profile, teamVars, signals>>

\* recomputeForStudentApplications, after the academic information is stored
RecomputeForStudent(m) ==
    /\ submission[m].doing = "upserted"
    /\ IF application \in Active /\ submission[m].of \in members
       THEN /\ Begins(m)
            /\ submission' = [submission EXCEPT ![m] =
                  [doing |-> "computed", by |-> "student", of |-> Null,
                   results |-> Verdicts(members)]]
       ELSE submission' = [submission EXCEPT ![m] = Done] /\ UNCHANGED quiet
    /\ UNCHANGED <<profile, teamVars, signals>>

\* acceptInvite, in a READ COMMITTED transaction that has inserted the member;
\* the team of an application that is not a draft is locked.
AcceptComputes(m, p) ==
    /\ submission[m] = Unsent
    /\ p \notin members
    /\ application = "DRAFT"
    /\ Begins(m)
    /\ submission' = [submission EXCEPT ![m] =
                      [doing |-> "computed", by |-> "accept", of |-> p,
                       results |-> Verdicts(members \cup {p})]]
    /\ UNCHANGED <<profile, teamVars, signals>>

\* submit, in a READ COMMITTED transaction that has updated the status
SubmitComputes(m) ==
    /\ submission[m] = Unsent
    /\ application = "DRAFT"
    /\ Begins(m)
    /\ submission' = [submission EXCEPT ![m] =
                      [doing |-> "computed", by |-> "submit", of |-> Null,
                       results |-> Verdicts(members)]]
    /\ UNCHANGED <<profile, teamVars, signals>>

\* The stored rows are read; when none differs there is nothing to record.
ReadsSignals(m) ==
    LET r == submission[m] IN
    /\ r.doing = "computed"
    /\ IF r.by \in {"reader", "student"} /\ Differing(r.results) = <<>>
       THEN Finishes(m)
       ELSE /\ submission' = [submission EXCEPT ![m] =
                  [doing |-> "recording", by |-> r.by, of |-> r.of,
                   results |-> Differing(r.results)]]
            /\ UNCHANGED quiet
    /\ UNCHANGED <<profile, teamVars, signals>>

\* removeMember and leaveTeam read everything from one snapshot.
RemovalReads(m, p) ==
    /\ submission[m] = Unsent
    /\ p \in members \ {Leader}
    /\ application = "DRAFT"
    /\ Begins(m)
    /\ submission' = [submission EXCEPT ![m] =
                      [doing |-> "recording", by |-> "remove", of |-> p, seen |-> signals,
                       results |-> Differing(Verdicts(members \ {p}))]]
    /\ UNCHANGED <<profile, teamVars, signals>>

\* Outside a transaction the rows are upserted one by one, in the codes' order.
UpsertSignal(m) ==
    LET r == submission[m]
        left == DOMAIN r.results
        c == Codes[CHOOSE i \in 1..5 : Codes[i] \in left
                                       /\ \A j \in 1..(i - 1) : Codes[j] \notin left]
    IN /\ r.doing = "recording"
       /\ r.by \in {"reader", "student"}
       /\ signals' = Upserted([d \in {c} |-> r.results[d]])
       /\ IF left = {c}
          THEN Finishes(m)
          ELSE /\ submission' = [submission EXCEPT ![m] =
                     [doing |-> "recording", by |-> r.by, of |-> r.of,
                      results |-> [d \in left \ {c} |-> r.results[d]]]]
               /\ UNCHANGED quiet
       /\ UNCHANGED <<profile, teamVars>>

\* Inside one they appear with its other writes.  A removal fails when a row
\* it writes has been written since its snapshot.
CommitSignals(m) ==
    LET r == submission[m] IN
    /\ r.doing = "recording"
    /\ r.by \in {"accept", "submit", "remove"}
    /\ r.by = "accept" => r.of \notin members
    /\ r.by = "remove" =>
          /\ r.of \in members
          /\ \A c \in DOMAIN r.results \cap DOMAIN signals :
                c \in DOMAIN r.seen /\ r.seen[c] = signals[c]
    /\ signals' = Upserted(r.results)
    /\ members' = CASE r.by = "accept" -> members \cup {r.of}
                    [] r.by = "remove" -> members \ {r.of}
                    [] OTHER -> members
    /\ application' = IF r.by = "submit" THEN "SUBMITTED" ELSE application
    /\ Finishes(m)
    /\ UNCHANGED <<profile, limits>>

-----------------------------------------------------------------------------
\* A decision rejects the application, or it is archived.
CloseApplication ==
    /\ application = "SUBMITTED"
    /\ application' = "CLOSED"
    /\ UNCHANGED <<profile, submission, members, limits, signals, quiet>>

\* updateCall replaces the rules of a call and computes nothing.
UpdateLimits(l) ==
    /\ application # "NONE"
    /\ limits # l
    /\ limits' = l
    /\ quiet' = "disturbed"
    /\ UNCHANGED <<profile, submission, application, members, signals>>

SignalsInit ==
    /\ application \in {"NONE", "DRAFT"}
    /\ members = {Leader}
    /\ limits \in IF application = "NONE" THEN {Default} ELSE Limits
    /\ signals = <<>>
    /\ quiet = "settled"

SignalsNext ==
    \/ CloseApplication
    \/ \E l \in Limits : UpdateLimits(l)
    \/ \E m \in Submissions :
          \/ GetEligibilitySignals(m)
          \/ RecomputeForStudent(m)
          \/ SubmitComputes(m)
          \/ \E p \in Students : AcceptComputes(m, p) \/ RemovalReads(m, p)
          \/ ReadsSignals(m)
          \/ UpsertSignal(m)
          \/ CommitSignals(m)

-----------------------------------------------------------------------------
(***************************************************************************)
(* Properties                                                              *)
(***************************************************************************)
\* Whatever overlapping or abandoned computations have left behind, one that
\* runs with nothing changing around it leaves all five signals as the team,
\* its profiles and the call's rules have them now.
SignalsHeal ==
    quiet = "settled" /\ application \in Active =>
        signals \in {<<>>, Verdicts(members)}

=============================================================================
