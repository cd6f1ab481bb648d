------------------------------- MODULE Seeds -------------------------------
(***************************************************************************)
(* The seed scripts: `prisma db seed` (prisma/seed/main.ts) and the        *)
(* developers' `seed:dev` (prisma/seed/dev.ts), run again after they were  *)
(* interrupted, at the same time as each other, on databases that are in   *)
(* use.  No script opens a transaction, so every statement is committed    *)
(* by itself.                                                              *)
(*                                                                         *)
(* A script is a sequence of instructions.  Most insert the rows of one    *)
(* fixture: a statement, or a loop of statements, which is one step here.  *)
(* What the rows say is left out; what is kept is which rows they refer    *)
(* to, by an identifier the script made up or by one it looked up, and     *)
(* what ON CONFLICT makes of a row that is there.                          *)
(***************************************************************************)
EXTENDS Naturals, Sequences, FiniteSets

CONSTANTS
    BaselineRuns,   \* the processes that run main.ts
    DevRuns,        \* the processes that run dev.ts
    Foreign,        \* the fixtures whose keys somebody else may have used
    DevsTogether,   \* bound: the developers who seed at the same time
    MaxCalls,       \* bound: the calls there ever are
    MaxChanges,     \* bound: what administrators and teams do to calls
    None            \* no call

ASSUME NoneIsNoCall == None \notin Nat

\* Nobody else has published a backlog item, which 003 would take for one of
\* its own.
ASSUME ForeignIsForeign == Foreign \cap {"SeedItems", "BacklogItems", "ExtraItems"} = {}

VARIABLES
    rows,        \* the runs whose rows of each fixture are there, or "other"
    calls,       \* the Call rows, in the order of their createdAt
    changes,     \* how often somebody else changed them
    pc,          \* the next instruction of each run, 0 when it does not run
    failed,      \* the instruction an error ended a run at
    started,     \* the runs that were started
    program,     \* callsSeed: the programs a run has still to seed
    duplicates,  \* callsSeed: what it does next, and the calls it has still to look at
    chosen,      \* programACallId
    skipped,     \* whether a run found the fixtures there
    alone,       \* whether no other run was under way at the same time
    tidy         \* whether nobody else changed a call since callsSeed began

callVars == <<program, duplicates, chosen>>
recordVars == <<skipped, alone, tidy>>
seedVars == <<rows, calls, changes, pc, failed, started, callVars, recordVars>>

Runs == BaselineRuns \cup DevRuns
Types == {"PROGRAM_A", "PROGRAM_B"}
Programs == <<"PROGRAM_A", "PROGRAM_B">>

-----------------------------------------------------------------------------
(***************************************************************************)
(* Instructions                                                            *)
(***************************************************************************)
Insert(fixture, conflict, names, finds) ==
    [do |-> "insert", fixture |-> fixture, conflict |-> conflict,
     names |-> names, finds |-> finds]

\* Go on after `body` when one of the fixtures is there.
Unless(fixtures, body) ==
    <<[do |-> "unless", fixtures |-> fixtures, skip |-> Len(body)]>> \o body

\* Go on after `body` when there is no call for Program A.
WithCall(body) == <<[do |-> "withCall", skip |-> Len(body)]>> \o body

(***************************************************************************)
(* A conflict of keys is                                                   *)
(*   "ignored"   ON CONFLICT DO NOTHING on a key that does not depend on   *)
(*               the run: a row that has the key stays as it is;           *)
(*   "none"      impossible, the rows have nothing but new identifiers;    *)
(*   "error"     an error.                                                 *)
(***************************************************************************)

\* 001-superadmin
Superadmin == Insert("Superadmin", "error", {}, {})

\* 003-program-b-backlog
SeedOrganization == Insert("SeedOrganization", "ignored", {}, {})
SeedOwner == Insert("SeedOwner", "error", {}, {"SeedOrganization"})
SeedItems == Insert("SeedItems", "none", {}, {"SeedOrganization"})

\* 005-university-email-domains
Domains == Insert("Domains", "ignored", {}, {})

(***************************************************************************)
(* 004-dev-fixtures.  Every identifier, those of IDS too, is a new UUID of *)
(* the process: a user whom ON CONFLICT (email) has left out has another.  *)
(***************************************************************************)
Universities    == Insert("Universities", "ignored", {}, {})
Faculties       == Insert("Faculties", "ignored", {}, {"Universities"})
Specializations == Insert("Specializations", "ignored", {}, {"Faculties"})
Organizations   == Insert("Organizations", "ignored", {}, {})

\* upsertUser ignores a conflict of addresses.
SystemUsers  == Insert("SystemUsers", "ignored", {}, {})
CompanyUsers == Insert("CompanyUsers", "ignored", {}, {"Organizations"})
Students     == Insert("Students", "ignored", {}, {})
Profiles     == Insert("Profiles", "none", {"Students"},
                       {"Universities", "Faculties", "Specializations"})
Skills       == Insert("Skills", "none", {"Profiles"}, {})

Teams   == Insert("Teams", "none", {"Students"}, {})
Members == Insert("Members", "none", {"Students", "Teams"}, {})

BacklogItems     == Insert("BacklogItems", "none", {}, {"Organizations", "CompanyUsers"})
TeamApplications == Insert("TeamApplications", "none",
                           {"BacklogItems", "Teams", "Students"}, {})
ActiveProject    == Insert("ActiveProject", "none",
                           {"BacklogItems", "TeamApplications", "Teams", "SystemUsers"},
                           {"CompanyUsers"})
ProjectMilestones == Insert("ProjectMilestones", "none", {"ActiveProject"}, {})
MentoringNotes    == Insert("MentoringNotes", "none", {"ActiveProject", "SystemUsers"}, {})
PoReview          == Insert("PoReview", "none", {"ActiveProject"}, {"CompanyUsers"})
NewProject        == Insert("NewProject", "none",
                            {"BacklogItems", "TeamApplications", "Teams"}, {"CompanyUsers"})

ChooseCall == [do |-> "chooseCall"]
Applications     == Insert("Applications", "none",
                           {"Teams", "Students", "SystemUsers", "Call"}, {})
Evaluations      == Insert("Evaluations", "none", {"Applications", "SystemUsers"}, {})
NeedsInfo        == Insert("NeedsInfo", "none", {"Applications", "SystemUsers"}, {})
StatusEvents     == Insert("StatusEvents", "none",
                           {"Applications", "Students", "SystemUsers"}, {})
Milestones       == Insert("Milestones", "none", {"Applications"}, {})
MentorshipNotes  == Insert("MentorshipNotes", "none", {"Applications", "SystemUsers"}, {})
Sections         == Insert("Sections", "none", {"Applications", "Students"}, {})

ExtraStaff         == Insert("ExtraStaff", "ignored", {}, {})
ExtraOrganizations == Insert("ExtraOrganizations", "ignored", {}, {})
ExtraStudents      == Insert("ExtraStudents", "ignored", {}, {})
\* the CV, the profile, the skills and the project of each extra student
ExtraProfiles      == Insert("ExtraProfiles", "none", {"ExtraStudents"},
                             {"Universities", "Faculties", "Specializations"})
CuratedFiles       == Insert("CuratedFiles", "none", {"Students", "Profiles"}, {})
ExtraTeams         == Insert("ExtraTeams", "none", {"Students", "ExtraStudents"}, {})
ExtraItems         == Insert("ExtraItems", "none", {},
                             {"Organizations", "CompanyUsers", "ExtraOrganizations"})
\* with their sections, events, milestones, notes and conversations
ExtraApplications  == Insert("ExtraApplications", "none",
                             {"ExtraTeams", "Students", "ExtraStudents", "SystemUsers",
                              "ExtraStaff", "Call"}, {})
\* makeConversation, of applications and projects of this run
ApplicationTalk    == Insert("ApplicationTalk", "none",
                             {"Applications", "Students", "SystemUsers"}, {})
\* with their applications, milestones, reviews, documents and conversations
ExtraProjects      == Insert("ExtraProjects", "none",
                             {"ExtraTeams", "ExtraItems", "SystemUsers", "ExtraStaff"},
                             {"CompanyUsers", "ExtraOrganizations"})
ProjectTalk        == Insert("ProjectTalk", "none",
                             {"ActiveProject", "Students", "SystemUsers"}, {"CompanyUsers"})

\* Faulty variant: the members come before the teams.
FixturesSwapped ==
    <<Universities, Faculties, Specializations, Organizations, SystemUsers, CompanyUsers,
      Students, Profiles, Skills, Members, Teams, BacklogItems, TeamApplications,
      ActiveProject, ProjectMilestones, MentoringNotes, PoReview, NewProject, ChooseCall>>
    \o WithCall(<<Applications, Evaluations, NeedsInfo, StatusEvents, Milestones,
                  MentorshipNotes, Sections>>)
    \o <<ExtraStaff, ExtraOrganizations, ExtraStudents, ExtraProfiles, CuratedFiles,
         ExtraTeams, ExtraItems>>
    \o WithCall(<<ExtraApplications, ApplicationTalk>>)
    \o <<ExtraProjects, ProjectTalk>>

DevFixtures ==
    <<Universities, Faculties, Specializations, Organizations, SystemUsers, CompanyUsers,
      Students, Profiles, Skills, Teams, Members, BacklogItems, TeamApplications,
      ActiveProject, ProjectMilestones, MentoringNotes, PoReview, NewProject, ChooseCall>>
    \o WithCall(<<Applications, Evaluations, NeedsInfo, StatusEvents, Milestones,
                  MentorshipNotes, Sections>>)
    \o <<ExtraStaff, ExtraOrganizations, ExtraStudents, ExtraProfiles, CuratedFiles,
         ExtraTeams, ExtraItems>>
    \o WithCall(<<ExtraApplications, ApplicationTalk>>)
    \o <<ExtraProjects, ProjectTalk>>

SeedSuperadmin == Unless({"Superadmin"}, <<Superadmin>>)

\* The programs of callsSeed, then the required documents.
SeedCalls == <<[do |-> "callsSeed"], [do |-> "programs"], ChooseCall,
               [do |-> "requireDocuments"]>>

\* Fixtures of 004 are published items too.
SeedBacklog ==
    Unless({"SeedItems", "BacklogItems", "ExtraItems"},
           <<SeedOrganization>> \o Unless({"SeedOwner"}, <<SeedOwner>>) \o <<SeedItems>>)

\* The marker is admin1, the first of the system users.
SeedFixtures == Unless({"SystemUsers"}, DevFixtures)

Baseline == SeedSuperadmin \o SeedCalls \o <<Domains>>
Dev == SeedSuperadmin \o SeedCalls \o SeedBacklog \o SeedFixtures

Script(r) == IF r \in DevRuns THEN Dev ELSE Baseline

FixturesOf(script) ==
    {script[i].fixture : i \in {k \in 1..Len(script) : script[k].do = "insert"}}
Fixtures == FixturesOf(Dev) \cup FixturesOf(Baseline)

-----------------------------------------------------------------------------
(***************************************************************************)
(* Running a script                                                        *)
(***************************************************************************)
Call == [type : Types, open : BOOLEAN,
         filed : BOOLEAN,   \* whether applications refer to it
         there : BOOLEAN]
Calls == DOMAIN calls
CallsOf(type) == {c \in Calls : calls[c].there /\ calls[c].type = type}

\* What callsSeed does next: for which call, and which calls come after it.
Step == [do : {"select", "insert", "open", "count", "delete"},
         call : Nat \cup {None}, rest : SUBSET Nat]
Selects == [do |-> "select", call |-> None, rest |-> {}]

At(r) == Script(r)[pc[r]]
Running(r) == pc[r] \in 1..Len(Script(r))
Done(r) == pc[r] = Len(Script(r)) + 1
GoTo(r, k) == pc' = [pc EXCEPT ![r] = k]
Proceeds(r) == GoTo(r, pc[r] + 1)

\* A process that ends takes along what it had looked up.
Ends(r) ==
    /\ GoTo(r, 0)
    /\ program' = [program EXCEPT ![r] = 0]
    /\ duplicates' = [duplicates EXCEPT ![r] = Selects]
    /\ chosen' = [chosen EXCEPT ![r] = None]
    /\ skipped' = [skipped EXCEPT ![r] = FALSE]
    /\ tidy' = [tidy EXCEPT ![r] = FALSE]

\* An error ends the process.
Fails(r) ==
    /\ Ends(r)
    /\ failed' = [failed EXCEPT ![r] = pc[r]]
    /\ UNCHANGED alone

SeedsInit ==
    /\ \E used \in SUBSET Foreign :
          rows = [h \in Fixtures |-> IF h \in used THEN {"other"} ELSE {}]
    /\ calls = <<>>
    /\ changes = 0
    /\ pc = [r \in Runs |-> 0]
    /\ failed = [r \in Runs |-> 0]
    /\ started = {}
    /\ program = [r \in Runs |-> 0]
    /\ duplicates = [r \in Runs |-> Selects]
    /\ chosen = [r \in Runs |-> None]
    /\ skipped = [r \in Runs |-> FALSE]
    /\ alone = [r \in Runs |-> FALSE]
    /\ tidy = [r \in Runs |-> FALSE]

Starts(r) ==
    LET others == {q \in Runs \ {r} : Running(q)} IN
    /\ r \notin started
    /\ r \in DevRuns => Cardinality(others \cap DevRuns) < DevsTogether
    /\ started' = started \cup {r}
    /\ GoTo(r, 1)
    /\ alone' = [q \in Runs |-> IF q = r THEN others = {} ELSE alone[q] /\ q \notin others]
    /\ UNCHANGED <<rows, calls, changes, failed, callVars, skipped, tidy>>

\* The process stops, or superadminSeed finds no password for a superadmin.
Interrupted(r) ==
    /\ Running(r)
    /\ Ends(r)
    /\ alone' = [alone EXCEPT ![r] = FALSE]
    /\ UNCHANGED <<rows, calls, changes, failed, started>>

\* SELECT id ... LIMIT 1, and on without the body when there is a row.
Looks(r) ==
    LET there == \E h \in At(r).fixtures : rows[h] # {} IN
    /\ Running(r) /\ At(r).do = "unless"
    /\ GoTo(r, pc[r] + 1 + IF there THEN At(r).skip ELSE 0)
    /\ skipped' = [skipped EXCEPT ![r] = @ \/ (there /\ At(r).fixtures = {"SystemUsers"})]
    /\ UNCHANGED <<rows, calls, changes, failed, started, callVars, alone, tidy>>

\* What the foreign keys of the rows refer to by an identifier that the run made
\* up is there under it.
RefersToRows(r, names) ==
    \A h \in names : IF h = "Call" THEN calls[chosen[r]].there
                     ELSE r \in rows[h]

Inserts(r) ==
    LET i == At(r) IN
    /\ Running(r) /\ i.do = "insert"
    /\ IF \/ \E h \in i.finds : rows[h] = {}
          \/ ~RefersToRows(r, i.names)
          \/ i.conflict = "error" /\ rows[i.fixture] # {}
       THEN Fails(r) /\ UNCHANGED rows
       ELSE /\ rows' = [rows EXCEPT ![i.fixture] =
                          IF i.conflict = "none" \/ @ = {}
                          THEN @ \cup {r} ELSE @]
            /\ Proceeds(r)
            /\ UNCHANGED <<failed, callVars, recordVars>>
    /\ UNCHANGED <<calls, changes, started>>

\* SELECT id FROM "Call" WHERE type = 'PROGRAM_A' LIMIT 1, in no order
ChoosesCall(r) ==
    LET found == CallsOf("PROGRAM_A") IN
    /\ Running(r) /\ At(r).do = "chooseCall"
    /\ \E c \in IF found = {} THEN {None} ELSE found : chosen' = [chosen EXCEPT ![r] = c]
    /\ Proceeds(r)
    /\ UNCHANGED <<rows, calls, changes, failed, started, program, duplicates, recordVars>>

ChecksCall(r) ==
    /\ Running(r) /\ At(r).do = "withCall"
    /\ GoTo(r, pc[r] + 1 + IF chosen[r] = None THEN At(r).skip ELSE 0)
    /\ UNCHANGED <<rows, calls, changes, failed, started, callVars, recordVars>>

-----------------------------------------------------------------------------
(***************************************************************************)
(* callsSeed: for each program the oldest call is opened, or one created,  *)
(* and the others are deleted as far as nobody applied for them.           *)
(***************************************************************************)
\* Somebody changes a call: what other runs of callsSeed found is old.
Disturbs(r) == tidy' = [q \in Runs |-> q = r /\ tidy[q]]

BeginsCalls(r) ==
    /\ Running(r) /\ At(r).do = "callsSeed"
    /\ program' = [program EXCEPT ![r] = 1]
    /\ duplicates' = [duplicates EXCEPT ![r] = Selects]
    /\ tidy' = [tidy EXCEPT ![r] = TRUE]
    /\ Proceeds(r)
    /\ UNCHANGED <<rows, calls, changes, failed, started, chosen, skipped, alone>>

\* Faulty variant: ORDER BY "createdAt" DESC
NewestOf(c, found) == c \in found /\ \A d \in found : d <= c

\* ORDER BY "createdAt" ASC
OldestOf(c, found) == c \in found /\ \A d \in found : c <= d

Turns(r, do, call, rest) ==
    duplicates' = [duplicates EXCEPT ![r] = [do |-> do, call |-> call, rest |-> rest]]

Handles(r, do) ==
    /\ Running(r) /\ At(r).do = "programs"
    /\ program[r] \in 1..2
    /\ duplicates[r].do = do

\* The calls of the next program are selected.  When there are none the
\* insertion follows in a step of its own.
SelectsCalls(r) ==
    LET found == CallsOf(Programs[program[r]]) IN
    /\ Handles(r, "select")
    /\ \/ found = {} /\ Turns(r, "insert", None, {})
       \/ \E c \in found : OldestOf(c, found) /\ Turns(r, "open", c, found \ {c})
    /\ UNCHANGED <<rows, calls, changes, pc, failed, started, program, chosen, recordVars>>

\* The next duplicate follows; the program is finished with its last call.
CallDone(r) ==
    LET rest == duplicates[r].rest IN
    \/ /\ rest = {}
       /\ duplicates' = [duplicates EXCEPT ![r] = Selects]
       /\ program' = [program EXCEPT ![r] = program[r] + 1]
    \/ /\ \E c \in rest : OldestOf(c, rest) /\ Turns(r, "count", c, rest \ {c})
       /\ UNCHANGED program

InsertsCall(r) ==
    /\ Handles(r, "insert")
    /\ Len(calls) < MaxCalls
    /\ calls' = Append(calls, [type |-> Programs[program[r]], open |-> TRUE,
                               filed |-> FALSE, there |-> TRUE])
    /\ CallDone(r)
    /\ Disturbs(r)
    /\ UNCHANGED <<rows, changes, pc, failed, started, chosen, skipped, alone>>

\* An UPDATE by identifier changes nothing when the call is gone.
OpensCall(r) ==
    LET c == duplicates[r].call IN
    /\ Handles(r, "open")
    /\ calls' = [calls EXCEPT ![c] = [calls[c] EXCEPT !.open = TRUE]]
    /\ CallDone(r)
    /\ Disturbs(r)
    /\ UNCHANGED <<rows, changes, pc, failed, started, chosen, skipped, alone>>

\* SELECT COUNT(*) of the applications for a duplicate
CountsApplications(r) ==
    LET c == duplicates[r].call IN
    /\ Handles(r, "count")
    /\ IF calls[c].filed
       THEN CallDone(r)
       ELSE Turns(r, "delete", c, duplicates[r].rest) /\ UNCHANGED program
    /\ UNCHANGED <<rows, calls, changes, pc, failed, started, chosen, recordVars>>

\* The applications filed since they were counted go with it (CASCADE).
DeletesCall(r) ==
    LET c == duplicates[r].call IN
    /\ Handles(r, "delete")
    /\ calls' = [calls EXCEPT ![c] = [calls[c] EXCEPT !.there = FALSE]]
    /\ CallDone(r)
    /\ Disturbs(r)
    /\ UNCHANGED <<rows, changes, pc, failed, started, chosen, skipped, alone>>

EndsPrograms(r) ==
    /\ Running(r) /\ At(r).do = "programs"
    /\ program[r] = 3
    /\ Proceeds(r)
    /\ program' = [program EXCEPT ![r] = 0]
    /\ tidy' = [tidy EXCEPT ![r] = FALSE]
    /\ UNCHANGED <<rows, calls, changes, failed, started, duplicates, chosen, skipped, alone>>

\* The RequiredDocumentType rows refer to the call that was chosen.
RequiresDocuments(r) ==
    /\ Running(r) /\ At(r).do = "requireDocuments"
    /\ IF chosen[r] # None /\ ~calls[chosen[r]].there
       THEN Fails(r)
       ELSE Proceeds(r) /\ UNCHANGED <<failed, callVars, recordVars>>
    /\ UNCHANGED <<rows, calls, changes, started>>

-----------------------------------------------------------------------------
(***************************************************************************)
(* Meanwhile the application runs.                                         *)
(***************************************************************************)
Changes == changes < MaxChanges /\ changes' = changes + 1

\* AdminCallsService.createCall
CreateCall(type) ==
    /\ Changes
    /\ Len(calls) < MaxCalls
    /\ calls' = Append(calls, [type |-> type, open |-> FALSE, filed |-> FALSE, there |-> TRUE])
    /\ tidy' = [q \in Runs |-> FALSE]
    /\ UNCHANGED <<rows, pc, failed, started, callVars, skipped, alone>>

\* openCall and closeCall
SetOpen(c, open) ==
    /\ Changes
    /\ calls[c].there
    /\ calls[c].open # open
    /\ calls' = [calls EXCEPT ![c] = [calls[c] EXCEPT !.open = open]]
    /\ tidy' = [q \in Runs |-> FALSE]
    /\ UNCHANGED <<rows, pc, failed, started, callVars, skipped, alone>>

\* A team applies for an open call.
FilesApplication(c) ==
    /\ Changes
    /\ calls[c].there
    /\ calls[c].open
    /\ ~calls[c].filed
    /\ calls' = [calls EXCEPT ![c] = [calls[c] EXCEPT !.filed = TRUE]]
    /\ UNCHANGED <<rows, pc, failed, started, callVars, recordVars>>

-----------------------------------------------------------------------------
\* SeedTask.run of the seeds of a script, one after the other
RunNext(r) ==
    \/ Starts(r) \/ Interrupted(r)
    \/ Looks(r) \/ Inserts(r) \/ ChoosesCall(r) \/ ChecksCall(r)
    \/ BeginsCalls(r) \/ SelectsCalls(r) \/ InsertsCall(r) \/ OpensCall(r)
    \/ CountsApplications(r) \/ DeletesCall(r) \/ EndsPrograms(r) \/ RequiresDocuments(r)

ApplicationNext ==
    \/ \E type \in Types : CreateCall(type)
    \/ \E c \in Calls, open \in BOOLEAN : SetOpen(c, open)
    \/ \E c \in Calls : FilesApplication(c)

SeedsNext == ApplicationNext \/ \E r \in Runs : RunNext(r)

SeedsSpec == SeedsInit /\ [][SeedsNext]_seedVars

-----------------------------------------------------------------------------
(***************************************************************************)
(* Properties                                                              *)
(***************************************************************************)
\* What a run that had the database to itself leaves behind, also after runs
\* that were interrupted: it fails at nothing but a row that refers, by the
\* identifier the run made up, to one whose key somebody other than a seed has
\* used, and when it comes to its end, without the marker, every fixture has
\* its rows.
LoneSeedingIsWhole ==
    \A r \in Runs : alone[r] =>
        /\ failed[r] # 0 => \E h \in Script(r)[failed[r]].names : "other" \in rows[h]
        /\ Done(r) /\ ~skipped[r] =>
              \A i \in DOMAIN Script(r) :
                  Script(r)[i].do = "insert" =>
                      rows[Script(r)[i].fixture] # {}

\* Whatever earlier and overlapping seedings and administrators left, a
\* callsSeed nobody disturbs leaves the oldest call of each program, open,
\* and beside it only calls somebody applied for.
SeedLeavesOneCall ==
    \A r \in Runs : tidy[r] /\ program[r] = 3 =>
        \A p \in 1..2 :
            LET found == CallsOf(Programs[p]) IN
            \E c \in found :
                /\ calls[c].open
                /\ \A d \in found \ {c} : d > c /\ calls[d].filed

=============================================================================
