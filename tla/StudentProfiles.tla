-------------------------- MODULE StudentProfiles --------------------------
(***************************************************************************)
(* A student's profile (StudentProfileService) over the universities,      *)
(* faculties and specialisations that administrators change meanwhile      *)
(* (AdminAcademicStructureService).                                        *)
(*                                                                         *)
(* Academic information is checked by three queries sent at once, outside  *)
(* any transaction, and then upserted; professional information is         *)
(* replaced in a READ COMMITTED transaction that begins by updating, and   *)
(* so locking, the profile.  The signals of the student's application are  *)
(* computed after the upsert, by the same request (EligibilitySignals).    *)
(***************************************************************************)
EXTENDS EligibilitySignals

CONSTANTS
    Universities, Faculties, Specializations,
    Authors,       \* bound: the students who fill in their profiles
    Seeded,        \* bound: the sets of students to whom 004-dev-fixtures has given
                   \* profiles, by the status of the application
    Seed,          \* where such a profile comes from
    Answers        \* what a student may answer about his studies

ASSUME AuthorsAreStudents == Authors \subseteq Students
ASSUME SeededAreStudents == Seeded \in [{"NONE", "DRAFT"} -> SUBSET SUBSET Students]
ASSUME SeedIsNoSubmission == Seed \notin Submissions \cup {Null}
ASSUME AnswersAreTyped ==
    Answers \subseteq [evidence : BOOLEAN, transferred : Nat, average : Nat \cup {Null}]

VARIABLES
    row,        \* whether a row of the structure is there, and isActive
    parent,     \* universityId of a faculty, facultyId of a specialisation
    moved,      \* which faculties and specialisations were given another parent
    skills,     \* the sources a profile's StudentSkill rows come from
    projects    \* the sources its StudentProject rows come from

structureVars == <<row, parent, moved>>
profileVars == <<profile, skills, projects>>
studentVars == <<structureVars, profileVars, submission, signalVars>>

-----------------------------------------------------------------------------
Nodes == Universities \cup Faculties \cup Specializations

\* Identifiers are never used twice, so a row that was deleted stays away.
RowState == {"FREE", "ACTIVE", "INACTIVE", "DELETED"}
Exists(n) == row[n] \in {"ACTIVE", "INACTIVE"}

\* Below n and n itself: what ON DELETE CASCADE takes along.
Subtree(n) ==
    LET children(ms) == {m \in Faculties \cup Specializations : parent[m] \in ms}
    IN {m \in {n} \cup children({n}) \cup children(children({n})) : Exists(m)}

Sources == Submissions \cup {Seed}

Profile ==
    [path : Universities \X Faculties \X Specializations,
     declared : Submissions \cup {Null},   \* academicDeclarationAcceptedAt
     evidence : BOOLEAN,                   \* whether a file is referred to
     transferred : Nat,                    \* 0 without hasTransferredSubjects
     average : Nat \cup {Null},            \* profileSubjectsAverage
     professional : Sources \cup {Null}]   \* whose focus areas, roles and skills

ASSUME NullIsNoProfile == Null \notin Profile

NamedBy(p) == {profile[p].path[i] : i \in 1..3}

StructureIsEmpty ==
    /\ row = [n \in Nodes |-> "FREE"]
    /\ parent = [n \in Faculties \cup Specializations |-> Null]

StructureIsBuilt ==
    /\ row = [n \in Nodes |-> "ACTIVE"]
    /\ \E u \in Universities, f \in Faculties :
          parent = [n \in Faculties \cup Specializations |->
                       IF n \in Faculties THEN u ELSE f]

\* What 004-dev-fixtures has inserted for the first students, who have declared
\* nothing: a profile, with skills and a project from the same source.  (The
\* declared profiles of the extra students are like those a submission creates.)
ProfilesAreSeeded(students) ==
    /\ \E path \in [students -> Universities \X Faculties \X Specializations] :
          /\ \A p \in students : /\ parent[path[p][2]] = path[p][1]
                                 /\ parent[path[p][3]] = path[p][2]
          /\ profile = [p \in Students |->
                           IF p \in students
                           THEN [path |-> path[p], declared |-> Null, evidence |-> FALSE,
                                 transferred |-> 0, average |-> Null, professional |-> Seed]
                           ELSE Null]
    /\ skills = [p \in Students |-> IF p \in students THEN {Seed} ELSE {}]
    /\ projects = skills

\* The structure grows from nothing, or is there when an application or a
\* seeded profile is.
ProfilesInit ==
    /\ moved = {}
    /\ submission = [m \in Submissions |-> Unsent]
    /\ SignalsInit
    /\ \/ application = "NONE" /\ StructureIsEmpty /\ ProfilesAreSeeded({})
       \/ StructureIsBuilt /\ \E students \in Seeded[application] : ProfilesAreSeeded(students)

-----------------------------------------------------------------------------
(***************************************************************************)
(* The structure.  That a parent exists is checked when the service asks   *)
(* and again by the foreign key when the row is written; the write alone   *)
(* decides, so each operation is one step.                                 *)
(***************************************************************************)
CreateUniversity(u, active) ==
    /\ row[u] = "FREE"
    /\ row' = [row EXCEPT ![u] = active]
    /\ UNCHANGED <<parent, moved, profileVars, submission, signalVars>>

\* createFaculty and createSpecialization
CreateBelow(n, above, active) ==
    /\ row[n] = "FREE"
    /\ Exists(above)
    /\ row' = [row EXCEPT ![n] = active]
    /\ parent' = [parent EXCEPT ![n] = above]
    /\ UNCHANGED <<moved, profileVars, submission, signalVars>>

\* updateUniversity, updateFaculty and updateSpecialization with isActive
SetActive(n, active) ==
    /\ Exists(n)
    /\ row' = [row EXCEPT ![n] = active]
    /\ UNCHANGED <<parent, moved, profileVars, submission, signalVars>>

\* updateFaculty with a universityId, updateSpecialization with a facultyId
Move(n, above) ==
    /\ Exists(n)
    /\ Exists(above)
    /\ parent[n] # above
    /\ parent' = [parent EXCEPT ![n] = above]
    /\ moved' = moved \cup {n}
    /\ UNCHANGED <<row, profileVars, submission, signalVars>>

\* Faulty variant: only the row itself is looked for in the profiles.
RestrictOne(n) == \A p \in Students : HasProfile(p) => n \notin NamedBy(p)

\* ON DELETE RESTRICT of the three references of a profile
Unreferenced(n) ==
    \A p \in Students : HasProfile(p) => NamedBy(p) \cap Subtree(n) = {}

\* deleteUniversity, deleteFaculty and deleteSpecialization
Delete(n) ==
    /\ Exists(n)
    /\ Unreferenced(n)
    /\ row' = [m \in Nodes |-> IF m \in Subtree(n) THEN "DELETED" ELSE row[m]]
    /\ UNCHANGED <<parent, moved, profileVars, submission, signalVars>>

-----------------------------------------------------------------------------
(***************************************************************************)
(* Academic information                                                    *)
(***************************************************************************)
AcademicStarts(m, p, u, f, s) ==
    /\ submission[m] = Unsent
    /\ submission' = [submission EXCEPT ![m] =
                         [doing |-> "academic", of |-> p, path |-> <<u, f, s>>, checked |-> {}]]
    /\ UNCHANGED <<structureVars, profileVars, signalVars>>

\* Faulty variant: the faculty need not be one of the university.
FindsActive(path, n) == row[n] = "ACTIVE" /\ (n = path[3] => parent[n] = path[2])

\* What validateAcademicHierarchy asks of the row one of its queries found.
FindsValid(path, n) ==
    /\ row[n] = "ACTIVE"
    /\ n = path[2] => parent[n] = path[1]
    /\ n = path[3] => parent[n] = path[2]

\* One of the three queries of the Promise.all is answered.
Checks(m, n) ==
    LET r == submission[m] IN
    /\ r.doing = "academic"
    /\ n \in {r.path[i] : i \in 1..3} \ r.checked
    /\ FindsValid(r.path, n)
    /\ submission' = [submission EXCEPT ![m] =
                         [doing |-> "academic", of |-> r.of, path |-> r.path,
                          checked |-> r.checked \cup {n}]]
    /\ UNCHANGED <<structureVars, profileVars, signalVars>>

\* Upserting begins by reading the declaration of the profile there may be.
FindsDeclaration(m) ==
    LET r == submission[m] IN
    /\ r.doing = "academic"
    /\ r.checked = {r.path[i] : i \in 1..3}
    /\ submission' = [submission EXCEPT ![m] =
                         [doing |-> "upserting", of |-> r.of, path |-> r.path,
                          found |-> IF HasProfile(r.of) THEN <<profile[r.of].declared>>
                                    ELSE <<>>]]
    /\ UNCHANGED <<structureVars, profileVars, signalVars>>

\* Faulty variant: no profile counts as a profile without a declaration.
RedatesWhen(found) == found \in {<<>>, <<Null>>}

\* existingProfile?.academicDeclarationAcceptedAt === null
DatesWhen(found) == found = <<Null>>

\* Nobody else's transaction holds the profile of p.
Unlocked(p) ==
    \A k \in Submissions :
        ~(submission[k].doing \in {"replacing", "replaced"} /\ submission[k].of = p)

\* A file or an average that is not given leaves the one that is stored.
Given(new, old) == IF new = Null THEN old ELSE new

\* The upsert creates the profile or updates the one that appeared since.
\* What the student answered about his studies is of no account before.
UpsertAcademicInformation(m, answer) ==
    LET r == submission[m]
        old == profile[r.of] IN
    /\ r.doing = "upserting"
    /\ Unlocked(r.of)
    /\ \A i \in 1..3 : Exists(r.path[i])
    /\ profile' = [profile EXCEPT ![r.of] =
          IF old = Null
          THEN [path |-> r.path, declared |-> m, professional |-> Null,
                evidence |-> answer.evidence,
                transferred |-> answer.transferred, average |-> answer.average]
          ELSE [path |-> r.path, professional |-> old.professional,
                declared |-> IF DatesWhen(r.found) THEN m ELSE old.declared,
                evidence |-> answer.evidence \/ old.evidence,
                transferred |-> answer.transferred,
                average |-> Given(answer.average, old.average)]]
    /\ submission' = [submission EXCEPT ![m] = [doing |-> "upserted", of |-> r.of]]
    /\ quiet' = "disturbed"
    /\ UNCHANGED <<structureVars, skills, projects, teamVars, signals>>

-----------------------------------------------------------------------------
(***************************************************************************)
(* Professional information                                                *)
(***************************************************************************)
ProfessionalStarts(m, p, withProjects) ==
    /\ submission[m] = Unsent
    /\ submission' = [submission EXCEPT ![m] =
                         [doing |-> "professional", of |-> p, projects |-> withProjects]]
    /\ UNCHANGED <<structureVars, profileVars, signalVars>>

\* Faulty variant: the profile is not updated before its skills are replaced.
FindsProfile(m) ==
    /\ submission[m].doing = "professional"
    /\ HasProfile(submission[m].of)
    /\ submission' = [submission EXCEPT ![m].doing = "replacing"]
    /\ UNCHANGED <<structureVars, profileVars, signalVars>>

\* The profile is found and updated: its row stays locked to the end.
UpdatesProfile(m) ==
    LET r == submission[m] IN
    /\ r.doing = "professional"
    /\ HasProfile(r.of)
    /\ Unlocked(r.of)
    /\ submission' = [submission EXCEPT ![m] =
                         [doing |-> "replacing", of |-> r.of, projects |-> r.projects]]
    /\ UNCHANGED <<structureVars, profileVars, signalVars>>

\* The deleteMany of the skills, and of the projects when some are given,
\* find the rows that are committed by now.
DeletesRows(m) ==
    LET r == submission[m] IN
    /\ r.doing = "replacing"
    /\ submission' = [submission EXCEPT ![m] =
                         [doing |-> "replaced", of |-> r.of, projects |-> r.projects,
                          skillsGone |-> skills[r.of],
                          projectsGone |-> IF r.projects THEN projects[r.of] ELSE {}]]
    /\ UNCHANGED <<structureVars, profileVars, signalVars>>

\* The new rows are inserted and the transaction commits.
ReplaceProfessionalSkills(m) ==
    LET r == submission[m] IN
    /\ r.doing = "replaced"
    /\ profile' = [profile EXCEPT ![r.of].professional = m]
    /\ skills' = [skills EXCEPT ![r.of] = (@ \ r.skillsGone) \cup {m}]
    /\ projects' = [projects EXCEPT ![r.of] =
                      IF r.projects THEN (@ \ r.projectsGone) \cup {m} ELSE @]
    /\ submission' = [submission EXCEPT ![m] = Done]
    /\ UNCHANGED <<structureVars, signalVars>>

\* A check refuses the submission, a statement fails or the process stops:
\* what was not committed is gone.
Abandons(m) ==
    /\ submission[m].doing \notin {"idle", "done"}
    /\ submission' = [submission EXCEPT ![m] = Done]
    /\ quiet' = IF Computing(m) THEN "disturbed" ELSE quiet
    /\ UNCHANGED <<structureVars, profileVars, teamVars, signals>>

-----------------------------------------------------------------------------
\* AdminAcademicStructureController.  Bound: the structure, which the signals
\* do not read, changes only where there is no application.
AdminNext ==
    /\ application = "NONE"
    /\ \/ \E u \in Universities, active \in {"ACTIVE", "INACTIVE"} : CreateUniversity(u, active)
       \/ \E active \in {"ACTIVE", "INACTIVE"} :
             \/ \E f \in Faculties, u \in Universities : CreateBelow(f, u, active)
             \/ \E s \in Specializations, f \in Faculties : CreateBelow(s, f, active)
       \/ \E n \in Nodes, active \in {"ACTIVE", "INACTIVE"} : SetActive(n, active)
       \/ \E f \in Faculties, u \in Universities : Move(f, u)
       \/ \E s \in Specializations, f \in Faculties : Move(s, f)
       \/ \E n \in Nodes : Delete(n)

\* StudentProfileController.  Bound: professional information, which they do
\* not read either, is likewise replaced only where there is no application.
StudentNext(m) ==
    \/ \E p \in Authors, u \in Universities, f \in Faculties, s \in Specializations :
          AcademicStarts(m, p, u, f, s)
    \/ \E n \in Nodes : Checks(m, n)
    \/ FindsDeclaration(m)
    \/ \E answer \in Answers : UpsertAcademicInformation(m, answer)
    \/ /\ application = "NONE"
       /\ \E p \in Authors, withProjects \in BOOLEAN : ProfessionalStarts(m, p, withProjects)
    \/ UpdatesProfile(m)
    \/ DeletesRows(m)
    \/ ReplaceProfessionalSkills(m)
    \/ Abandons(m)

ProfilesNext ==
    \/ AdminNext
    \/ \E m \in Submissions : StudentNext(m)
    \/ SignalsNext /\ UNCHANGED <<structureVars, skills, projects>>

ProfilesSpec == ProfilesInit /\ [][ProfilesNext]_studentVars

-----------------------------------------------------------------------------
(***************************************************************************)
(* Properties                                                              *)
(***************************************************************************)
\* The values the variables take.
ProfilesTypeOK ==
    /\ row \in [Nodes -> RowState]
    /\ parent \in [Faculties \cup Specializations -> Universities \cup Faculties \cup {Null}]
    /\ moved \subseteq Faculties \cup Specializations
    /\ profile \in [Students -> Profile \cup {Null}]
    /\ skills \in [Students -> SUBSET Sources]
    /\ projects \in [Students -> SUBSET Sources]
    /\ application \in {"NONE", "CLOSED"} \cup Active
    /\ Leader \in members /\ members \subseteq Students
    /\ limits \in Limits \cup {Default}
    /\ DOMAIN signals \subseteq DOMAIN Verdicts(members)
    /\ quiet \in {"settled", "alone", "disturbed"}

\* Whatever administrators do between the three checks of a submission and
\* its upsert, a profile names rows that exist, and a path through the
\* structure that only a later move of one of its parts can have broken.
PathsHoldTogether ==
    \A p \in Students : HasProfile(p) =>
        LET path == profile[p].path IN
        /\ \A i \in 1..3 : Exists(path[i])
        /\ parent[path[2]] = path[1] \/ path[2] \in moved
        /\ parent[path[3]] = path[2] \/ path[3] \in moved

\* A profile without a date for its academic declaration
Undated(p) == HasProfile(p) /\ profile[p].declared = Null

\* The submissions of p that found such a profile and have not written yet
FoundUndated(p) ==
    {m \in Submissions : submission[m].doing = "upserting" /\ submission[m].of = p
                         /\ submission[m].found = <<Null>>}

\* A profile stays, and storing academic information leaves it dated.  Dated, it
\* gets another date only from a submission that had found it undated, and no
\* further submission finds it so.
KeepsDate(p) ==
    /\ HasProfile(p) => HasProfile(p)'
    /\ \A m \in Submissions :
          submission[m].doing = "upserting" /\ submission[m].of = p
          /\ submission'[m].doing = "upserted" => ~Undated(p)'
    /\ ~Undated(p) => ~Undated(p)' /\ FoundUndated(p)' \subseteq FoundUndated(p)
    /\ HasProfile(p) /\ ~Undated(p) =>
          profile'[p].declared \in {profile[p].declared}
                                   \cup (FoundUndated(p) \ FoundUndated(p)')

\* However first submissions of a student overlap, the date of the declaration
\* that creates his profile is final.  A profile of the seed gets a date with
\* the first academic information stored, and only the submissions then under
\* way that had found it undated may still put theirs in the place, each once.
DeclarationStands == [][\A p \in Students : KeepsDate(p)]_studentVars

\* However submissions overlap, a profile's skills are those of the very
\* submission its focus areas, roles and CV come from, and its projects those
\* of one submission.
ProfessionalIsOfOnePiece ==
    \A p \in Students :
        /\ skills[p] = IF HasProfile(p) THEN {profile[p].professional} \ {Null} ELSE {}
        /\ Cardinality(projects[p]) <= 1

=============================================================================
