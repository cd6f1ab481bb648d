------------------------- MODULE MCStudentProfiles -------------------------
(***************************************************************************)
(* One path beside a second university a faculty can move to; a student    *)
(* who leads a team, and a mate without a profile who joins and leaves it. *)
(***************************************************************************)
EXTENDS StudentProfiles, TLC

CONSTANTS p1, p2

\* The author may have been seeded; beside an application, where nothing reads
\* the date of a declaration, he was not.
SeededDef == [NONE |-> {{}, {p1}}, DRAFT |-> {{}}]

\* The answers of one who changes to other studies, and of one who does not.
AnswersDef ==
    {[evidence |-> e, transferred |-> IF e THEN 0 ELSE 1,
      average |-> IF e THEN Null ELSE 3] : e \in BOOLEAN}

\* No rules, and one that asks for a team of two and allows a transfer.
LimitsDef ==
    {[TEAM_SIZE_MIN |-> Null, TRANSFERRED_SUBJECTS_MAX |-> Null,
      PROFILE_SUBJECTS_AVERAGE_MAX |-> Null],
     [TEAM_SIZE_MIN |-> 2, TRANSFERRED_SUBJECTS_MAX |-> 1,
      PROFILE_SUBJECTS_AVERAGE_MAX |-> Null]}

\* The structure is looked at where one step of an administrator changed it, and
\* no further, as long as a profile of the seed is as the seed left it.
SeededStructureRests ==
    (\E p \in Students : Seed \in skills[p] \cup projects[p])
        => \A n \in Nodes : row[n] = "ACTIVE" /\ n \notin moved

\* A call without rules may be given some, once.
RulesAreAdded == limits' # limits => limits.TEAM_SIZE_MIN = Null

Symmetry == Permutations(Universities) \cup Permutations(Submissions)

=============================================================================
