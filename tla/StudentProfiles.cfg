CONSTANTS
    Universities = {u1, u2}
    Faculties = {f1}
    Specializations = {s1}
    p1 = p1
    p2 = p2
    Students = {p1, p2}
    Authors = {p1}
    Seeded <- SeededDef
    Seed = Seed
    Leader = p1
    Submissions = {m1, m2, m3}
    Answers <- AnswersDef
    Limits <- LimitsDef
    Null = Null
SPECIFICATION ProfilesSpec
CHECK_DEADLOCK FALSE
SYMMETRY Symmetry
CONSTRAINT SeededStructureRests
ACTION_CONSTRAINT RulesAreAdded
INVARIANTS
    PathsHoldTogether
    ProfessionalIsOfOnePiece
    SignalsHeal
PROPERTIES
    DeclarationStands
