CONSTANTS
    Items = {i1}
    Teams = {t1, t2}
    Users = {u1, u2}
    Mentors = {m1}
    Apps = {a1, a2, a3}
    Requests = {r1, r2}
    None = None
SPECIFICATION Spec
SYMMETRY Symmetry
INVARIANTS
    SingleWinner
    OneProjectPerItem
    ItemFollowsProject
    WinnerAgreesWithItem
    NoDecisionStranded
    OwnerOfProjectIsOwnerOfItem
PROPERTIES
    ItemOnlyMovesForward
