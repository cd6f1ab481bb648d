CONSTANTS
    Apps = {a1, a2}
    Calls = {c1, c2}
    InfoItems = {q1, q2}
    Requests = {r1, r2}
    Submitters = {r1}
    Mentors = {m1, m2}
    Projects = {p1}
    Rows = {w1}
    Visits = {v1, v2}
    None = None
SPECIFICATION WorkSpec
SYMMETRY Symmetry
CONSTRAINT Focus
INVARIANTS
    NoForgottenQuestion
    OneApplicationPerCall
    QuestionAwaitsAnswer
    SupportIsOfGranted
PROPERTIES
    RightsEndWithTheirGround
    KeepsPromise
