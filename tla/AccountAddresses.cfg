CONSTANTS
    Users = {u1}
    Addresses = {x, y, p}
    Academic = {x, y}
    Requests = {r1, r2}
    None = None
SPECIFICATION Spec
SYMMETRY Symmetry
INVARIANTS
    ConfirmedIsProven
    StudentsAreAcademic
