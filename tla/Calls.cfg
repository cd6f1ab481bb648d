CONSTANTS
    DocumentTypes = {budget}
    LastDate = 2
    Handlers = {r1, r2}
    Unset = Unset
SPECIFICATION CallSpec
CHECK_DEADLOCK FALSE
SYMMETRY Symmetry
INVARIANTS
    CallIsSound
