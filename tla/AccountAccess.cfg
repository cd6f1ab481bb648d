CONSTANTS
    Sessions = {s1, s2}
    Requests = {r1, r2}
    MaxPasswords = 2
    MaxEmails = 1
    None = None
SPECIFICATION Spec
SYMMETRY Symmetry
CHECK_DEADLOCK FALSE
INVARIANTS
    SessionsAreEntitled
PROPERTIES
    OldPasswordFades
    SuspensionShutsOut
