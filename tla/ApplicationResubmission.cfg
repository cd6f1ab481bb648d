CONSTANTS
    Apps = {a1}
    Calls = {c1}
    InfoItems = {q1}
    Requests = {r1, r2}
    Submitters = {r1, r2}
    None = None
SPECIFICATION Spec
PROPERTIES
    RejectedIsTerminal
