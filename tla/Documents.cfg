CONSTANTS
    Files = {f1, f2}
    Shelves = {project, organisation}
    Owned = {organisation}
    Slots = {cv, budget}
    Keys = {profile}
    Requests = {r1, r2}
    MaxVersion = 2
    None = None
SPECIFICATION Spec
SYMMETRY Symmetry
INVARIANTS
    SubmittedIsComplete
    NewestIsActive
    NumberedInOrder
