CONSTANTS
    BaselineRuns = {b1}
    DevRuns = {d1, d2}
    DevsTogether = 1
    Foreign = {"Students"}
    MaxCalls = 3
    MaxChanges = 1
    None = None
SPECIFICATION SeedsSpec
CHECK_DEADLOCK FALSE
SYMMETRY Symmetry
INVARIANTS
    LoneSeedingIsWhole
    SeedLeavesOneCall
