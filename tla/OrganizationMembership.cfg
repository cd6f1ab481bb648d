CONSTANTS
    Users = {u1, u2}
    Orgs = {o1, o2}
    Invites = {i1, i2}
    Requests = {r1, r2}
    MaxResends = 1
    None = None
SPECIFICATION Spec
SYMMETRY Symmetry
CHECK_DEADLOCK FALSE
INVARIANTS
    NobodyUninformed
    ListedAsDisplayed
PROPERTIES
    OneMembershipAtATime
    AdmissionSpendsInvitation
