CONSTANTS
    Users = {u1, u2, u3}
    Invites = {i1, i2}
    Requests = {r1, r2}
    MinimumCreatedCount = 1
    MaxResends = 1
    None = None
SPECIFICATION Spec
SYMMETRY Symmetry
INVARIANTS
    LeaderIsMember
    NobodyUninformed
PROPERTIES
    RevokedAdmitsNobody
    LockedTeamSettles
