CONSTANTS
    u1 = u1  u2 = u2
    a1 = a1  a2 = a2
    Users = {u1, u2}
    Groups = {g1, g2, g3}
    Chars = {a1, a2}
    Requests = {r1, r2}
    OwnerOf <- MCOwnerOf
    GroupsPerUser = 2
    ListsPerGroup = 1
    MaxRotations = 1
    MaxRequests = 7
    None = None
SPECIFICATION CorporationsSpec
CHECK_DEADLOCK FALSE
SYMMETRY MCSymmetry
INVARIANTS
    GroupsTypeOK
    QuotaHeld
    ListsOvershoot
PROPERTIES
    RevokesOwnOnly
