CONSTANTS
    o1 = o1  m1 = m1  i1 = i1  i2 = i2  x1 = x1  x2 = x2  p1 = p1  p2 = p2
    None = None
    Users = {o1, m1}
    Owners = {o1}
    Corps = {}
    Items = {i1}
    Claims = {}
    MaxFulfillments = 1
    MaxQty = 1
    Requested = {1}
    Tips = {10}
    ItemsPerList = 2
    Contracts = {x1, x2}
    Issuer <- MCIssuer
    Assignee <- MCAssignee
    Statuses = {"outstanding", "cancelled"}
    Pollers = {p1}
    CanFail = TRUE
SPECIFICATION ContractSpec
SYMMETRY MCSymmetry
INVARIANTS ContractInv
CHECK_DEADLOCK FALSE
