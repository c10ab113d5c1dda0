CONSTANTS
    o1 = o1  m1 = m1  corp = corp  i1 = i1  i2 = i2  c1 = c1  p1 = p1
    None = None
    Users = {o1, m1}
    Owners = {o1}
    Corps = {}
    Items = {i1, i2}
    Claims = {c1}
    MaxFulfillments = 1
    MaxQty = 1
    Requested = {1}
    Tips = {10}
    ItemsPerList = 2
    Contracts = {}
    Procs = {p1}
SPECIFICATION RaceSpec
SYMMETRY MCSymmetry
INVARIANTS ClaimsAgree
CHECK_DEADLOCK FALSE
