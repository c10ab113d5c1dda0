CONSTANTS
    o1 = o1  m1 = m1  corp = corp  i1 = i1  i2 = i2  c1 = c1  c2 = c2
    None = None
    Users = {o1, m1}
    Owners = {o1}
    Corps = {corp}
    Items = {i1, i2}
    Claims = {c1}
    MaxFulfillments = 2
    MaxQty = 2
    Requested = {2}
    Tips = {10}
    ItemsPerList = 2
    Contracts = {}
SPECIFICATION Spec
SYMMETRY MCSymmetry
INVARIANTS TypeOK ClaimsAgree NothingShort BillingExact SettledItemsPaid
PROPERTIES SettlementIsFinal
CHECK_DEADLOCK FALSE
