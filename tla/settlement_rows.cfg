CONSTANTS
    i1 = i1  i2 = i2  h1 = h1  h2 = h2  h3 = h3  f1 = f1  f2 = f2  f3 = f3
    c1 = c1  c2 = c2  q1 = q1  q2 = q2
    None = None
    Items = {i1, i2}
    Haulers = {h1, h2}
    Fulfillments = {f1, f2}
    Contracts = {c1}
    Requests = {q1, q2}
    Initial = {i1}
    Qty <- MCQty
    Issuer <- MCIssuer
SPECIFICATION RowsSpec
SYMMETRY MCSymmetry
INVARIANTS RowsTypeOK SettledUnpaidInRace PendingIsExact MissedOnlyInRace DeadlockNeedsContract
PROPERTIES BillFrozen
