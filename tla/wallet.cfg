CONSTANTS
    k1 = k1  k2 = k2  a1 = a1  a2 = a2  b1 = b1  x1 = x1  s1 = s1
    Corps = {k1, k2}
    Contracts = {x1}
    Reimbursements = {s1}
    AmbassadorsOf <- MCAmbassadorsOf
    Losable = {a1}
    Broken = {}
    Divisions = 2
    Entries <- MCEntries
    Payer <- MCPayer
    Tried = 5
    Slice = 1
    MaxFailures = 2
    None = None
SPECIFICATION WalletFairSpec
INVARIANTS
    WalletInv
PROPERTIES
    CountedOnce
    PaymentVerified
    DueCorpPolled
