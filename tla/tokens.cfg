CONSTANTS
    None = None  j1 = j1  j2 = j2  api = api  worker = worker  worker2 = worker2
    Characters = {ch}
    MaxTokens = 2
    LoginTx = login
    Api = api
    Procs = {api, worker, worker2}
    OldKid = k1
    NewKid = k2
    Jobs = {j1, j2}
    ProcOf <- MCProcOf
    Clients = {c1, c2, c3}
SPECIFICATION StoreFairSpec
INVARIANTS TokenNotLost
PROPERTIES SweepKeepsToken SweepConverges RotationPersisted
CHECK_DEADLOCK FALSE
