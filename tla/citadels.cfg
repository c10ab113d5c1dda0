CONSTANTS
    a1 = a1  a2 = a2
    Characters <- MCCharacters
    Scoped <- MCScoped
    Broken = {}
    Tried = 2
    MissingThreshold = 2
    Ceiling = 1
    DeferThreshold = 1
    MaxMoves = 3
    MaxFailures = 1
    None = None
SPECIFICATION CitadelsFairSpec
INVARIANTS CitadelsTypeOK
PROPERTIES SoftDisable AccessRecovers GoneStops
