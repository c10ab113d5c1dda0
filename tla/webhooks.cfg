CONSTANTS
    w1 = w1  w2 = w2  w3 = w3  d1 = d1  d2 = d2
    NoMessage = NoMessage
    Messages = {w1, w2, w3}
    Malformed = {w3}
    Unwanted = {w2}
    Drainers = {d1, d2}
    Batch = 2
    SendTimeout = 1
    LeaseTime = 3
    MaxAttempts = 3
    BackoffCap = 1
    MaxCrashes = 1
SPECIFICATION WebhookFairSpec
INVARIANTS WebhookTypeOK LeaseExclusive
PROPERTIES ImplementsOutbox EventuallyDrained
CHECK_DEADLOCK FALSE
