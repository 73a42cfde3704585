CONSTANTS
    None = None
    Jobs = {1, 2}
    Owners = {w1, w2}
    Serves <- ServesAll
    MaxAttempts <- TwoThenOne
    LeaseMs = 1
    Delays = {0}
    PruneAfterMs = 0
    Concurrency = 3
    RenewMs = 1
    Sweeper = FALSE
    StoreErrors = FALSE
    Mortal = {w1}
    Stoppable = {}
SPECIFICATION FairSpec
PROPERTIES EveryJobSettles
