CONSTANTS
    None = None
    Jobs = {1}
    Owners = {w1, w2}
    Serves <- ServesAll
    MaxAttempts <- TwoThenOne
    LeaseMs = 2
    Delays = {0}
    PruneAfterMs = 0
    Concurrency = 1
    RenewMs = 1
    Sweeper = TRUE
    StoreErrors = FALSE
    Mortal = {}
    Stoppable = {}
SPECIFICATION FairSpec
PROPERTIES SaturationEnds
