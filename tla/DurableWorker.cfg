CONSTANTS
    None = None
    Jobs = {1, 2}
    Owners = {w1, w2}
    Serves <- ServesAll
    MaxAttempts <- TwoThenOne
    LeaseMs = 2
    Delays = {0}
    PruneAfterMs = 0
    Concurrency = 2
    RenewMs = 1
    Sweeper = TRUE
    StoreErrors = TRUE
    Mortal = {w1, w2}
    Stoppable = {w1, w2}
SPECIFICATION WorkerSpec
INVARIANTS OneHandlerPerJob CommitsAreSound LeasesAreAccountedFor
