CONSTANTS
    None = None
    Jobs = {1, 2, 3}
    Owners = {w1, w2}
    Serves <- ServesMost
    MaxAttempts <- FromTwoOrNone
    LeaseMs = 2
    Delays = {0, 1}
    PruneAfterMs = 1
SPECIFICATION MemSpec
INVARIANTS LedgerInv
PROPERTIES SettledIsFinal ImplementsLifecycle
