CONSTANTS
    Role = "serve"
    Webhooks = FALSE
    DeadlineMs = 2
    ServerMs = 1
    Jobs = {j1, j2, j3}
    Waiters = {d1}
    Concurrency = 1
    MaxQueue = 1
    MaxAttempts = 2
    Hanging = {j1}
SPECIFICATION FairSpec
INVARIANTS ShutdownIsOrderly
PROPERTIES JobsGetResults ShutdownEnds
CHECK_DEADLOCK FALSE
