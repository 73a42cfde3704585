CONSTANTS
    None = None
    Jobs = {1, 2, 3}
    Owners = {w1, w2}
    Serves <- ServesAll
    MaxAttempts <- TwoAttempts
    LeaseMs = 1
    Delays = {0}
    PruneAfterMs = 0
    Schedulers = {s1, s2}
    Reclaims = TRUE
    Window = 2
    Perishable = {w1}
SPECIFICATION SchedFairSpec
INVARIANTS SchedulingIsBounded
PROPERTIES MaintenanceGoesOn
