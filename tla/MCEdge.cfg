CONSTANTS
    a = a
    b = b
    c = c
    h1 = h1
    h2 = h2
    Calls = {1, 2, 3, 4}
    Keys <- AllKeys
    Charged <- ChargedTo
    Policy <- MCPolicy
    Stores = {"process", "redis"}
    MaxIdentities = 2
    MaxTime = 2
    Requests = {a, b, c}
    MaxConcurrent = 2
    ApiKey = TRUE
    Strict = TRUE
    Callers = {h1, h2}
    Users = {"u"}
    Projects = {"p"}
    Agents = {"g"}
    Principals <- MCPrincipals
    Ops <- MCOps
    None = None
    MaxVersion = 4
    Absent = None
    Ids = {"pending"}
    Clients = {h1, h2}
    Rows <- MCRows
    Grants <- MCGrants
    Directs = {"read", "update", "archive", "delete"}
    Patches <- MCPatches
    Layerings <- MCLayerings
    MaxAge = 1
    MaxNow = 2
    Records = {1, 2}
    OrgOf <- MCOrgOf
    NoTime = None
    NoOne = None
    Expiries = {None, 1}
    Durations = {1}
    MaxRenewals = 1
    Limits = {1, 2}
    Horizon = 2
    MaxRecVersion = 2
    Orgs = {"A", "B"}
    Times = {0, 1}
    MaxEvents = 3
    Pages = {1, 2}
    MaxAppends = 5
    NoWalk = None
SPECIFICATION EdgeSpec
INVARIANTS WithinBudget AdmissionHolds TenantsHold LifecycleIsSound WalkIsComplete
PROPERTY PolicyHolds
SYMMETRY EdgeSymmetry
CHECK_DEADLOCK FALSE
