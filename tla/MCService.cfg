CONSTANTS
    c1 = c1
    c2 = c2
    A = A
    B = B
    None = None
    x = x
    y = y
    Calls = {c1, c2}
    Ids = {1, 2}
    Texts = {A, B}
    Workloads <- ServiceWork
    Embeddings = TRUE
    MaxVer = 3
    PoolIds = {1, 2, 3}
    Pools <- MCPools
    Queries <- MCQueries
    MaxEdges = 32
    SdkCalls <- MCCalls
    MaxIssues = 3
    ListIds = {1, 2, 3}
    Limits = {1, 2}
    MaxStamp = 3
    Policies <- MCPolicies
    Agents = {x, y}
    Nobody = None
    AgentIds = {1, 2, 3}
    AgentTexts = {1, 2}
    Global = "global"
    ScopesOf <- MCScopesOf
    Inputs <- MCInputs
    MinPool = 2
    AgentWorkloads <- AgentWork
    MaxCalls = 6
    Drainers = {p1, p2}
    Deliveries = {a, b, c}
    Orphans = {c}
    MaxAttempts = 2
    MaxPending = 3
    BatchSize = 3
    MaxRetires = 1
SPECIFICATION ServiceSpec
INVARIANTS VectorMatchesText DigestsDoNotRepeat RetrievalIsSound BatchesAreExact ProviderIsBounded AgentsAreServed UntouchedOnce DeliveriesAreBounded
SYMMETRY ServiceSymmetry
CONSTRAINT Few
CHECK_DEADLOCK FALSE
