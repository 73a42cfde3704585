CONSTANTS
    p1 = p1
    p2 = p2
    m = m
    x = x
    y = y
    g = g
    s = s
    Procs = {p1, p2}
    Ids = {m, x, y}
    Scopes = {g, s}
    Global = g
    Tenanted = {}
    Workloads <- FileWork
    Connections = {p1, p2}
    Memories = {m, x}
    SqliteWorkloads <- TwoMemories
    Fragile = {p1}
    SnapshotsKept = 1
    MaxRevision = 2
    MaxHistory = 3
    Batch = {x, y}
    Mortal = {p1}
    HistoryLimit = 2
    MaxNow = 1
    MaxVer = 2
    None = None
    Restores = {1, 2}
    MaxVersion = 3
    MaxErrors = 1
SPECIFICATION StorageSpec
CHECK_DEADLOCK FALSE
INVARIANTS EditedHasHistory
