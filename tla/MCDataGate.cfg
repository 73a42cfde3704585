CONSTANTS
    r1 = r1
    r2 = r2
    r3 = r3
    p1 = p1
    p2 = p2
    o = o
    Nobody = Nobody
    Nothing = Nothing
    Commands = {p1, p2}
    Total = 3
    CheckpointEvery = 2
    MaxEdits = 1
    Ids = {1, 2, 3}
    Texts = {1, 2}
    Orgs = {"o1", "o2"}
    Projects = {"p", "q"}
    Snapshots <- MCSnapshots
    Mappings <- MCMappings
    MaxExports = 1
    MaxChanges = 1
    Keys = {1}
    ClaimKeys = {1, 2}
    Starts = {p1, p2, o}
    None = None
    Bodies = {1, 2}
    OpOf <- MCOpOf
    Requests = {r1, r2, r3}
    MaxEntries = 1
    Servers = {p1, p2}
    Services = {p1, p2}
    Operators = {o}
    Fallback = {p2}
    KeyOf <- MCKeyOf
    BodyOf <- MCBodyOf
    ServerOf <- MCServerOf
    Items = 2
    Records = 2
    MaxStrayCalls = 1
SPECIFICATION OperatorSpec
INVARIANTS AtMostOnce ReplayIsTrue RestoreExcludesBatches NoHalfMigration ReadOnlyHolds MigrationIsTrue LedgerIsOne
