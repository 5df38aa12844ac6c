SPECIFICATION TurnSpec
CONSTANTS
    None = None
    Shared = Shared
    Attach = Attach
    w1 = w1
    w2 = w2
    j1 = j1
    j2 = j2
    a1 = a1
    t1 = t1
    t2 = t2
    Workers = {w1}
    Tenants = {t1, t2}
    Calls = {j1, j2, a1}
    Warm = {a1}
    Stops = {}
    EmptyTurns = {j2}
    ChannelTurns = {j1}
    TenantOf <- SplitTenants
    MaxTenants = 1
    MaxRuns = 1
    Faults = {}
PROPERTIES TurnsSettle
