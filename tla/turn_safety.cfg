SPECIFICATION TurnSpec
CONSTANTS
    None = None
    Shared = Shared
    Attach = Attach
    w1 = w1
    w2 = w2
    j1 = j1
    j2 = j2
    a1 = a1
    t1 = t1
    t2 = t2
    Workers = {w1, w2}
    Tenants = {t1}
    Calls = {j1, j2}
    Warm = {}
    Stops = {}
    EmptyTurns = {}
    ChannelTurns = {j1}
    TenantOf <- OneTenant
    MaxTenants = 1
    MaxRuns = 1
    Faults = {"raise", "regexpire", "crash", "drain", "apicrash"}
INVARIANTS TurnTypeOK AtMostOnce OnePlace ReceiptTruth
PROPERTIES ReceiptForward
SYMMETRY WorkerSymmetry
