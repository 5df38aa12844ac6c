SPECIFICATION Spec
CONSTANTS
    None = None
    w1 = w1
    w2 = w2
    c1 = c1
    c2 = c2
    s1 = s1
    t1 = t1
    Workers = {w1, w2}
    Tenants = {t1}
    Calls = {c1, c2}
    Warm = {c1}
    Stops = {}
    TenantOf <- OneTenant
    MaxTenants = 1
    MaxRuns = 1
    Faults = {}
INVARIANTS AttachedIsServed
