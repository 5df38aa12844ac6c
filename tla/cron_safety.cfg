SPECIFICATION Spec
CONSTANTS
    None = None
    Api = Api
    s1 = s1
    t1 = t1
    t2 = t2
    h1 = h1
    h2 = h2
    j1 = j1
    Schedulers = {s1}
    Threads = {t1, t2}
    Handlers = {h1, h2}
    Jobs = {j1}
    Schedules <- OneShots
    Named = {2}
    MaxTime = 2
    MaxMoves = 2
    MaxOut = 1
    MaxFaults = 1
    Faults = {"expire", "raise", "silent", "crash"}
SYMMETRY Symmetry
INVARIANTS TypeOK FiresOnce StatusTruth
PROPERTIES NoneSkipped
