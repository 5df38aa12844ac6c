SPECIFICATION FairSpec
CONSTANTS
    None = None
    Api = Api
    s1 = s1
    s2 = s2
    t1 = t1
    t2 = t2
    j1 = j1
    Schedulers = {s1, s2}
    Threads = {t1, t2}
    Handlers = {}
    Jobs = {j1}
    Schedules <- OneShots
    Named = {}
    MaxTime = 2
    MaxMoves = 0
    MaxOut = 1
    MaxFaults = 2
    Faults = {"expire", "raise", "crash", "stop"}
PROPERTIES DueFires UsurpedStepsDown
