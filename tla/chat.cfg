SPECIFICATION Spec
CONSTANTS
    None = None
    p1 = p1
    p2 = p2
    Prompts = {p1, p2}
    MaxTries = 2
    MaxStops = 1
CHECK_DEADLOCK FALSE
INVARIANTS TypeOK StopStops SentOnce NotStuck
PROPERTIES QueueKeeps SubmitEnds
