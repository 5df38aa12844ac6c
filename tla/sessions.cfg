SPECIFICATION Spec
CONSTANTS
    None = None
    a = a
    b = b
    n = n
    p1 = p1
    Chats = {a, b}
    Listed = {a}
    Fresh = {n}
    Prompts = {p1}
    MaxMoves = 2
    Faults = {"restart", "fetch", "create", "resume", "delete"}
CHECK_DEADLOCK FALSE
INVARIANTS TypeOK ScreenIsSelected ActiveIsSelected PromptStays
PROPERTIES BusyEnds
