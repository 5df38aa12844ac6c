SPECIFICATION Spec
CONSTANTS
    c1 = c1
    c2 = c2
    Calls = {c1, c2}
    MaxFaults = 2
CHECK_DEADLOCK FALSE
INVARIANTS TypeOK NeverStranded NoCallOrphaned ComposerHonest
PROPERTIES BackOnline CallsEnd
