SPECIFICATION Spec
CONSTANTS
    Nobody = Nobody
    Attempts = {a1, a2, a3}
    TTL = 2
    MaxTime = 5
INVARIANTS OneHolder
PROPERTIES KeepsPromise
SYMMETRY AttemptSymmetry
CHECK_DEADLOCK FALSE
