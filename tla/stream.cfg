CONSTANTS
    Turns = 2
    MaxText = 1
    MaxActs = 1
    Window = 2
    MaxReads = 2
SPECIFICATION Spec
CHECK_DEADLOCK FALSE
INVARIANTS TypeOK NoMixedRows NoSpinnerLeft ScreenIsHistory
PROPERTIES StoppedFrozen
