SPECIFICATION Spec
CONSTANTS
    Callbacks = {k1}
    MaxVer = 3
    Time = {0, 1, 3}
    Size <- ContentSize
    None = None
INVARIANTS
    SavedTextWritten
CHECK_DEADLOCK FALSE
