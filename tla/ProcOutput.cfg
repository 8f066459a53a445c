SPECIFICATION Spec
CONSTANTS
    Procs = {p1}
    InputCap = 1
    MaxOut = 1
INVARIANT AllOutputSent
CHECK_DEADLOCK FALSE
