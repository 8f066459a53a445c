SPECIFICATION Spec
CONSTANTS
    Procs = {p1}
    InputCap = 2
    MaxOut = 2
INVARIANTS
    ExitIsLast
    EofAfterInput
PROPERTIES
    NoSendOnClosed
    ExitReported
CHECK_DEADLOCK FALSE
