SPECIFICATION Spec
CONSTANTS
    Attempts = {a1, a2, a3}
    Async = {a3}
    None = None
INVARIANTS
    NeverStuck
    OneAtATime
\* Attempts and connections end.
CHECK_DEADLOCK FALSE
