SPECIFICATION Spec
CONSTANTS
    Conns = {c1, c2}
    Modes = {"tcp", "stdio"}
    Requests = {"watch", "tunnel", "shutdown"}
    ShutdownCalls = {s1}
    Tunnellers = {c1}
    MaxHandlers = 1
INVARIANTS
    CrashCauses
    
PROPERTIES
    ShutdownClosesSessions
\* A server that has ended does nothing more.
CHECK_DEADLOCK FALSE
