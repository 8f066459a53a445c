SPECIFICATION Spec
CONSTANTS
    r = r
    d = d
    f = f
    Paths  <- MCPaths
    Dirs   <- MCDirs
    Parent <- MCParent
    Root = r
    Calls = {"watch", "open", "unwatch", "close", "clear", "pending"}
    MaxDisk = 3
    MaxCalls = 3
INVARIANTS
    TypeOK
    RefsMatchSession
    LiveEntriesArmed
    FileChangesReported
\* The bounded environment runs out of changes and calls.
CHECK_DEADLOCK FALSE
