SPECIFICATION Spec
CONSTANTS
    Names = {f, g}
    Callbacks = {k1}
    Fetches = {f1}
    Workers = 1
    MaxDefault = 1
    MaxExplicit = 2
    MaxVer = 2
    MaxTime = 2
    MaxCalls = 2
    None = None
INVARIANTS
    StaleListingCauses
    RichFetchOnce
PROPERTIES
    PushComplete
    FetchEnds
CHECK_DEADLOCK FALSE
