SPECIFICATION DebounceSpec
CONSTANTS
    burstLimit = 3
    burstWindow = 4
    debounceInterval = 4
    NoTimer = nil
    Timers = {t1, t2, t3}
INVARIANTS
    OwedIsScheduled
    BoundedDelay
PROPERTY KeepsPromise
