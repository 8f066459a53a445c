SPECIFICATION Spec
CONSTANTS
    MaxCalls = 2
    MaxTraffic = 1
    MaxDepth = 2
    Large <- LargeMsgs
    Quits = TRUE
    PipeFills = TRUE
INVARIANTS
    WholeMessages
    AnswersOwn
    NothingLost
PROPERTIES
    NoLateCallback
    SpuriousTimeout
    AtMostOnce
    SyncReturns
CHECK_DEADLOCK FALSE
