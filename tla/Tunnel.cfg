SPECIFICATION Spec
CONSTANTS
    Conns = {c1}
    ChanCap = 1
    MaxData = 3
INVARIANTS
    TypeOK
    IntroducedFirst
    NoStaleEntry
PROPERTY HangUpsCross
\* The bounded environment runs out of data and connections.
CHECK_DEADLOCK FALSE
