SPECIFICATION PtySpec
CONSTANTS
    MaxPrompts = 3
    Binary = 3
    MaxFrames = 3
INVARIANTS
    RightReader
    FramesInOrder
    ChildEndsFirst
PROPERTIES
    SuccessIsFinal
\* A handshake ends.
CHECK_DEADLOCK FALSE
