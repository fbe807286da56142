\* Two connections, sockets or posts, and channels of two messages.
CONSTANTS
    Key = {k1}
    Value = {v1}
    Conn = {c1, c2}
    NoSeq = NoSeq
    Capacity = 2
    MaxSeq = 3
    RawCompaction = FALSE
    PushActions <- SomeActions
    MaxFrames = 3
SPECIFICATION ServerSpec
INVARIANTS
    TellsForward
PROPERTIES
    ClosedIsDropped
CHECK_DEADLOCK FALSE
