\* Two clients, one of which may mount its component again, and two calls of setState.
CONSTANTS
    Key = {k1}
    Value <- WrappedValue
    Conn = {c1, c2}
    NoSeq = NoSeq
    Capacity = 32
    MaxSeq = 3
    RawCompaction = FALSE
    SharedKey = k1
    MaxSets = 2
    MaxMounts <- Mounts
    Restless = {c1}
SPECIFICATION SharedSpec
INVARIANTS
    UnsentIsDue
    OthersShowStream
PROPERTIES
    LastSetIsSent
CHECK_DEADLOCK FALSE
