\* Two clients, one of which mounts a second component, and channels of four messages.
CONSTANTS
    Key = {k1}
    Value <- ReducerValue
    Conn = {c1, c2}
    NoSeq = NoSeq
    Capacity = 4
    MaxSeq = 3
    RawCompaction = FALSE
    ReducerKey = k1
    Optimistic = TRUE
    SizeThreshold = 1
    MaxDispatch = 3
    MaxMounts <- Mounts
    Restless = {c1}
SPECIFICATION ReducerSpec
INVARIANTS
    StatesAgreeAtRest
CHECK_DEADLOCK FALSE
