\* Three optimistic clients that compact at two entries.
CONSTANTS
    Key = {k1}
    Value <- ReducerValue
    Conn = {c1, c2, c3}
    NoSeq = NoSeq
    Capacity = 32
    MaxSeq = 3
    RawCompaction = FALSE
    ReducerKey = k1
    Optimistic = TRUE
    SizeThreshold = 1
    MaxDispatch = 3
    MaxMounts <- Mounts
    Restless = {}
SPECIFICATION ReducerSpec
INVARIANTS
    ReducerTypeOK
    ConfirmedIsHistory
    ReplayIsHistory
    CompactionsAtSeenNumbers
    AllConfirmedAtRest
PROPERTIES
    ComesToRest
CHECK_DEADLOCK FALSE
