\* A room that may vanish at any step, written on a socket or over HTTP, and reads that may fail.
CONSTANTS
    Key = {k1}
    Value = {v}
    Socket = {s1}
    NoMessage = NoMessage
    InputGates = TRUE
    Crashes = TRUE
    StorageFails = TRUE
    Retention = 2
    MaxOps = 4
    MaxSeq = 3
    RawCompaction = FALSE
SPECIFICATION RetentionSpec
PROPERTIES
    PersistedAfterWrite
SYMMETRY Symmetry
CHECK_DEADLOCK FALSE
