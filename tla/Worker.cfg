\* Two streams behind input gates, four storage operations at a time; the object may vanish at any step, and reads of storage may fail.
CONSTANTS
    Key = {k1, k2}
    Value = {v}
    Socket = {s1}
    NoMessage = NoMessage
    InputGates = TRUE
    Crashes = TRUE
    StorageFails = TRUE
    Retention = 1
    MaxOps = 4
    MaxSeq = 3
    Base = 2
    Width = 3
    Bar = 2
    RawCompaction = FALSE
SPECIFICATION WorkerTraceSpec
INVARIANTS
    WorkerTypeOK
    StoredIsRetained
    RetainedIsStored
    KeptNumbersNotReused
PROPERTIES
    ReloadLosesOnlyPending
SYMMETRY Symmetry
CHECK_DEADLOCK FALSE
