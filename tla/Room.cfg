\* Two connections, plain or debug, that send four messages on two streams.
CONSTANTS
    Key = {k1, k2}
    Value = {v}
    Conn = {c1, c2}
    NoSeq = NoSeq
    Capacity = 32
    MaxSeq = 4
    MaxRequests = 4
    RawCompaction = FALSE
SPECIFICATION TraceSpec
INVARIANTS
    RoomTypeOK
    PushesInOrder
    DebugMirrorsStreams
    SubscribersFollowHistory
    ReplayJoinsLive
    StreamsSorted
    StreamsHoldUnsuperseded
PROPERTIES
    ImplementsStreamMap
SYMMETRY Symmetry
CHECK_DEADLOCK FALSE
