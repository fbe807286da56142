\* One room, two calls of connect and two cut connections.
CONSTANTS
    Key = {k1}
    Room = {r1}
    NoRoom = NoRoom
    Socket = {s1, s2, s3}
    NoSocket = NoSocket
    MaxSends = 2
    MaxConnects = 2
    MaxFailures = 2
SPECIFICATION ClientSpec
INVARIANTS
    ClientTypeOK
    EachSentOnce
    RestsConnected
PROPERTIES
    ReconnectsOnlyWhenDown
    QueueIsSent
CHECK_DEADLOCK FALSE
