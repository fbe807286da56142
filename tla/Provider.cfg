\* Two runs of the effect, two cut connections; the room asked for may be there
\* or not.
CONSTANTS
    Key = {k1}
    Room = {r1, r2}
    NoRoom = NoRoom
    Socket = {s1, s2, s3}
    NoSocket = NoSocket
    MaxSends = 0
    MaxConnects = 2
    MaxFailures = 2
    Prop = {NoRoom, r1}
    FirstParam = {NoRoom, r1}
    MaxEffects = 2
SPECIFICATION ProviderSpec
INVARIANTS
    HooksReachRoom
    ShowsRoomItIsIn
    LeavesRoom
PROPERTIES
    LatencyIsMeasured
CHECK_DEADLOCK FALSE
