\* A provider that is given one room and then another, a hook, and one cut connection.
CONSTANTS
    Key = {k1}
    Room = {r1, r2}
    NoRoom = NoRoom
    Socket = {s1, s2, s3}
    NoSocket = NoSocket
    MaxSends = 0
    MaxConnects = 2
    MaxFailures = 1
    Prop = {r1, r2}
    FirstParam = {NoRoom}
    MaxEffects = 2
SPECIFICATION ProviderSpec
INVARIANTS
    PageIsInItsRoom
CHECK_DEADLOCK FALSE
