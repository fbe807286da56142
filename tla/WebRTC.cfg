\* Two tabs with any order of their ids, one of which may be loaded again in the middle,
\* and one value; or a connection between them that fails.
CONSTANTS
    Client = {c1, c2}
    Id <- Ids
    Restless = {c1}
    FirstIds <- SomeIds
    NoId = NoId
    MaxSends = 1
    MaxFaults = 1
SPECIFICATION RTCSpec
INVARIANTS
    OneSession
PROPERTIES
    PeersConnect
    GhostsGo
CHECK_DEADLOCK FALSE
