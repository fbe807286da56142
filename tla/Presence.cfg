\* Two clients over four intervals: a timer that is late, and one that is late again
\* because it was set anew meanwhile, still let every peer be heard in time.
CONSTANTS
    Client = {c1, c2}
    State = {x, y}
    Unsent = Unsent
    MinInterval = 1
    MaxInterval = 2
    MaxDelay = 0
    Slack = 1
    Early = TRUE
    MaxUpdates = 2
    MaxTime = 10
SPECIFICATION PresenceSpec
INVARIANTS
    UnsentIsDue
    UpdatesApart
    SilentPeersGo
PROPERTIES
    LivePeersKept
SYMMETRY Symmetry
CHECK_DEADLOCK FALSE
