CONSTANTS
    Paths = {p1, p2}
    NoPath = NoPath
    Handles = {h1, h2}
    NoHandle = NoHandle
    MayReject = TRUE
    MaxFaults = 2
SPECIFICATION FairSpec
INVARIANTS OneGoal
PROPERTIES DangerStops PendingServed
