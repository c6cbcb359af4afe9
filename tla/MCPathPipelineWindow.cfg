CONSTANTS
    p1 = p1
    p2 = p2
    p3 = p3
    Paths = {p1}
    NoPath = NoPath
    Requests = {r1}
    NoRequest = NoRequest
    Handles = {h1}
    NoHandle = NoHandle
    MayReject = TRUE
    MaxGoals = 1
    MaxFaults = 0
    Replanning = TRUE
    BadGoals = {}
    GoalOf <- OnePath
SPECIFICATION FairPipeSpec
PROPERTIES WindowIsReleased
CHECK_DEADLOCK FALSE
