CONSTANTS
    Paths = {p1, p2}
    NoPath = NoPath
    Requests = {r1, r2}
    NoRequest = NoRequest
    MaxGoals = 3
    MaxFaults = 1
    Replanning = TRUE
    BadGoals = {"goal frame", "goal quaternion non-finite"}
SPECIFICATION FairSpec
INVARIANTS OneRequest StaleRequestCancelled DeferredIsOwed
PROPERTIES QueuedIsSent
CHECK_DEADLOCK FALSE
