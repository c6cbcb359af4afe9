CONSTANTS
    p1 = p1
    p2 = p2
    p3 = p3
    Paths = {p1, p2, p3}
    NoPath = NoPath
    Requests = {r1}
    NoRequest = NoRequest
    Handles = {h1}
    NoHandle = NoHandle
    MayReject = TRUE
    MaxGoals = 2
    MaxFaults = 0
    Replanning = TRUE
    BadGoals = {"goal frame"}
    GoalOf <- MCGoalOf
SPECIFICATION PipeSpec
SYMMETRY Symmetry
PROPERTIES OnlySuccessEndsGoal
CHECK_DEADLOCK FALSE
