SPECIFICATION Spec
CONSTANTS
    global = global
    local = local
    Costmaps = {global}
    MaxGoals = 2
    MaxPatrols = 2
    Need = 1
INVARIANTS MotionInsideBoundary NoOrphan
PROPERTIES WaypointIsAStop LostBoundaryEnds CancelsEnd
CHECK_DEADLOCK FALSE
