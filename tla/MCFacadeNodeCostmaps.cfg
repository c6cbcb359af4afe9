SPECIFICATION Spec
CONSTANTS
    global = global
    local = local
    Costmaps = {global, local}
    MaxGoals = 2
    MaxPatrols = 2
    Need = 1
SYMMETRY Symmetry
INVARIANTS MotionInsideBoundary NoOrphan
PROPERTIES WaypointIsAStop
CHECK_DEADLOCK FALSE
