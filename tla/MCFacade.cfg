SPECIFICATION FairSpec
CONSTANTS
    MaxGoals = 6
    MaxReplanFailures = 1
    MaxFaults = 0
    Replanning = TRUE
    Polygons = {FALSE}
    StationaryCompletion = FALSE
INVARIANTS
    SuccessIsFollowed
PROPERTIES
    CancelEnds
    SlotFreed
