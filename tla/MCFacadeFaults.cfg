SPECIFICATION Spec
CHECK_DEADLOCK FALSE
CONSTANTS
    MaxGoals = 4
    MaxReplanFailures = 1
    MaxFaults = 1
    Replanning = TRUE
    Polygons = {TRUE, FALSE}
    StationaryCompletion = TRUE
INVARIANTS
    OneFollow
    SlotCoversInner
PROPERTIES
    ImplementsSlot
