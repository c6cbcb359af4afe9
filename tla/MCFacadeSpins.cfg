SPECIFICATION FairSpec
CONSTANTS
    MaxGoals = 3
    MaxReplanFailures = 1
    MaxFaults = 0
    Replanning = TRUE
    Polygons = {FALSE}
    StationaryCompletion = FALSE
PROPERTIES
    Responsive
