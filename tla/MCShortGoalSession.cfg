SPECIFICATION Spec
CONSTANTS
    NPhases = 2
    MaxLag = 2
INVARIANTS
    ShutdownIsSafe
    LeaseNeedsAdmission
    PassIsWitnessed
    EveryEndStops
CHECK_DEADLOCK FALSE
