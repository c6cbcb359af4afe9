SPECIFICATION Spec
CONSTANTS
    NPhases = 1
    MaxCrashes = 1
    MaxScanFailures = 1
INVARIANTS
    ReceiptIsTrue
    NoFalseAbnormalExit
PROPERTIES
    FailureStands
    RunEnds
    LaunchEnds
CHECK_DEADLOCK FALSE
