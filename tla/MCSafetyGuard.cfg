SPECIFICATION Spec
CONSTANTS
    MaxAttempts = 2
    Samples = 2
    MaxQueue = 1
    StateSamples = 2
INVARIANTS FailureIsTold PassIsManaged
PROPERTIES KeepsOrder GateIsWitnessed MonitorLossEndsLaunch
CHECK_DEADLOCK FALSE
