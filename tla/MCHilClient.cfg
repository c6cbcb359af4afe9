SPECIFICATION Spec
CONSTANTS
    Requests = {"a"}
    MaxEvents = 4
INVARIANTS ReportIsTrue
PROPERTIES EndIsReported CancelIsAnswered
CHECK_DEADLOCK FALSE
