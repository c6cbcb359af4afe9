SPECIFICATION FairSpec
CONSTANTS
    A = A
    B = B
    Executions <- MCExecutions
    NoOwner = NoOwner
    NoTimer = NoTimer
    Operator = Operator
    NoTwist = NoTwist
    Twists <- MCTwists
    CandidateTimeout = 1
    AutonomousTimeout = 2
    MaxForward = 2
    MaxReverse = 1
    MaxAngular = 1
    SimulationAuthorized = TRUE
INVARIANTS
    CandidateOfThisLease
PROPERTIES
    ImplementsMotionAuthority
    MotionNeedsRenewal
