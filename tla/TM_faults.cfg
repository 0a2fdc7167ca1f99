SPECIFICATION FairSpec
CONSTANTS
    Tries = 1
    AuthMids = 2
    MaxTasks = 1
    Offered <- FaultTasks
    Bodies = {"valid", "critical", "syntax"}
    FragCount <- TwoFragments
    Mobike = TRUE
INVARIANTS
    ExchangesAgree
    CachedResponseAnswers
    ExchangeIsDriven
PROPERTY DeleteEnds
CHECK_DEADLOCK FALSE
