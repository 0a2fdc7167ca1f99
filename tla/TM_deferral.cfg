SPECIFICATION Spec
CONSTANTS
    Tries = 0
    AuthMids = 2
    MaxTasks = 2
    Offered <- MobikeTasks
    Bodies = {"valid"}
    FragCount <- NoFragments
    Mobike = TRUE
INVARIANT DeferralKeepsIkeSa
CHECK_DEADLOCK FALSE
