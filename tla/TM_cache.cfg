SPECIFICATION Spec
CONSTANTS
    Tries = 0
    AuthMids = 2
    MaxTasks = 1
    Offered <- FaultTasks
    Bodies = {"valid", "critical"}
    FragCount <- NoFragments
    Mobike = FALSE
INVARIANT PacketsAreOfPreviousMid
CHECK_DEADLOCK FALSE
