SPECIFICATION Spec
CONSTANTS
    Tries = 0
    AuthMids = 2
    MaxTasks = 1
    Offered <- FaultTasks
    Bodies = {"valid"}
    FragCount <- TwoFragments
    Mobike = FALSE
INVARIANT PrevHashIsOfRequest
CHECK_DEADLOCK FALSE
