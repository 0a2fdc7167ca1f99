SPECIFICATION FairSpec
CONSTANTS
    Tries = 1
    AuthMids = 2
    MaxTasks = 2
    Offered <- CoreTasks
    Bodies = {"valid", "gone"}
    FragCount <- NoFragments
    Mobike = FALSE
INVARIANTS
    TypeOK
    DeletesAgree
    NoForgottenTask
PROPERTIES
    ChannelSpec
    TasksEnd
CHECK_DEADLOCK FALSE
