SPECIFICATION Spec
CONSTANTS
    MaxOwn = 3
    MaxEvents <- TwoAndOne
    Events <- AllEvents
    Faults = {"install_r"}
    MaxFaults = 1
    Restart = {"i"}
    Linger = TRUE
INVARIANT CollisionTaskExists
CHECK_DEADLOCK FALSE
