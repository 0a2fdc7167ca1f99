SPECIFICATION Spec
CONSTANTS
    MaxOwn = 3
    MaxEvents <- TwoAndOne
    Events <- AllEvents
    Faults = {"install_i"}
    MaxFaults = 1
    Restart = {"i"}
    Linger = TRUE
INVARIANT LinksAreMutual
CHECK_DEADLOCK FALSE
