SPECIFICATION Spec
CONSTANTS
    MaxOwn = 3
    MaxEvents <- OneAndTwo
    Events <- DeleteAtR
    Faults = {}
    MaxFaults = 0
    Restart = {"i"}
    Linger = TRUE
INVARIANT NoLeftovers
CHECK_DEADLOCK FALSE
