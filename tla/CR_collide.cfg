SPECIFICATION FairSpec
CONSTANTS
    MaxOwn = 5
    MaxEvents <- TwoAndOne
    Events <- AllEvents
    Faults <- Fault
    MaxFaults = 1
    Restart = {"i"}
    Linger = TRUE
INVARIANTS
    ExchangesMatch
    SasAgree
    NotLost
    NoDuplicate
    NoGap
    PeerReceives
PROPERTY Settles
CHECK_DEADLOCK FALSE
