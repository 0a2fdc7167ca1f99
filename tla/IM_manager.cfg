SPECIFICATION Spec
CONSTANTS
    t1 = t1
    t2 = t2
    t3 = t3
    a1 = a1
    a2 = a2
    Threads = {t1, t2, t3}
    Addrs = {a1, a2}
    Spis = {"in", "out"}
    Inbound = {"in"}
    Number <- SameNumber
    None = None
    MaxAdds = 3
SYMMETRY Symmetry
INVARIANTS
    Exclusive
    NoUseAfterFree
    FlushIsComplete
    NoLostWakeup
CHECK_DEADLOCK FALSE
