SPECIFICATION Spec
CONSTANTS
    t1 = t1
    t2 = t2
    t3 = t3
    a1 = a1
    a2 = a2
    Threads = {t1, t2}
    Addrs = {a1}
    Spis = {"in", "out"}
    Inbound = {"in"}
    Number <- SameNumber
    None = None
    MaxAdds = 2
SYMMETRY Symmetry
INVARIANT JobFindsItsSa
CHECK_DEADLOCK FALSE
