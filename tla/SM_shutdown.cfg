SPECIFICATION Spec
CONSTANTS
    t1 = t1
    t2 = t2
    t3 = t3
    m1 = m1
    m2 = m2
    h1 = h1
    h2 = h2
    Threads = {t1, t2}
    Main = main
    Messages = {}
    Hosts = {h1}
    Source <- OneSource
    None = None
    MaxSas = 1
    MaxJobs <- TwoJobs
    IkesaLimit = 0
    Shutdown = TRUE
SYMMETRY Symmetry
INVARIANT NobodyWaitsOnFreed
CHECK_DEADLOCK FALSE
