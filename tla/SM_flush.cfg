SPECIFICATION Spec
CONSTANTS
    t1 = t1
    t2 = t2
    t3 = t3
    m1 = m1
    m2 = m2
    h1 = h1
    h2 = h2
    Threads = {t1, t2}
    Main = main
    Messages = {m1}
    Hosts = {h1, h2}
    Source <- TwoSources
    None = None
    MaxSas = 2
    MaxJobs <- TwoJobs
    IkesaLimit = 1
    Shutdown = TRUE
SYMMETRY Symmetry
INVARIANTS
    Ownership
    NoWaiterOnFreed
    HalfOpenAgrees
    InitHashAgrees
CHECK_DEADLOCK FALSE
