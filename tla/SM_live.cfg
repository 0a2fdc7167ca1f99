SPECIFICATION FairSpec
CONSTANTS
    t1 = t1
    t2 = t2
    t3 = t3
    m1 = m1
    m2 = m2
    h1 = h1
    h2 = h2
    Threads = {t1, t2, t3}
    Main = main
    Messages = {m1}
    Hosts = {h1}
    Source <- OneSource
    None = None
    MaxSas = 2
    MaxJobs <- TwoForOne
    IkesaLimit = 0
    Shutdown = FALSE
INVARIANTS
    Exclusive
    NoLostWakeup
PROPERTIES
    JobsEnd
CHECK_DEADLOCK FALSE
