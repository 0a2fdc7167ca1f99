SPECIFICATION FairSpec
CONSTANTS
    h = h
    l = l
    m = m
    NumThreads = 3
    Jobs = {h, m, l}
    Scheduler = Scheduler
    None = None
    Prio <- Priorities
    Reserved <- OneOne
    Cancelable = {l}
    Delays = {0, 1}
    MaxRequeues = 1
    MaxTime = 1
INVARIANTS
    CountersAgree
    ReservedThreads
    JobInOnePlace
    OnTime
    NoLostWakeup
PROPERTIES
    WorkEnds
CHECK_DEADLOCK FALSE
