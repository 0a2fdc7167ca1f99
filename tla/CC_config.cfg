SPECIFICATION FairSpec
CONSTANTS
    t1 = t1
    t2 = t2
    t3 = t3
    t4 = t4
    x = x
    y = y
    i1 = i1
    i2 = i2
    Threads = {t1, t2, t3, t4}
    Configs = {x, y}
    SaIds = {i1, i2}
    None = None
    MaxCalls = 1
INVARIANTS
    OneIkeSaPerConfig
    NoLostWakeup
PROPERTIES
    CallsReturn
CHECK_DEADLOCK FALSE
