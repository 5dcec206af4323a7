SPECIFICATION ListFairSpec
CONSTANTS
    w1 = w1
    c1 = c1
    c2 = c2
    t1 = t1
    d1 = d1
    Writers = {w1}
    Watches = {c1}
    Slow = {}
    TaskIds = {t1}
    Capacity = 1
    MaxWrites = 1
    InitialBackoff = 20
    MaxBackoff = 20
    DirectCallers = {}
    NoStream = NoStream
PROPERTIES MutationsReachClient
CHECK_DEADLOCK FALSE
