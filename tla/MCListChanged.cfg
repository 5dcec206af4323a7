SPECIFICATION ListFairSpec
CONSTANTS
    w1 = w1
    c1 = c1
    c2 = c2
    t1 = t1
    d1 = d1
    Writers = {w1}
    Watches = {c1, c2}
    Slow = {}
    TaskIds = {t1}
    Capacity = 1
    MaxWrites = 1
    InitialBackoff = 10
    MaxBackoff = 10
    DirectCallers = {d1}
    NoStream = NoStream
INVARIANTS SentinelOnlyInsideCall ChangeOnItsWay
PROPERTIES FreshWhileConnected WatcherExits
CHECK_DEADLOCK FALSE
