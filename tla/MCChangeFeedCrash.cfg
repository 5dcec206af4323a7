SPECIFICATION FeedSpec
CONSTANTS
    w1 = w1
    w2 = w2
    c1 = c1
    c2 = c2
    t1 = t1
    Writers = {w1, w2}
    Watches = {c1, c2}
    Slow = {}
    TaskIds = {t1}
    Capacity = 8
    MaxWrites = 3
INVARIANTS NeverCrashes
CHECK_DEADLOCK FALSE
