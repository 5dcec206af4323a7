SPECIFICATION FeedFairSpec
CONSTANTS
    w1 = w1
    w2 = w2
    c1 = c1
    c2 = c2
    t1 = t1
    Writers = {w1, w2}
    Watches = {c1, c2}
    Slow = {c2}
    TaskIds = {t1}
    Capacity = 1
    MaxWrites = 2
INVARIANTS TriggerPending AtMostOneEventPerWrite
PROPERTIES WriteIsAnnounced WritesNeverBlock
CHECK_DEADLOCK FALSE
