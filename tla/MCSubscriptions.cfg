SPECIFICATION FairSpec
CONSTANTS
    s1 = s1
    s2 = s2
    u1 = u1
    u2 = u2
    w1 = w1
    Sessions = {s1, s2}
    Uris = {u1, u2}
    Writers = {w1}
    Servers = {"queued", "direct", "listen"}
    Granted <- MCGranted
    NoUri = NoUri
    EventBuffer = 1
    MaxWrites = 3
    MaxSubscribes = 2
    MaxLegacy = 1
INVARIANTS WatchedWhileStreaming
PROPERTIES StreamsBeat WritesReachSubscribers
CHECK_DEADLOCK FALSE
