SPECIFICATION FairSpec
CONSTANTS
    p1 = p1
    t1 = t1
    t2 = t2
    a1 = a1
    Structs = {p1}
    Tools = {t1, t2}
    Args = {a1}
    Nothing = Nothing
    MaxInFlight = 2
INVARIANTS RunsOnlyAccepted AsksOnce
PROPERTIES CallEnds
CHECK_DEADLOCK FALSE
