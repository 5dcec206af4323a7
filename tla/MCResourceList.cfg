SPECIFICATION FairSpec
CONSTANTS
    r1 = r1
    r2 = r2
    r3 = r3
    Registrars = {r1, r2, r3}
    NilLister = {r3}
    Nobody = Nobody
    Items = {1, 2, 3, 4}
    Hidden = {2}
    Modes = {"offset", "token"}
    PageSize = 2
    MaxInt = 4
    MaxWrites = 2
    MaxRetries = 1
INVARIANTS RegisteredListerServes WalkSkipsNothing WalkRepeatsNothing
PROPERTIES WalkEnds
CHECK_DEADLOCK FALSE
