SPECIFICATION ContractSpec
CONSTANTS
    N = 3
    MethodsPerService = 2
    ServicesPerFile = 1
    MaxRecursionDepth = 2
    n1 = n1
    n2 = n2
    Requests <- MCRequests
    Samples <- MCSamples
INVARIANTS EveryFeedWatched
CHECK_DEADLOCK FALSE
