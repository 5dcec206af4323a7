SPECIFICATION FairSpec
CONSTANTS
    Surfaces = {"tool", "prompt", "read", "list"}
    N = 2
    P = 2
    HandlerKinds = {"default", "custom"}
    MaxFinals = 2
    Streamings = {TRUE, FALSE}
    Elicits = TRUE
    HasToken = TRUE
    MaxMessages = 2
INVARIANTS EveryMiddlewareGuardsFinal ErrorNeverSwallowed ProcessorsSeeEveryResult CompleteOrNothing ProgressCountsMessages MetadataArrives
PROPERTIES FinalLetsGo
CHECK_DEADLOCK FALSE
