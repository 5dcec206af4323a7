SPECIFICATION CompletionFairSpec
CONSTANTS
    r1 = r1
    r2 = r2
    prompt = prompt
    Registrars = {r1, r2}
    Kinds = {prompt}
    Prompt = prompt
    Keys = {a, b}
    Enumerated = {a}
    EmptyKey = Empty
    BypassKeys = {b}
    MaxCalls = 2
    Nobody = Nobody
INVARIANTS RegisteredIsServed SnapshotDiffExact CompletesServedPrompt
PROPERTIES WriteOnce CallsEnd
CHECK_DEADLOCK FALSE
