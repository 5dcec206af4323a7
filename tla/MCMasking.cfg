SPECIFICATION Spec
CONSTANTS
    Types <- MCTypes
    AnyType = "Any"
    Scalar = "Scalar"
    CustomJSON = {"Any", "Struct"}
    Fields <- MCFields
    Known = {"Root", "Item", "Strict", "Plain", "Any", "Struct"}
    RPCs = {"rpc"}
    Messages <- MCMessages
    Emits = {"populated", "defaults", "all"}
    MaxDepth = 4
    MaxNodes = 5
INVARIANTS MaskedClean NothingElseCleared NamesHidden
CHECK_DEADLOCK FALSE
