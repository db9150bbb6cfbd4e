SPECIFICATION Spec
CONSTANTS
    s = s
    Texts = {s}
    Leaves = {"displayname"}
    Types <- MCTypes
    Comps = {"VEVENT"}
    Nestings <- MCNestings
    Target = "current-user-principal"
    CDataHrefs = FALSE
    Chunks = 1
    MaxResponses = 2
    MaxChildren = 2
    None = None
INVARIANTS IInv ReadAsMeant FoundIsNested
CHECK_DEADLOCK FALSE
