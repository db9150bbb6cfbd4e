SPECIFICATION FairSpec
CONSTANTS
    c1 = c1
    Calls = {c1}
    Origins <- MCOrigins
    Paths <- MCPaths
    Names = {"Work", "Todo", "Inbox"}
    Components = {"VEVENT", "VTODO"}
    Colors = {"red"}
    Tags = {"t1"}
    Accounts <- MCAccounts
    Base = "base"
    Relative = "relative"
    Malformed = "malformed"
    Dav = "dav"
    MaxChanges = 3
    None = None
INVARIANTS IInv ListsAHome FailuresExplained
PROPERTIES EveryDiscoveryEnds
CHECK_DEADLOCK FALSE
