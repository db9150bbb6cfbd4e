SPECIFICATION Spec
CONSTANTS
    c1 = c1
    Clients = {c1}
    Environments <- MCEnvironments
    Texts = {"jwt", "token", "none", "caldav", "fm", "keys", "iss", "other", "secret", "not a URL"}
    Resources <- MCResources
    Pems <- MCPems
    Files = {"key.pem"}
    Contents <- MCContents
    Kids = {"kid1", "kid2"}
    Keys = {"k1", "k2"}
    IssuerKeys <- MCIssuerKeys
    Credentials <- MCCredentials
    Paths <- MCPaths
    Unset = Unset
    Empty = Empty
    Blank = Blank
    None = None
INVARIANTS IInv ServedIsPermitted RefusedForCause ClosedUnlessOpened MetadataSuffices ChallengeLeadsToMetadata
CHECK_DEADLOCK FALSE
