SPECIFICATION FairSpec
CONSTANTS
    Clients = {c1, c2}
    k1 = k1
    k2 = k2
    a = a
    b = b
    None = None
    Tokens <- MCTokens
    Kids = {k1, k2}
    Keys = {a, b}
    Documents <- Rotated
    MaxRotations = 2
INVARIANTS TypeOK CacheIsOneDocument AcceptedIsVouchedFor RefusedForItsKey
PROPERTIES EveryRequestIsDecided RotationIsPickedUp RequestsAreJudgedApart
