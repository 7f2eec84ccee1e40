SPECIFICATION FairSpec
CONSTANTS
    c1 = c1
    c2 = c2
    Client = {c1, c2}
    NoClient = NoClient
    NoConn = NoConn
    Conn <- Tries
    NameOf <- TwoNames
    Listed = {"status"}
    Mutating = {c1}
    Recovering = {c2}
    MaxTries = 2
    Path = {p1}
    NoPath = NoPath
    MaxPlugs = 2
CHECK_DEADLOCK FALSE
INVARIANTS
    TypeOK
    UnsafeOnce
    OwnLink
    ResultTraced
PROPERTIES
    BridgeRecovers
