SPECIFICATION Spec
CONSTANTS
    c1 = c1
    c2 = c2
    Client = {c1}
    NoClient = NoClient
    NoConn = NoConn
    Conn <- Tries
    NameOf <- WifiNames
    Listed = {"wifi"}
    Mutating = {c1}
    Recovering = {}
    MaxTries = 2
    Path = {p1}
    NoPath = NoPath
    MaxPlugs = 2
CHECK_DEADLOCK FALSE
INVARIANTS
    MutatingOnce
