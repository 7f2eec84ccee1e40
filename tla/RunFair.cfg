SPECIFICATION FairSpec
CONSTANTS
    p1 = p1
    p2 = p2
    ap = ap
    Run = {p1}
    CandOf <- OneCandidate
    None = None
    MaxFaults = 3
CHECK_DEADLOCK FALSE
PROPERTIES
    OwnershipEnds
