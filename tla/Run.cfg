SPECIFICATION Spec
CONSTANTS
    p1 = p1
    p2 = p2
    ap = ap
    Run = {p1, p2}
    CandOf <- OneCandidate
    None = None
    MaxFaults = 2
SYMMETRY Symmetry
CHECK_DEADLOCK FALSE
INVARIANTS
    TypeOK
    CandidateOnce
    TransfersRecorded
    EffectsOwned
    TargetReturned
    NeverRefused
    NoInventedAttempt
    PreEffectHonest
PROPERTIES
    ImplementsLedger
