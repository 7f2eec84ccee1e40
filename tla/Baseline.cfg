SPECIFICATION FairSpec
CONSTANTS
    g1 = g1
    g2 = g2
    Grant = {g1, g2}
    Budget <- TwoThenOne
    Allowed <- Operations
    None = None
    F1 = F1
    Goal = Goal
    MaxFaults = 2
CHECK_DEADLOCK FALSE
INVARIANTS
    TypeOK
    OneActor
    RolesOnce
    TargetReturned
PROPERTIES
    StopFinal
    OwnerReleased
