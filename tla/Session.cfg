SPECIFICATION FairSpec
CONSTANTS
    g1 = g1
    g2 = g2
    a1 = a1
    b1 = b1
    A = A
    B = B
    Manifest = {A, B}
    ManifestOf <- TwoExperiments
    Run = {a1, b1}
    Grant = {g1, g2}
    Catalog <- Catalogs
    Budget <- Budgets
    None = None
    MaxFaults = 2
CHECK_DEADLOCK FALSE
INVARIANTS
    TypeOK
    CatalogOrder
    OneAuthority
    WithdrawnStops
PROPERTIES
    InterruptionFinal
    RecoveryUnhindered
