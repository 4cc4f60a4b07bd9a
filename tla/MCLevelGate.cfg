CONSTANTS
    p1 = p1
    p2 = p2
    none = none
    mgmt = mgmt
    leaf = leaf
    Promotions = {p1}
    Manual = {}
    Nil = none
    DefaultPromotion = p1
    EnvPromotion <- NoOverride
    NumEnvs = 2
    MaxRev = 3
    NumTargets = 3
    EnvOf <- DevDevProd
    Cluster = {mgmt}
    ClusterOf <- AllLocal
    Local = mgmt
    InitialApps <- DevAhead
    Rollbacks = FALSE
    Deletable = FALSE
    Lossy = FALSE
    MaxDisruptions = 0
    MaxFaults = 1
SPECIFICATION Spec
INVARIANTS TypeOK PromotedOnlyProven
PROPERTIES PromotionsMoveForward
CHECK_DEADLOCK FALSE
