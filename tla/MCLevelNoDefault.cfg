CONSTANTS
    p1 = p1
    p2 = p2
    none = none
    mgmt = mgmt
    leaf = leaf
    Promotions = {p2}
    Manual = {}
    Nil = none
    DefaultPromotion = none
    EnvPromotion <- OverrideLast
    NumEnvs = 2
    MaxRev = 2
    NumTargets = 2
    EnvOf <- DevProd
    Cluster = {mgmt}
    ClusterOf <- AllLocal
    Local = mgmt
    InitialApps <- AllRunning
    Rollbacks = FALSE
    Deletable = FALSE
    Lossy = FALSE
    MaxDisruptions = 0
    MaxFaults = 0
SPECIFICATION FairSpec
PROPERTY PromotionDelivered
CHECK_DEADLOCK FALSE
