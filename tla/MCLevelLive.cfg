CONSTANTS
    p1 = p1
    p2 = p2
    none = none
    mgmt = mgmt
    leaf = leaf
    Promotions = {p1}
    Manual = {}
    Nil = none
    DefaultPromotion = p1
    EnvPromotion <- NoOverride
    NumEnvs = 2
    MaxRev = 2
    NumTargets = 2
    EnvOf <- DevProd
    Cluster = {mgmt, leaf}
    ClusterOf <- LastRemote
    Local = mgmt
    InitialApps <- DevAhead
    Rollbacks = FALSE
    Deletable = FALSE
    Lossy = TRUE
    MaxDisruptions = 1
    MaxFaults = 1
CONSTRAINT OneTrouble
SPECIFICATION FairSpec
PROPERTIES StatusConverges PromotionDelivered
CHECK_DEADLOCK FALSE
