CONSTANTS
    p1 = p1
    p2 = p2
    none = none
    mgmt = mgmt
    leaf = leaf
    Promotions = {p2}
    Manual = {}
    Nil = none
    DefaultPromotion = none
    EnvPromotion <- OverrideLast
    NumEnvs = 2
    MaxRev = 2
    NumTargets = 2
    EnvOf <- DevProd
    Cluster = {mgmt, leaf}
    ClusterOf <- LastRemote
    Local = mgmt
    InitialApps <- AllRunning
    Rollbacks = TRUE
    Deletable = TRUE
    Lossy = TRUE
    MaxDisruptions = 1
    MaxFaults = 1
SPECIFICATION Spec
INVARIANT StatusOnlyProven
CHECK_DEADLOCK FALSE
