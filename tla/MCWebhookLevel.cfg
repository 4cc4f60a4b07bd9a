CONSTANTS
    auto = auto
    manual = manual
    none = none
    q1 = q1
    q2 = q2
    q3 = q3
    NumEnvs = 2
    MaxRev = 1
    Promotions = {manual}
    Manual = {manual}
    Nil = none
    DefaultPromotion = manual
    EnvPromotion <- NoOverride
    Req = {q1, q2}
    Traffic <- ManualTraffic
    Signed = {}
    Retries = 2
    Reconcilers = {"level"}
    MaxReconciles = 1
    MaxFailures = 0
    MaxCrashes = 0
SPECIFICATION Spec
PROPERTY ReconcilerKeepsWaiting
CHECK_DEADLOCK FALSE
