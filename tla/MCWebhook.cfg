CONSTANTS
    auto = auto
    manual = manual
    none = none
    q1 = q1
    q2 = q2
    q3 = q3
    NumEnvs = 3
    MaxRev = 2
    Promotions = {auto, manual}
    Manual = {manual}
    Nil = none
    DefaultPromotion = auto
    EnvPromotion <- LastManual
    Req = {q1, q2, q3}
    Traffic <- MixedTraffic
    Signed = {auto}
    Retries = 2
    Reconcilers = {"edge", "level"}
    MaxReconciles = 1
    MaxFailures = 2
    MaxCrashes = 1
SPECIFICATION Spec
INVARIANTS TypeOK PromotedOnlyNotified ManualOnlyApproved AcknowledgedNotLost
PROPERTIES UpdatesKeepTheRest ResetOnlyPromoted
SYMMETRY ReqSymmetry
CHECK_DEADLOCK FALSE
