CONSTANTS
    k1 = k1
    p1 = p1
    p2 = p2
    w1 = w1
    w2 = w2
    NoKey = NoKey
    NoPipe = NoPipe
    Unlocked = Unlocked
    Key = {k1}
    Pipe = {p1, p2}
    KeyOf <- Shared
    Worker = {w1}
    MayDelete = TRUE
    MayShutdown = FALSE
    MaxErrors = 0
    MaxListErrors = 1
SPECIFICATION FairSpec
PROPERTIES UnusedDismantled WatchReturns UsedCacheHandled UsedCacheKept ImplementsPool
CHECK_DEADLOCK FALSE
