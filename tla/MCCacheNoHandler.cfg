CONSTANTS
    k1 = k1
    p1 = p1
    p2 = p2
    w1 = w1
    w2 = w2
    NoKey = NoKey
    NoPipe = NoPipe
    Unlocked = Unlocked
    Key = {k1}
    Pipe = {p1}
    KeyOf <- Only
    Worker = {w1}
    MayDelete = FALSE
    MayShutdown = FALSE
    MaxErrors = 1
    MaxListErrors = 0
SPECIFICATION FairSpec
PROPERTY UsedCacheHandled
CHECK_DEADLOCK FALSE
