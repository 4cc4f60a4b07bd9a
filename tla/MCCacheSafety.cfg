CONSTANTS
    k1 = k1
    p1 = p1
    p2 = p2
    w1 = w1
    w2 = w2
    NoKey = NoKey
    NoPipe = NoPipe
    Unlocked = Unlocked
    Key = {k1}
    Pipe = {p1, p2}
    KeyOf <- Shared
    Worker = {w1, w2}
    MayDelete = TRUE
    MayShutdown = TRUE
    MaxErrors = 1
    MaxListErrors = 1
SPECIFICATION Spec
INVARIANTS TypeOK Accounted RunningIffMapped
CHECK_DEADLOCK FALSE
