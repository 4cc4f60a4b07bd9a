CONSTANTS
    a = a
    b = b
    Cluster = {a, b}
    NoCluster = NoCluster
    Specs <- SmallSpecs
    Starts <- SmallStarts
    MaxChanges = 3
SPECIFICATION FairSpec
INVARIANTS TypeOK QuietIsRight
PROPERTIES StatusConverges RecoveryNoticed
CHECK_DEADLOCK FALSE
