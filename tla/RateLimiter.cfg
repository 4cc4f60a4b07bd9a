CONSTANTS
    Client = {a}
    Limit = 2
    Duration = 4
    Period = 3
    MaxTime = 13
SPECIFICATION Spec
CHECK_DEADLOCK FALSE
INVARIANTS TypeOK AtMostTwiceLimit EntriesExpire
