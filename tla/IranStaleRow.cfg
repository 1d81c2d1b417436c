SPECIFICATION Spec
CONSTANTS
    Workers = {w1, w2}
    Scanners = {}
    Free = Free
    Orphan = Orphan
    Addresses = {a1}
    Cidrs = {{a1}}
    MaxEvents = 2
    MaxCrashes = 0
INVARIANT RowAgreesWithHistory
CHECK_DEADLOCK FALSE
