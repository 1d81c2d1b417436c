SPECIFICATION FairSpec
CONSTANTS
    Workers = {w1, w2}
    Scanners = {s1}
    Free = Free
    Orphan = Orphan
    Addresses = {a1}
    Cidrs = {{a1}, {a1, a2}}
    MaxEvents = 4
    MaxCrashes = 1
INVARIANTS RowAgreesUnlessStale OnePeriodPerWriter
PROPERTY WhoisReachesIran
CHECK_DEADLOCK FALSE
