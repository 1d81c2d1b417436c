SPECIFICATION FairSpec
CONSTANTS
    Workers = {w1, w2, w3}
    NoWorker = NoWorker
    Timeout = 4
    MaxHold = 3
INVARIANTS MutualExclusion
PROPERTIES NeverBlockedForever ImplementsLease
