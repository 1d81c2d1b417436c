SPECIFICATION FairSpec
CONSTANTS
    Readers = {r1, r2}
    Addresses = {a1, a2}
    MaxTime = 3
    Known = {a2}
    Batches <- TwoLines
    Cutoff = 2
    MaxBatches = 2
    MaxPurges = 1
    MaxCrashes = 1
INVARIANTS SightingsReflected
PROPERTIES LastSeenNeverRegresses DispatchedUnlessCrash
CHECK_DEADLOCK FALSE
