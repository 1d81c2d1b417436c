SPECIFICATION FairSpec
CONSTANTS
    Workers = {w1, w2}
    Free = Free
    Orphan = Orphan
    MaxSights = 1
    MaxNews = 1
    MaxCrashes = 1
 
PROPERTY EnrichedUnlessOrphaned
CHECK_DEADLOCK FALSE
