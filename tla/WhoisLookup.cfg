SPECIFICATION FairSpec
CONSTANTS
    Workers = {w1, w2}
    Free = Free
    Width = 2
    Responses <- MCResponses
    Orphan = Orphan
    Requests = {r1, r2}
    MaxRetries = 1
    MaxWeeks = 1
    MaxCrashes = 1
INVARIANTS OneLookupAtATime QueriesBounded CountryAnnounced NetworkKept
 
CHECK_DEADLOCK FALSE
