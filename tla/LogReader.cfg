SPECIFICATION FairSpec
CONSTANTS
    Workers = {w1, w2}
    Free = Free
    Orphan = Orphan
    MaxGen = 2
    MaxSize = 3
    Newlines <- MCNewlines
    Format <- MCFormat
    Texts <- MCTexts
    IpWords <- MCIpWords
    DateTexts <- MCDateTexts
    Numerals <- MCNumerals
    Statuses <- MCStatuses
    Methods <- MCMethods
    MaxMishaps = 1
    MaxCopies = 3
    LongPolls = FALSE
INVARIANTS NothingSkipped  DuplicatesNeedMishaps
PROPERTIES PositionNeverBack LockIsLease EventuallyStored
