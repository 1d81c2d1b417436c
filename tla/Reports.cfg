SPECIFICATION Spec
CONSTANTS
    a1 = a1
    a2 = a2
    Addresses = {a1, a2}
    Servers = {s1}
    AllTime = AllTime
    Periods = {1}
    CidrFilters <- MCCidrFilters
    Located = {a1, a2}
    Cell <- MCCell
    Country <- MCCountry
    Asn <- MCAsn
    Unknown = Unknown
    PageSize = 1
    TopN = 1
    MaxPoints = 1
    RequestDays = 1
    MaxDays = 2
    MaxEvents = 3
VIEW View
INVARIANTS PageAgrees  
PROPERTY PurgeInvisible
