SPECIFICATION FairSpec
CONSTANTS
    Purges = {t1, t2}
    Addresses = {a1}
    RequestDays = 0
    WhoisDays = 1
    IpDays = 1
    MaxDays = 3
    MaxIds = 2
    MaxCrashes = 1
 
PROPERTIES YoungRowsKept OldEventsGo
CHECK_DEADLOCK FALSE
