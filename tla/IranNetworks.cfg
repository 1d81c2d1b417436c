SPECIFICATION Spec
CONSTANTS
    Width = 2
    Malformed = Malformed
    Feeds <- MCFeeds
    Addresses <- MCAddresses
    Cidrs <- MCCidrs
    WhoisIran <- MCWhoisIran
    Sources = {"manual", "ripencc"}
    MaxEvents = 3
    MaxCrashes = 1
INVARIANTS  RowsCoverTheDelegated 
CHECK_DEADLOCK FALSE
