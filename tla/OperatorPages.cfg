SPECIFICATION Spec
CONSTANTS
    Handlers = {h1, h2}
    Users = {u1, u2}
    Nobody = Nobody
    Secrets = {s1, s2}
    Blank = Blank
    Keys = {k1, k2}
    FirstKey = k1
    MaxRequests = 3
    MaxRotations = 1
    MaxDeaths = 1
SYMMETRY Symmetry
INVARIANTS EntriesAccountForChanges ContextEmptyBetweenRequests CredentialKept
CHECK_DEADLOCK FALSE
