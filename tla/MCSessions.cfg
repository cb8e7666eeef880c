SPECIFICATION FairSpec
CONSTANTS
    Requests = {r1, r2}
    Tokens = {t1}
    None = None
    Second = 2
    TTL = 3
    MaxTime = 5
    MaxLosses = 1
    MaxErrors = 1
INVARIANTS
    LogoutEndsSession
    RowOutlivesCookie
PROPERTIES
    PruneSparesValid
    ExpiredAreRemoved
