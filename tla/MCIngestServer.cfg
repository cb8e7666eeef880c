SPECIFICATION FairSpec
CONSTANTS
    c1 = c1
    c2 = c2
    c3 = c3
    r1 = r1
    r2 = r2
    k1 = k1
    k2 = k2
    h1 = h1
    n1 = n1
    NoApp = NoApp
    Names = {n1}
    Keys = {k1, k2}
    Rids = {r1, r2}
    Hashes = {h1}
    Conns = {c1, c2, c3}
    Owner <- MCOwner
    KeyOf <- MCKeyOf
    HashOf <- MCHashOf
    MaxRowid = 2
    Times = {0, 1}
    MaxTime = 1
    MaxAdminOps = 3
    MaxFaults = 1
INVARIANTS
    AcceptedIsStored
    CreatedOnce
PROPERTIES
    ReportsAreDelivered
CHECK_DEADLOCK FALSE
