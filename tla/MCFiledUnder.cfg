SPECIFICATION FairSpec
CONSTANTS
    c1 = c1
    c2 = c2
    c3 = c3
    r1 = r1
    r2 = r2
    k1 = k1
    k2 = k2
    h1 = h1
    n1 = n1
    n2 = n2
    NoApp = NoApp
    Names = {n1, n2}
    Keys = {k1, k2}
    Rids = {r1, r2}
    Hashes = {h1}
    Conns = {c1, c2, c3}
    Owner <- MCOwner
    KeyOf <- MCKeyOf
    HashOf <- MCHashOf
    MaxRowid = 2
    Times = {0}
    MaxTime = 0
    MaxAdminOps = 3
    MaxFaults = 0
PROPERTIES
    FiledUnderItsApp
CHECK_DEADLOCK FALSE
