SPECIFICATION SeedSpec
CONSTANTS
    n1 = n1
    n2 = n2
    n3 = n3
    h1 = h1
    MaxRowid = 3
    Names = {n1, n2, n3}
    Keys = {k1, k2, k3}
    Hashes = {h1}
    Times = {1}
    Seeds = {p1, p2}
    Demo <- MCDemo
    PerApp = 2
    Rids <- MCRids
    SeedId <- MCSeedId
    TraceOf <- MCTraceOf
    MaxCrashes = 1
    MaxErrors = 1
    MaxRuns = 2
    MaxOther = 2
SYMMETRY Symmetry
INVARIANTS
    PrintedIsStored
PROPERTIES
    OwnAppsOnly
CHECK_DEADLOCK FALSE
