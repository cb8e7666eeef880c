SPECIFICATION FairSpec
CONSTANTS
    MaxRowid = 2
    Names = {n1, n2}
    Keys = {k1, k2}
    Rids = {r1, r2}
    Hashes = {h1, h2}
    Times = {1}
    Procs = {p1, p2}
    NoProc = NoProc
    MaxCalls = 4
    PerPage = 1
    Wheres <- MCWheres
INVARIANTS
    PagesCoverAll
PROPERTIES
    ImplementsCrashStore
    ResultsAreTrue
    CallsReturn
CHECK_DEADLOCK FALSE
