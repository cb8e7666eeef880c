SPECIFICATION AdminSpec
CONSTANTS
    MaxRowid = 2
    Names = {n1, n2}
    Keys = {k1, k2, k3}
    Rids = {r1}
    Hashes = {h1, h2}
    Times = {0}
    Tabs = {t1, t2}
    None = None
    MaxOps = 7
    MaxReports = 2
    MaxFaults = 2
SYMMETRY Symmetry
INVARIANTS
    KeyPagesAreTrue
    KeysAreKnown
PROPERTIES
    FormsHitWhatTheyShow
CHECK_DEADLOCK FALSE
