SPECIFICATION StoreSpec
CONSTANTS
    MaxRowid = 2
    Names = {n1, n2}
    Keys = {k1, k2}
    Rids = {r1, r2, r3}
    Hashes = {h1, h2}
    Times = {1, 2}
    PerPage = 2
    Wheres <- MCWheres
    Values = {0, 1}
    Days = 2
    TopModels = 1
SYMMETRY Symmetry
INVARIANTS
    Integrity
    CountsAgree
PROPERTIES
    SeenMovesWithReports
    NewReportReopens
    EmptiedOnlyByReportDeletion
    IssuesNotSkipped
    ReportsNotSkipped
    PageHangsTogether
