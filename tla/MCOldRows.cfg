SPECIFICATION Spec
CONSTANTS
    Procs = {server, seed}
    MaxCrashes = 0
    MaxReports = 0
INVARIANTS
    OldRowsStayReadable
CHECK_DEADLOCK FALSE
