SPECIFICATION BackupSpec
CONSTANTS
    Procs = {server, backup}
    MaxCrashes = 0
    MaxReports = 1
    Backuper = backup
    Absent = Absent
    MaxRuns = 2
INVARIANTS
    OverwritesDest
CHECK_DEADLOCK FALSE
