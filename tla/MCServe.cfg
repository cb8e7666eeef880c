SPECIFICATION ServeFairSpec
CONSTANTS
    Procs = {server, backup}
    MaxCrashes = 1
    MaxReports = 1
    Backuper = backup
    Absent = Absent
    MaxRuns = 2
    Server = server
    Conns = {c1, c2}
    Grace = 1
    MaxRestores = 1
INVARIANTS
    OpenedMeansMigrated
    BackupIsSnapshot
PROPERTIES
    GoodBackupSurvives
    ReportsSurvive
    AllOpen
    ServeEnds
CHECK_DEADLOCK FALSE
