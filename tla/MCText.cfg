SPECIFICATION MCSpec
CONSTANTS
    Files <- MCFiles
    Edits <- MCEdits
    Hashes <- MCHashes
    NoFile = NoFile
    MaxRuns = 2
    MaxEdits = 1
    TitleMax = 5
    Reports <- MCReports
INVARIANTS
    TakesEffect
    OtherLinesKept
    RewriteIsStable
    RawShownWhole
    TokensAreRight
    TitleMatchesPage
CHECK_DEADLOCK FALSE
