SPECIFICATION SnapshotsSpec
CONSTANTS
    Key = {k1}
    Worker = {}
    Troubles = {"crash"}
    CycleN = 2
    Interval = 2
    RateLimit = 1
    MaxRuns = 1
    MaxTime = 2
    RestoreFails = TRUE
    MaxCopies = 1
INVARIANTS SnapshotsTypeOK FinishedRunsComplete
PROPERTIES EntrySpacing
