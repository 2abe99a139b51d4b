SPECIFICATION Spec
CONSTANTS
    Key = {k1}
    Worker = {w1, w2}
    Troubles = {"none", "crash", "read", "db"}
    CycleN = 1
    Interval = 1
    RateLimit = 1
    MaxRuns = 2
    MaxTime = 1
INVARIANTS TypeOK FinishedRunsComplete OrdersBackedByDecisions OneApiCycle
PROPERTIES EntrySpacing RunsClose ApiReopens
