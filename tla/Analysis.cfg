SPECIFICATION Spec
CONSTANTS
    Results <- ByTime
    Workloads = {"small"}
    Tools = {"a", "b"}
    Columns <- ABColumns
    Cache = "evict"
    TooShort = 20
    MaxFiles = 3
INVARIANTS
    GridIsHistory
    OverviewIsNewest
    MovedFilesChangeNothing
    RankingAgreesWithGate
    WorseNeverPasses
CHECK_DEADLOCK FALSE
