SPECIFICATION FairSpec
CONSTANTS
    NaN = NaN
    None = None
    Corrupt = Corrupt
    p1 = p1
    p2 = p2
    t1 = t1
    t2 = t2
    Procs = {p1}
    Threads = {t1, t2}
    Proc <- OneProc
    Parallel = {p1}
    NTrials = 3
    Names = {x}
    Dists <- Unary
    Steps = {0}
    Vals = {0, 1}
    Backend = "sqlite"
    Faults = {"storage", "threads"}
    MaxCalls = 1
    MaxRuns = 1
    MaxOpens = 1
CHECK_DEADLOCK FALSE
INVARIANTS RecordedOnce SnapshotExcludesSelf SnapshotIsPast StaleBound RunsComplete
PROPERTIES BestNeverWorsens IsLedger CallsReturn
