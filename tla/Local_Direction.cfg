SPECIFICATION Spec
CONSTANTS
    NaN = NaN
    None = None
    Corrupt = Corrupt
    p1 = p1
    p2 = p2
    t1 = t1
    t2 = t2
    Procs = {p1, p2}
    Threads = {t1, t2}
    Proc <- TwoProcs
    Parallel = {}
    NTrials = 1
    Names = {x}
    Dists <- Unary
    Steps = {0}
    Vals = {1}
    Backend = "sqlite"
    Faults = {}
    MaxCalls = 0
    MaxRuns = 1
    MaxOpens = 1
CHECK_DEADLOCK FALSE
INVARIANTS DirectionAgrees
