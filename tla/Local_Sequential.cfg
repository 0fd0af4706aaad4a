SPECIFICATION Spec
CONSTANTS
    NaN = NaN
    None = None
    Corrupt = Corrupt
    p1 = p1
    p2 = p2
    t1 = t1
    t2 = t2
    Procs = {p1}
    Threads = {t1}
    Proc <- OneProc
    Parallel = {}
    NTrials = 2
    Names = {x}
    Dists <- Unary
    Steps = {0}
    Vals = {0, 1}
    Backend = "sqlite"
    Faults = {"storage", "crash"}
    MaxCalls = 1
    MaxRuns = 2
    MaxOpens = 2
CHECK_DEADLOCK FALSE
INVARIANTS LocalTypeOK Contiguous DirectionAgrees BestIsBest CurveAgrees
PROPERTIES IsLedger
