SPECIFICATION Spec
CONSTANTS
    NaN = NaN
    None = None
    Corrupt = Corrupt
    s1 = s1
    s2 = s2
    k1 = k1
    k2 = k2
    w1 = w1
    w2 = w2
    w3 = w3
    Workers = {w1, w2}
    Names = {x}
    Dists <- Unary
    Steps = {0}
    Vals = {1}
    Studies <- MCStudies
    Tokens <- MCTokens
    Backend = "sqlite"
    StudyName = s1
    ServerToken = None
    Faults = {"coordinator"}
    Earlier <- New
    MaxBoots = 2
    WorkerStudy <- AllInStudy
    WorkerToken <- NoToken
    NTrials <- One
    MaxCalls = 1
SYMMETRY WorkerSymmetry
INVARIANTS SeededPast
