SPECIFICATION FairSpec
CONSTANTS
    NaN = NaN
    None = None
    Corrupt = Corrupt
    s1 = s1
    s2 = s2
    k1 = k1
    k2 = k2
    w1 = w1
    w2 = w2
    w3 = w3
    Workers = {w1, w2}
    Names = {x}
    Dists <- Unary
    Steps = {0}
    Vals = {1}
    Studies <- MCStudies
    Tokens <- MCTokens
    Backend = "sqlite"
    StudyName = s1
    ServerToken = k1
    Faults = {"sampler", "coordinator"}
    Earlier <- New
    MaxBoots = 2
    WorkerStudy <- MixedStudy
    WorkerToken <- MixedToken
    NTrials <- TwoAndOne
    MaxCalls = 1
INVARIANTS OnlyAdmitted
PROPERTIES TrialsEnd CallsReturn
