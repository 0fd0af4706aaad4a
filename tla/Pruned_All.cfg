SPECIFICATION Spec
CONSTANTS
    NaN = NaN
    None = None
    NStartupTrials = 0
    NWarmupSteps = 0
    MinTrialsAtStep = 0
    MinResource = 1
    ReductionFactor = 2
    MinEarlyStoppingRate = 0
    U64 = 1024
    Width = 2
    NTrials = 3
    LastStep = 2
    Vals <- BitsAndNaN
    Setups <- AllSetups
CHECK_DEADLOCK FALSE
INVARIANTS DirectionSymmetry RungIsHighest OnlyLiveHalvingPrunesAll
PROPERTIES LeaderSurvives PrunedByHalf
