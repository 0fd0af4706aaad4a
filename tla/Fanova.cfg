SPECIFICATION Spec
CONSTANTS
    NaN = NaN
    None = None
    Scale = 12
    Studies <- MCStudies
    Options <- MCOptions
CHECK_DEADLOCK FALSE
INVARIANTS Tiles MarginalExact Decomposes RootIsTopStump
