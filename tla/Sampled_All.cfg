SPECIFICATION Spec
CONSTANTS
    NaN = NaN
    None = None
    USize = 1024
    Raws <- MCRaws
    Setups <- MCSetups
CHECK_DEADLOCK FALSE
INVARIANTS InSupport OnePoint CacheIsFresh SelectedAreBetter ReplayGrows CoversOnce
