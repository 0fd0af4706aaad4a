SPECIFICATION Spec
CONSTANTS
    None = None
    o1 = o1
    o2 = o2
    o3 = o3
    o4 = o4
    Openers = {o1, o2, o3, o4}
    SchemaVersion <- Versions
INVARIANTS NeverMisreads
