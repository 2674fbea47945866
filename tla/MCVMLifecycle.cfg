CONSTANTS
    Runs = {r1, r2}
    VMIDs = {v1, v2}
    t1 = t1
    Tags = {t1}
    None = None
    Initial <- InitialVMs
    MaxTransient = 1
    MaxOutside = 1
SPECIFICATION Spec
INVARIANTS LifecycleInv OverlapUnobserved
PROPERTIES UniqueTagKept DestroysOnlyStopped
SYMMETRY Symmetry
CHECK_DEADLOCK FALSE
