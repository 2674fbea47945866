CONSTANTS
    Runs = {p1, p2}
    a = a
    b = b
    Names = {a, b}
    Current = current
    Initial <- Chains
    MaxClock = 2
    MaxMade = 3
    MaxOutside = 1
SPECIFICATION Spec
INVARIANTS SnapshotInv WitnessesOwnRollback
PROPERTIES NeverPastKnown NewestFirst
SYMMETRY Symmetry
CHECK_DEADLOCK FALSE
