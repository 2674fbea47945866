SPECIFICATION Spec
CONSTANTS
    h1 = h1
    h2 = h2
    k1 = k1
    k2 = k2
    FirstKey = FirstKey
    None = None
    Runs = {r1, r2}
    Hosts = {h1, h2}
    TLSKeys = {k1, k2}
    Commands <- MCCommands
    InitTargets <- MCInitTargets
    MaxOutside = 2
SYMMETRY RunSymmetry
INVARIANTS TrustInv PersistedKeyWorks LeftKeyTold
PROPERTIES PinsVouched
CHECK_DEADLOCK FALSE
