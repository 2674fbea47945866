CONSTANTS
    Runs = {p1, p2}
    Targets = {t1, t2}
    a = a
    b = b
    x = x
    y = y
    n1 = n1
    n2 = n2
    o1 = o1
    o2 = o2
    c1 = c1
    c2 = c2
    VMs = {a, b}
    Nodes = {n1, n2}
    Home = n1
    Volids = {x, y}
    States = {y}
    Named <- NamedFor
    Types = {c1, c2}
    Options = {o1, o2}
    None = None
    Clusters <- Instances
    Definitions <- SomeDefinitions
    Requests <- SomeRequests
    MaxConflictRetries = 2
    MaxOutside = 2
SPECIFICATION Spec
INVARIANTS StorageInv NeverFreesHeld
PROPERTIES ContentKept
SYMMETRY Symmetry
CHECK_DEADLOCK FALSE
