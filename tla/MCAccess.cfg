CONSTANTS
    Runs = {p1, p2}
    t1 = t1
    t2 = t2
    Targets = {t1, t2}
    owner1 = owner1
    u = u
    g = g
    tok = tok
    r = r
    use = use
    raising = raising
    x = x
    y = y
    c0 = c0
    c1 = c1
    Users = {owner1, u}
    Groups = {g}
    Tokens = {tok}
    Owner <- OwnerOf
    OwnToken <- TokenOf
    Roles = {r}
    Privs = {use, raising}
    Escalating = {raising}
    Paths = {x, y}
    Comments = {c0, c1}
    NoComment = c0
    None = None
    Clusters <- Instances
    Commands <- CommandsOf
    UserEdits <- SomeUserEdits
    RoleEdits <- SomeRoleEdits
    MaxOutside = 1
SPECIFICATION Spec
INVARIANTS AccessInv
PROPERTIES OwnGainsNothing EscalatesOnlyAllowed LeavesTheRest
SYMMETRY Symmetry
CHECK_DEADLOCK FALSE
