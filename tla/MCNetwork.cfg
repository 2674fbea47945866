CONSTANTS
    Runs = {p1, p2}
    br = br
    v1 = v1
    v2 = v2
    Mgmt = vmbr0
    Ifaces = {vmbr0, br}
    Values = {v1, v2}
    None = None
    Initial <- Nodes
    MaxWeb = 1
SPECIFICATION Spec
INVARIANTS NetworkInv
PROPERTIES SweepsNothingUnseen SweepsBlindly
SYMMETRY Symmetry
CHECK_DEADLOCK FALSE
