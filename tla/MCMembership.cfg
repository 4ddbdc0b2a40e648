CONSTANTS
    d1 = d1
    d2 = d2
    d3 = d3
    None = None
    Devices = {d1, d2, d3}
    MaxVersion = 4
    MaxApproved = 1
    MaxFlows = 2
SPECIFICATION Spec
SYMMETRY Symmetry
INVARIANTS
    ChainAuthorized
    TablesAgree
    KeysStayInside
    RevokerOwesSnapshot
    NeverStranded
CHECK_DEADLOCK FALSE
