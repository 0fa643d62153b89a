SPECIFICATION Spec
CONSTANTS
    c1 = c1
    c2 = c2
    Clients = {c1, c2}
    a1 = a1
    a2 = a2
    Addrs = {a1, a2}
    OffLink = OffLink
    Kinds = {"NA", "TA", "PD"}
    MaxLeases = 3
    MaxIas = 4
    CleanupTime = 1
    Never = 99
    Limit = 1
    MaxHints = 1
    SoftTime = 0
    ValidTime = 1
    PrefixMode = "MINIMUM"
    PrefixLen = 64
    HintLens = {60}
    MaxOffers = 1
    LateMessages = FALSE
    MaxCrashes = 1
    MaxTime = 2
INVARIANTS
    DatabaseConsistent
    NoDoubleBinding6
    
SYMMETRY Symmetry
CHECK_DEADLOCK FALSE
