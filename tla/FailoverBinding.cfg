SPECIFICATION Spec
CONSTANTS
    c1 = c1
    c2 = c2
    none = none
    Clients <- MCClients
    NoClient = none
    LeaseTime = 2
    MCLT = 1
    AbandonTime = 1
    Fudge = 0
    AckBatch = 2
    QuickReconnect = FALSE
    PartnerDowns = TRUE
    Releases = TRUE
    MaxMishaps = 1
    MaxXid = 4
    MaxTime = 3
SYMMETRY ClientSymmetry
INVARIANTS UndisturbedSafe UncommittedUnacked
CHECK_DEADLOCK FALSE
