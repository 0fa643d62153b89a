CONSTANTS
    l1 = l1
    l2 = l2
    c1 = c1
    c2 = c2
    NoClient = NoClient
    NoLease = NoLease
    Leases <- TwoLeases
    Clients <- MCClients
    LeaseTimes <- OneTime
    OfferTime = 1
    AbandonTime = 1
    CacheThreshold = 0
    CommitMayFail = FALSE
    MaxUnflushed = 2
    MaxTime = 3
SPECIFICATION Spec
SYMMETRY TwoLeaseSymmetry
INVARIANTS
    TypeOK
    NoDoubleBinding
    FreeLeasesNotOver
PROPERTIES
    NoLeaseConflict
