CONSTANTS
    l1 = l1
    l2 = l2
    c1 = c1
    c2 = c2
    NoClient = NoClient
    NoLease = NoLease
    Leases <- OneLease
    Clients <- MCClients
    LeaseTimes <- OneTime
    OfferTime = 1
    AbandonTime = 1
    CacheThreshold = 50
    CommitMayFail = TRUE
    MaxUnflushed = 2
    MaxTime = 3
SPECIFICATION Spec
SYMMETRY OneLeaseSymmetry
INVARIANTS
    BindingOnDisk
