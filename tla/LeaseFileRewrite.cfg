CONSTANTS
    l1 = l1
    l2 = l2
    None = None
    Leases <- OneLease
    Seconds <- OneSecond
    Inodes <- FiveInodes
    Faults <- RewriteFaults
    TornWrites = FALSE
    MaxRecords = 5
    MaxVersion = 2
SPECIFICATION Spec
INVARIANTS
    CommittedSurvives
