CONSTANTS
    l1 = l1
    l2 = l2
    None = None
    n1 = n1
    n2 = n2
    s1 = s1
    A = A
    B = B
    Leases <- TwoLeases
    Seconds <- OneSecond
    Inodes <- FiveInodes
    Faults <- AppendFaults
    TornWrites = FALSE
    MaxRecords = 5
    MaxVersion = 2
SPECIFICATION RestartSpec
VIEW RestartView
INVARIANTS
    FileInv
    CommittedSurvives
    WritesReachDatabase
    
    
PROPERTIES
    StoreSpec
CHECK_DEADLOCK FALSE
