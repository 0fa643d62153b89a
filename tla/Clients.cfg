CONSTANTS
    Servers = {s1, s2}
    Broken = {s1}
    None = None
    LeaseTime = 3
    T1 = 1
    T2 = 2
    select_interval = 0
    timeout = 1
    reboot_timeout = 1
    retry_interval = 1
    MaxInterval = 1
    MIN_LEASE_WRITE = 2
    MaxLog = 1
    MaxDelay = 1
    Commands = {"hibernate", "awaken", "release", "location"}
    MaxEvents = 1
    Codes = {"UnspecFail", "NoAddrsAvail", "NotOnLink", "NoBinding"}
SPECIFICATION ClientsSpec
INVARIANTS
    TimeoutOfState
    LeaseHonoured
    AddressHonoured
    
PROPERTIES
    ClientsRecover
CHECK_DEADLOCK FALSE
