SPECIFICATION FairSpec
CONSTANTS
    AutoPartnerDown = FALSE
    Shutdowns = FALSE
    LostFiles = FALSE
    OperatorStates <- NoStates
    WritesMayFail = FALSE
    MaxFaults = 1
PROPERTY NoLateRecovery
PROPERTY ReunitedOrHalf
CHECK_DEADLOCK FALSE
