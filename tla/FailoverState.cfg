SPECIFICATION Spec
CONSTANTS
    AutoPartnerDown = TRUE
    Shutdowns = TRUE
    LostFiles = TRUE
    OperatorStates <- PartnerDown
    WritesMayFail = TRUE
    MaxFaults = 1
INVARIANT TypeOK
INVARIANT PartnerViewCurrent
CHECK_DEADLOCK FALSE
