SPECIFICATION FairElevationSpec
CONSTANTS
    Ways = {"root", "sudo", "tool", "none"}
    MaxCalls = 2
INVARIANTS
    ElevationTypeOK
    ReportedAsItWent
    OneTypoIsForgiven
PROPERTY CallReturns
CHECK_DEADLOCK FALSE
