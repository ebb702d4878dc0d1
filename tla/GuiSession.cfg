SPECIFICATION FairGuiSpec
CONSTANTS
    MaxRuns = 2
    Steps = 3
    SquashStep = 2
INVARIANTS
    GuiTypeOK
    OneWorkerAtATime
    
PROPERTIES
    HeardCancelIsObeyed
    RunIsReported
CHECK_DEADLOCK FALSE
