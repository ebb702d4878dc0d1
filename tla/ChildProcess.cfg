SPECIFICATION FairChildProcessSpec
CONSTANTS
    Capacity = 1
    MaxInput = 2
    MaxOutput = 2
INVARIANTS
    ChildProcessTypeOK
    OutputIsComplete
    VerdictIsTheChilds
    NoChildIsLeft
PROPERTY CallComesBack
CHECK_DEADLOCK FALSE
