SPECIFICATION FairExecutorSpec
CONSTANTS
    Plans <- MCPlans
    ExitsOnDenied = TRUE
INVARIANTS
    ExecutorTypeOK
    SuccessMeansRequiredDone
    StopBoundsWork
    AbortedPlanNeverSucceeds
PROPERTY CallEnds
