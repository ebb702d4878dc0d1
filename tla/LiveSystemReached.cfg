SPECIFICATION FairRunSpec
CONSTANTS
    Plans <- MCPlans
    ExitsOnDenied = TRUE
    Dirs = {"W1", "W2"}
    MaxStack = 2
    ChoiceSet <- AllChoices
    Worlds <- DeniedUmount
INVARIANTS
    LiveSystemIntact
