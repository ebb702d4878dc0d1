SPECIFICATION ExcludesSpec
CONSTANTS
    MaxUpdates = 1
    MaxSaves = 2
    MaxDepth = 3
INVARIANTS
    UserListSurvives
PROPERTY PromptHasCause
CHECK_DEADLOCK FALSE
