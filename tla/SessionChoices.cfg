SPECIFICATION ChoicesSpec
CONSTANTS
    Folders = {"music", "steam"}
    Localized = {"music"}
    MaxPasses = 4
INVARIANTS
    ExcludesMatchBoxes
CHECK_DEADLOCK FALSE
