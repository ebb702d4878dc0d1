SPECIFICATION ChoicesSpec
CONSTANTS
    Folders = {"music", "steam"}
    Localized = {"music"}
    MaxPasses = 1
INVARIANT RespinResets
CHECK_DEADLOCK FALSE
