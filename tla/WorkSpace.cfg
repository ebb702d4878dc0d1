SPECIFICATION SpaceSpec
CONSTANTS
    Sizes = {0, 2}
    Frees = {1, 3, 8}
    Factors = {50}
INVARIANTS
    SpaceTypeOK
    AcceptedRunsFit
CHECK_DEADLOCK FALSE
