SPECIFICATION Spec
CONSTANTS
    Tasks = {1, 2, 3, 4, 5}
    Root = 1
    NONE = NONE
    Packs <- MCPacks
    Limits <- MCLimits
INVARIANT LimitsAreReported
CHECK_DEADLOCK FALSE
