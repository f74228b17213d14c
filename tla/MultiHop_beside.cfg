SPECIFICATION Spec
CONSTANTS
    Tasks = {1, 2, 3, 4, 5}
    Root = 1
    NONE = NONE
    Packs <- MCPacks
    Limits <- MCLimits
INVARIANT PrimariesAreLookedAt
CHECK_DEADLOCK FALSE
