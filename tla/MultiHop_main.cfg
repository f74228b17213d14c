SPECIFICATION FairSpec
CONSTANTS
    Tasks = {1, 2, 3, 4, 5}
    Root = 1
    NONE = NONE
    Packs <- MCPacks
    Limits <- MCLimits
INVARIANTS DepthIsSmallest FrontierIsPending NoUndecidedPath CyclesAreCut
PROPERTIES TraversalEnds
CHECK_DEADLOCK FALSE
