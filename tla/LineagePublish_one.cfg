SPECIFICATION Spec
CONSTANTS
    p1 = p1
    p2 = p2
    g1 = g1
    g2 = g2
    g3 = g3
    g4 = g4
    NONE = NONE
    Generations <- FourRuns
    Procs <- OneBatch
    Tasks = {1, 2}
    Blocked = TRUE
    FaultPoints <- AllFail
    MaxTrouble = 3
INVARIANTS SuccessIsPublished FailureKeepsFormal NothingLeftBehind
SYMMETRY Exchange
