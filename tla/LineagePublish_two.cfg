SPECIFICATION Spec
CONSTANTS
    p1 = p1
    p2 = p2
    g1 = g1
    g2 = g2
    g3 = g3
    g4 = g4
    NONE = NONE
    Generations <- FourRuns
    Procs <- TwoBatches
    Tasks = {1}
    Blocked = FALSE
    FaultPoints <- SwapsFail
    MaxTrouble = 1
INVARIANTS NoMixedGenerations
SYMMETRY ExchangeAll
