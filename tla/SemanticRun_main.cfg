SPECIFICATION Spec
CONSTANTS
    Procs = {p1, p2}
    Pages = {w1, w2}
    Items = {1, 2}
    Pilots = {1, 2}
    Versions = {v1, v2}
    NONE = NONE
    Cost = 2
    Usages = {2, 3}
    Limit = 4
    Calls = {9}
    Saves <- MCSaves
    FaultPoints = {"crash", "throws", "prepare"}
    MaxTrouble = 1
    MaxRuns = 2
    MaxReviews = 3
INVARIANTS ReplacedHaveEnded BudgetHeld OneOpenCall AcceptedHasEnds
PROPERTIES UnknownStaysReserved NoBlindReplay ReviewedStaysShown
CHECK_DEADLOCK FALSE
SYMMETRY Symmetric
