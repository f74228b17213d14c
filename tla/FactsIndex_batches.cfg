SPECIFICATION FairSpec
CONSTANTS
    p1 = p1
    p2 = p2
    t1 = t1
    t2 = t2
    NONE = NONE
    BAD = BAD
    Procs = {p1, p2}
    Cataloguing = {p1, p2}
    Tasks = {t1, t2}
    BatchOf <- Disjoint
    Versions = {v1, v2}
    Modes = {"incremental", "full"}
    Troubles = {"crash", "edit", "fails", "catalog", "rename", "damage"}
    MaxTrouble = 2
INVARIANTS OwnResultsIndexed OwnResultsCatalogued
PROPERTIES OtherRowsKept CatchesUp
