SPECIFICATION FairSpec
CONSTANTS
    Tasks = {t1}
    Versions = {v1, v2}
    TABLE = TABLE
    NONE = NONE
    NOFILE = NOFILE
    TORN = TORN
    Docs <- MCDocs
    EmptyDoc <- MCEmpty
    Classes = {"RUN", "MANUAL_OR_FROZEN", "HORAE_TASK_NOT_FOUND"}
    Kinds = {"clean", "partial", "gap", "error"}
    FaultPoints <- AnyFault
    MaxTrouble = 2
    MaxRuns = 3
INVARIANTS FailureKeepsPack CalmRunSettles
PROPERTIES EvidenceKept RestartKeepsProgress RunEnds
CHECK_DEADLOCK FALSE
