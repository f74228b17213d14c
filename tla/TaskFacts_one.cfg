SPECIFICATION FairSpec
CONSTANTS
    Runners = {r1}
    Sqls = {s1, s2}
    Outs = {o1, o2}
    NONE = NONE
    FaultPoints <- AllFaults
    MaxTrouble = 4
INVARIANTS SuccessIsServed ReportedIsServed
PROPERTIES LastGoodKept StatusNeverLost RecoveryKeepsEvidence ImplementsStore Heals
