SPECIFICATION RSpec
CONSTANTS
    s1 = s1
    s2 = s2
    x1 = x1
    x2 = x2
    Runners = {r1}
    Sqls = {s1, s2}
    Outs = {o1}
    NONE = NONE
    FaultPoints = {"crash", "publishBackup", "publishVerify"}
    MaxTrouble = 3
    Files = {"statements", "lineage"}
    Texts = {x1, x2}
    TextOf <- TwoTexts
INVARIANTS ChainIsSnapshot StatementsTraceable QuietLoadsAreExact
