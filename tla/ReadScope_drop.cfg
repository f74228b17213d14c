SPECIFICATION Spec
CONSTANTS
    Fields = {"p"}
    DateFields = {"p"}
    Literals <- MCLiterals
    Sense <- MCSense
    Number <- MCNumber
    NaN = NaN
    Collation <- MCCollation
    IsoTexts = {"2025-01-01", "2025-01-02"}
    IsoDates = {"2025-01-01", "2025-01-02"}
    Runtimes <- MCRuntimes
    Templates = {"${yyyy-mm-dd}"}
    STAR = "*"
    MISSING = "missing"
    Depth = 2
    Trees <- DropTrees
    Edges <- DropEdges
INVARIANT OnlyDisjointIsExcluded
CHECK_DEADLOCK FALSE
