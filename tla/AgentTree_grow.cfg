SPECIFICATION FairSpec
CONSTANTS
    search = search
    shell = shell
    MaxAgents = 3
    MaxFaults = 1
    GraphTools <- OneTool
    Grants <- GoodAndBadGrant
INVARIANTS
    DuplicatesHaveACause
PROPERTIES
    ImplementsForest
    NobodyLingers
CHECK_DEADLOCK FALSE
