\* Four steps of an agent over every path, one attempt dying; and the notes and
\* their sidecar, two batches failing.
SPECIFICATION FsSpec
CONSTANTS
    v1 = v1
    v2 = v2
    s1 = s1
    s2 = s2
    c1 = c1
    c2 = c2
    Seed = {s1, s2}
    Content = {c1, c2}
    Body <- MCBody
    Suffix <- MCSuffix
    TmpName <- MCTmpName
    Rewrites <- MCRewrites
    Place <- MCPlace
    Citations <- MCCitations
    NoTail = notail
    MaxOps = 2
    MaxFailures = 2
    Note = {1, 2, 3, 4}
    STATUS = 2
    Outside = 0
    Host = {"durable", "inprocess"}
    TAIL_K = 3
    Shown = 2
    MaxFaults = 1
    MaxSteps = 4
INVARIANTS
    AuthorshipBoundary
    CitationsHold
    RefusedLeavesNothing
    SeedIndexIsTrue
CHECK_DEADLOCK FALSE
