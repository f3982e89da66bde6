SPECIFICATION Spec
CONSTANTS
    c1 = c1
    c2 = c2
    b1 = b1
    b2 = b2
    Parent = parent
    None = none
    Child <- OneChild
    Body <- TwoBodies
    MaxWrites = 2
    MaxFolds = 2
    MaxFaults = 1
SYMMETRY BodySymmetry
INVARIANTS
    PinsWhatWasRead
    StoresConverge
    EdgesComplete
    ToldOfCurrent
CHECK_DEADLOCK FALSE
