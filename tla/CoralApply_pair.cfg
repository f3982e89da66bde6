SPECIFICATION ApplySpec
CONSTANTS
    Absent = Absent
    a1 = a1
    a2 = a2
    Apply <- MCApply
    Docs <- MCDocs
    SafeName <- MCSafeName
    MaxFaults = 2
INVARIANTS
    StartedFromRows
    SeedsInOrder
PROPERTIES
    EveryApplyEnds
CHECK_DEADLOCK FALSE
