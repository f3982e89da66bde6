SPECIFICATION FairSpec
CONSTANTS
    web = web
    lib = lib
    defWeb = defWeb
    defLib = defLib
    defCopy = defCopy
    defEcho = defEcho
    none = none
    arg = arg
    claim = claim
    NoName = none
    NotAnObject = NotAnObject
    WrongType = WrongType
    Boots <- ThreeBoots
    Contents <- SomeContents
    ToolRows <- Rows
    Advertises <- BothSearch
    Granted <- SecondAndEcho
    MaxBatch = 2
    MaxTries = 2
    Value <- OneValue
    MaxFaults = 1
INVARIANTS
    ToolUsesAnswered
    FailsForCause
    OnlyGrantedRun
    OldRecordsStayListed
PROPERTIES
    StepsEnd
CHECK_DEADLOCK FALSE
