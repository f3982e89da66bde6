SPECIFICATION DurableSpec
CONSTANTS
    evidence = evidence
    note = note
    v1 = v1
    v2 = v2
    taskA = taskA
    taskB = taskB
    tick = tick
    retry = retry
    Torn = Torn
    KeyOrder <- TwoKeys
    Value = {v1, v2}
    Caller = {taskA, taskB}
    Creates = {evidence}
    Limit = 1
    Commit = {tick, retry}
    MaxCalls = 4
    MaxFaults = 1
    Data <- Anything
    MaxMillis = 4
    Durations = {0, 2000, 2500, 5000}
    MaxReads = 2
    Client = {"applier", "activity"}
    Name = {"root", "new"}
    Path = {"output"}
    Sha = {"sha1", "sha2"}
    MaxStatements = 2
    MaxRetries = 1
SYMMETRY Interchangeable
INVARIANTS
    TickIsSnapshot
    OlderIsConservative
PROPERTIES
    ImplementsKeyStore
    CarriedUnchanged
    ProvenanceIsKept
CHECK_DEADLOCK FALSE
