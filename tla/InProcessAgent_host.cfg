SPECIFICATION FairSpec
CONSTANTS
    x = x
    y = y
    z = z
    ScheduledWake = ScheduledWake
    Trigger <- Triggers
    ClassOf <- Classes
    Never = TRUE
    StepCap = 2
    CycleRunawayFuse = 2
    Budget <- OneOfEach
    MaxBatch = 2
    MaxIncidents = 2
    MaxClock = 1
    MaxCrashes = 1
INVARIANTS
    BudgetIsOfTheCycle
    HealthOutlivesProcess
    HandedInOrder
PROPERTIES
    ArchivedBeforeHealthy
    TriggersReachACycle
CHECK_DEADLOCK FALSE
