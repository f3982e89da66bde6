SPECIFICATION FairSpec
CONSTANTS
    t1 = t1
    t2 = t2
    o1 = o1
    p1 = p1
    Signal <- FourSignals
    BucketOf <- FourSignalsBuckets
    Never = TRUE
    HasParent = TRUE
    StepCap = 2
    CycleRunawayFuse = 3
    HandlersFirst = FALSE
INVARIANTS
    ExactlyOnceHandOff
    TrailExact
PROPERTIES
    HandOffSafety
    RetireHonoured
    HandOffProgress
CHECK_DEADLOCK FALSE
