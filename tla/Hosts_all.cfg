SPECIFICATION MCSpec
CONSTANTS
    first = first
    second = second
    Invocation <- Invocations
    Programs <- EveryProgram
    TriggerFiles <- SomeTriggers
    DecisionFiles <- SomeDecisions
    Features <- Build
    Compiled = {"cohere", "anthropic"}
    MaxTime = 1
INVARIANTS
    AcceptsItsUsage
    OwnDirectory
    SuccessIsEarned
PROPERTIES
    EveryHostEnds
CHECK_DEADLOCK FALSE
