SPECIFICATION FairSpec
CONSTANTS
    root = root
    mid = mid
    leaf = leaf
    Kernel = Kernel
    Agent <- ThreeAgents
    ParentOf <- Star
    Forest <- GrownOrNot
    Triggered <- RootAlone
    MaxSteps = 3
    MaxDelay = 1
    SweepTime = 1
    WaveMargin = 3
    MaxFaults = 1
PROPERTIES
    ListedAgentsAreReaped
    RetiresOnlyFixpoints
CHECK_DEADLOCK FALSE
