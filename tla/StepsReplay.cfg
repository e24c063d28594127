SPECIFICATION Spec
CONSTANTS
    MaxSteps = 6
    MaxParallel = 2
    MaxRepeat = 2
    MaxStages = 3
    MaxWait = 2
    Workloads <- Drifting
INVARIANT
    FailedMeansUntouched
CHECK_DEADLOCK FALSE
