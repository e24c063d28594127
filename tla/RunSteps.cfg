SPECIFICATION FairSpec
CONSTANTS
    MaxSteps = 6
    MaxParallel = 2
    MaxRepeat = 2
    MaxStages = 3
    MaxWait = 2
    Workloads <- AllWorkloads
INVARIANTS
    VerdictCovers
    CancelHonest
    EffectsAuthorized
    AcceptedPlansRun
PROPERTIES
    ImplementsOnceEffect
    RevokedNeverCalls
    RunSettles
    SagaCompensates
CHECK_DEADLOCK FALSE
