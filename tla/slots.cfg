SPECIFICATION Spec
CONSTANTS
    build = build
    review = review
    approve = approve
    bare = bare
    Stages = {build}
    FirstStage = build
    Routing <- OneStageRouting
    MaxRetries <- RetryOnce
    Gated = {}
    NoDriver = {}
    Stageless = {}
    Sweeps = {0}
    Requests <- CancelFirst
    NumRuns = 2
    MaxConcurrent = 1
    ChannelDrops = TRUE
    MaxStageRuns = 1
    MaxCrashes = 1
INVARIANTS
    TypeOK
    SlotLimit
    DriversAreClaimed
    OneDriverPerRun
    WorktreeHeldWhileDriven
    DeployAtMostOnce
PROPERTIES
    ImplementsRunSlots
    QueuedRunNotForgotten
CHECK_DEADLOCK FALSE
