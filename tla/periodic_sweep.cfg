SPECIFICATION Spec
CONSTANTS
    build = build
    review = review
    approve = approve
    bare = bare
    Stages = {build}
    FirstStage = build
    Routing <- OneStageRouting
    MaxRetries <- NoRetry
    Gated = {}
    NoDriver = {}
    Stageless = {}
    Sweeps = {0, 99}
    Requests <- DispatchAll
    NumRuns = 1
    MaxConcurrent = 1
    ChannelDrops = FALSE
    MaxStageRuns = 1
    MaxCrashes = 0
PROPERTIES
    SweepSparesTheLiving
CHECK_DEADLOCK FALSE
