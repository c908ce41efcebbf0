SPECIFICATION FairSpec
CONSTANTS
    build = build
    review = review
    approve = approve
    bare = bare
    Stages = {build}
    FirstStage = build
    Routing <- OneStageRouting
    MaxRetries <- NoRetry
    Gated = {build}
    NoDriver = {}
    Stageless = {}
    Sweeps = {0}
    Requests <- DecideAll
    NumRuns = 1
    MaxConcurrent = 1
    ChannelDrops = FALSE
    MaxStageRuns = 1
    MaxCrashes = 0
PROPERTIES
    ApprovedStageLaunches
CHECK_DEADLOCK FALSE
