SPECIFICATION Spec
CONSTANTS
    build = build
    review = review
    approve = approve
    bare = bare
    Stages = {build, approve}
    FirstStage = build
    Routing <- TwoStageRouting
    MaxRetries <- NoRetry
    Gated = {approve}
    NoDriver={}
    Stageless = {}
    Sweeps = {0, 99}
    Requests <- ActOnAll
    NumRuns = 1
    MaxConcurrent = 1
    ChannelDrops = FALSE
    MaxStageRuns = 1
    MaxCrashes = 0
PROPERTIES
    CancelledRowFinal
CHECK_DEADLOCK FALSE
