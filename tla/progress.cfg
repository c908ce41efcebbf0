SPECIFICATION FairSpec
CONSTANTS
    build = build
    review = review
    approve = approve
    bare = bare
    Stages = {build, review, approve, bare}
    FirstStage = build
    Routing <- FourStageRouting
    MaxRetries <- RetryOnce
    Gated = {approve}
    NoDriver = {bare}
    Stageless = {2}
    Sweeps = {0}
    Requests <- DispatchAll
    NumRuns = 2
    MaxConcurrent = 2
    ChannelDrops = TRUE
    MaxStageRuns = 3
    MaxCrashes = 1
INVARIANTS
    RetryBudget
PROPERTIES
    RunningStageSettles
    EveryRunStarts
    ClaimedRunSettles
CHECK_DEADLOCK FALSE
