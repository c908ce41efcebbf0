CONSTANTS
    None = None
    NumRuns = 2
    Followed = {1}
    MaxCommits = 1
    MaxFaults = 1

SPECIFICATION Spec

INVARIANTS
    TypeOK
    DeployRowTellsTruth
    ActiveRowHasTree
    ArtifactsAtHand

PROPERTIES
    UncommittedWorkStays
    ArtifactsStayPut
    EnvironmentSettles

CHECK_DEADLOCK FALSE
