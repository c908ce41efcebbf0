CONSTANTS
    None = None
    NumRuns = 1
    Followed = {1}
    MaxCommits = 1
    MaxFaults = 0

SPECIFICATION Spec

PROPERTIES
    SweepTakesEndedOrStale

CHECK_DEADLOCK FALSE
