CONSTANTS
    filed = filed
    None = None
    Issues = {filed}
    Routed = {filed}
    NumRuns = 2
    MaxConcurrent = 1
    MaxActs = 2
    MaxOutages = 1

SPECIFICATION Spec

INVARIANTS
    TypeOK
    OneDispatchedRun

PROPERTIES
    DispatchIsFresh
    OpenIssueGetsRun

CHECK_DEADLOCK FALSE
