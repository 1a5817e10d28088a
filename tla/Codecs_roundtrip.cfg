\* Inputs are bounded.
CHECK_DEADLOCK FALSE
SPECIFICATION Spec
CONSTANTS
    Stale = Stale
    Failed = Failed
    MaxLabel = 4
    Ids <- SomeIds
    Records <- SomeRecords
    MaxSamples = 4
    MaxRecords = 3
INVARIANT FramesLossless
INVARIANT MessagesSurvive
