SPECIFICATION Spec
CONSTANTS
    MaxTime = 5
    MaxSent = 3
    MaxFeedback = 1
    AveragingExtent = 2
    EmptyRate = 1
    BackoffRate = 1
    MinimumTxRate = 3
    FeedbackPeriod = 1
    SilenceLimit = 2
    ReorderWindow = 1
    PurgeStep = 2
    LatencyLimit = 2
    MaxSkew = 1
INVARIANT StateBounded
PROPERTIES ReportsWindow PurgeOnlyInSilence BackoffJustified
CHECK_DEADLOCK FALSE
