SPECIFICATION FairSpec
CONSTANTS
    NumDests = 2
    NumPackets = 7
    MaxOutstanding = 2
    Timeout = 1
    FlipPeriod = 3
    MaxTime = 3
INVARIANTS CountersConsistent PrefixSettled WindowBound OverrunNeedsTimeout
PROPERTY SendsAll
\* The loop ends after NumPackets packets, and blocks when all windows are closed.
CHECK_DEADLOCK FALSE
