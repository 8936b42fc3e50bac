SPECIFICATION FairSpec
CONSTANTS
    NumConns = 3
    NumPackets = 2
    Room = 1
    MaxStarts = 2
INVARIANTS StreamsSetUp WaitNeedsLoss
PROPERTY StreamsRead
\* The programs end, or wait for each other.
CHECK_DEADLOCK FALSE
