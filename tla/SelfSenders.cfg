SPECIFICATION FairSpec
CONSTANTS
    Packets = 3
    MaxSteered = 4
    MaxEnRoute = 2
    Coarse = 3
    Interval = 2
    BinWidth = 3
    IntTop = 4
    Wrap = 32
    Threshold = 1
    TopRate = 3
    Start = 10
    End = 14
INVARIANTS CountersConsistent AssertionsHold HistogramSpans TransitTimesHeeded
PROPERTY Ends
\* The programs end, or wait for a packet that was lost.
CHECK_DEADLOCK FALSE
