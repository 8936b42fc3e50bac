SPECIFICATION ToolsFairSpec
CONSTANTS
    Second = 4
    MinRepeat = 2
    Repeats = {1, 3}
    NumLatencies = 2
    SocketRoom = 2
    Slot = 3
    MaxPackets = 3
    Starts = {0, 1, 2}
    End = 8
INVARIANTS StateConsistent SchedulesKept
PROPERTY ToolsProgress
\* The clock and the packets of others are bounded.
CHECK_DEADLOCK FALSE
