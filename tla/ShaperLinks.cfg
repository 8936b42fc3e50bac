SPECIFICATION Spec
CONSTANTS
    Rates <- MCRates
    Schedules <- MCSchedules
    Traces <- MCTraces
    Outage = 3
    FrameSizes = {2, 3}
    BufferSize = 6
    MaxFrames = 3
    MaxTime = 5
INVARIANTS CountersConsistent RateNeverExceeded FifoForwarding DelayBound FollowsFile
\* The frames and the clock are bounded.
CHECK_DEADLOCK FALSE
