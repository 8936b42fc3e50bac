SPECIFICATION FairSpec
CONSTANTS
    Widths = {640, 320}
    Width = 640
    Wanted = 3
    FrameCount = 2
    Cycle = 5
INVARIANTS DriverAgrees EndsClean
PROPERTIES FramesInOrder Terminates
\* Both programs end.
CHECK_DEADLOCK FALSE
