SPECIFICATION Spec
CONSTANTS
    NumConns = 2
    NumPackets = 2
    Room = 1
    MaxStarts = 1
INVARIANT AckHasTimestamp
