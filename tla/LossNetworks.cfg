SPECIFICATION Spec
CONSTANTS
    MaxSent = 8
    MaxSeq = 14
    Windows = {1, 2, 3}
    PurgeStep = 3
    Networks = {"fifo", "reordering", "duplicating"}
INVARIANTS TypeOK ReceivedWindow NothingForgotten OutstandingAccuracy LossCounts
PROPERTY NeverBackwards
\* Sends, arrivals and purges are all bounded, so the model stops.
CHECK_DEADLOCK FALSE
