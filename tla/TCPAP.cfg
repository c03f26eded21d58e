CONSTANTS
    Intervals = {0, 2}
    Delays = {1, 2, 3}
    Rto = 2
    AckDelay = 1
    MaxInterval = 2
    MaxSegments = 2
    MaxPaced = 3
    MaxAckable = 4
    MaxRates = 2
SPECIFICATION FairSpec
CHECK_DEADLOCK FALSE
INVARIANT PacedInOrder
INVARIANT AckTimerCoversPending
PROPERTY EverySegmentSent
