CONSTANTS
    Timers = {1, 2, 3}
    MaxTime = 2
    NoTimer = 0
SPECIFICATION FairSpec
ACTION_CONSTRAINT CreatedInOrder
CHECK_DEADLOCK FALSE
INVARIANT TypeOK
INVARIANT SemaphoreIsBinary
INVARIANT NoLostWakeup
INVARIANT DequeueFindsElement
INVARIANT EachTimerInOnePlace
INVARIANT CancelInTimeHonoured
PROPERTY FiresInDeadlineOrder
PROPERTY EveryTimerResolved
PROPERTY ImplementsTimerService
