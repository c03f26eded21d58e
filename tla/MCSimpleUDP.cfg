SPECIFICATION FairSpec
CONSTANTS
    Threads = {1, 2}
    SockIds = {1, 2}
    MAX_CALLS = 2
    MaxCallCount = 5
    Overlap = FALSE
    EarlyReuse = FALSE
    BindPorts <- OwnPorts
    SendPorts = {1}
    POOL_INITIAL_SIZE = 2
INVARIANTS TypeOK CallersOwnTheirEntries ReplyAnswersItsCall EventsOwnedOnce DaemonAssertionsHold
PROPERTY EveryCallReturns
ACTION_CONSTRAINT LeastIdleThreadCalls
CHECK_DEADLOCK FALSE
