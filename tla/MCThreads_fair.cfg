CONSTANTS
    t1 = t1
    t2 = t2
    t3 = t3
    Threads = {t1, t2, t3}
    Mailboxes = {m}
    Semaphores = {s}
    Conditions = {}
    Futures = {}
    Processes = {}
    Priority <- EqualPriority
    Zero = Zero
    TimeEvent = TimeEvent
    None = None
    NoValue = NoValue
    MaxSends = 1
    MaxSuspend = 1
    MaxCount = 0
    Liberties = {}
SPECIFICATION FairSpec
CHECK_DEADLOCK FALSE
PROPERTIES
    ReadyThreadRuns
    SleeperWakes
