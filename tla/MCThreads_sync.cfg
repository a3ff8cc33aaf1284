CONSTANTS
    t1 = t1
    t2 = t2
    t3 = t3
    Threads = {t1, t2, t3}
    Mailboxes = {}
    Semaphores = {s}
    Conditions = {c}
    Futures = {f}
    Processes = {p}
    Priority <- FinalizerFirst
    Zero = Zero
    TimeEvent = TimeEvent
    None = None
    NoValue = NoValue
    MaxSends = 0
    MaxSuspend = 1
    MaxCount = 1
    Liberties = {"suspend waiter"}
SPECIFICATION Spec
CHECK_DEADLOCK FALSE
INVARIANTS
    QueuedWhereBlocked
    SlotsAgree
    SemaphoreCount
    NoLostWakeup
    FrameFits
PROPERTIES
    CompleteIsFinal
