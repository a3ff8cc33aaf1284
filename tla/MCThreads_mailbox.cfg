CONSTANTS
    t1 = t1
    t2 = t2
    t3 = t3
    Threads = {t1, t2, t3}
    Mailboxes = {m}
    Semaphores = {}
    Conditions = {}
    Futures = {}
    Processes = {}
    Priority <- EqualPriority
    Zero = Zero
    TimeEvent = TimeEvent
    None = None
    NoValue = NoValue
    MaxSends = 3
    MaxSuspend = 2
    MaxCount = 0
    Liberties = {}
SPECIFICATION Spec
SYMMETRY ThreadSymmetry
CHECK_DEADLOCK FALSE
INVARIANTS
    TypeOK
    QueuedWhereBlocked
    QueuedOnce
    NoLostWakeup
    FrameFits
    AssertionsHold
PROPERTIES
    FirstComeFirstServed
    ReopenedByStragglers
    SuspensionHolds
    MailboxesImplemented
