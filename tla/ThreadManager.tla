--------------------------- MODULE ThreadManager ----------------------------
(***************************************************************************)
(* The thread manager put together: the behaviours of the kernel           *)
(* (ThreadKernel), of the blocking objects (ThreadMailbox, ThreadSync) and *)
(* of the control operations (ThreadControl), and what they must satisfy.  *)
(***************************************************************************)
EXTENDS ThreadControl

(* init-threads, make-thread and start-threads: the threads exist, with    *)
(* suspend count -1; one was resumed, and the dispatcher takes over.       *)
Init ==
    /\ \E first \in Threads :
          /\ state = [t \in Threads |-> IF t = first THEN "WAITING" ELSE "SUSPEND"]
          /\ suspend = [t \in Threads |-> IF t = first THEN 0 ELSE -1]
          /\ runq = <<first>>
    /\ blocked = [t \in Threads |-> Zero]
    /\ frame = [t \in Threads |-> "plain"]
    /\ got = [t \in Threads |-> None]
    /\ relock = [t \in Threads |-> Zero]
    /\ waitq = [o \in Waitables |-> <<>>]
    /\ mboxq = [m \in Mailboxes |-> <<>>]
    /\ hasData = [m \in Mailboxes |-> "data"]
    /\ count \in [Semaphores -> 0..MaxCount]
    /\ settled = {}
    /\ timers = {}
    /\ current = Zero
    /\ kernel = "poll"
    /\ sent = 0
    /\ failed = {}

Next == KernelNext \/ MailboxNext \/ SyncNext \/ ControlNext

Spec == Init /\ [][Next]_vars

(* A running thread is interrupted when its time slice ends (os_set_timer  *)
(* in dispatch_to_thread), the dispatcher is a loop that goes on by        *)
(* itself, and each poll handles every event whose time has come: a time   *)
(* event that can be handled again and again is handled.                   *)
Fairness ==
    /\ WF_vars(Yield)
    /\ WF_vars(EndPoll \/ Dispatch \/ SkipSuspended \/ Idle)
    /\ \A t \in Threads : SF_vars(TimerFires(t))

FairSpec == Spec /\ Fairness

-----------------------------------------------------------------------------
(* Types.                                                                  *)

RecordTypeOK ==
    /\ state \in [Threads -> States]
    /\ suspend \in [Threads -> Int]
    /\ blocked \in [Threads -> {Zero, TimeEvent} \cup Mailboxes \cup Waitables]
    /\ frame \in [Threads -> Frames]
    /\ got \in [Threads -> {None, NoValue} \cup Nat]
    /\ relock \in [Threads -> {Zero} \cup Semaphores]

KernelTypeOK ==
    /\ runq \in Seq(Threads)
    /\ timers \subseteq Threads
    /\ current \in Threads \cup {Zero}
    /\ kernel \in {"off", "poll", "scan", "wait"}
    /\ (kernel = "off") <=> (current # Zero)

ObjectTypeOK ==
    /\ waitq \in [Waitables -> Seq(Threads)]
    /\ count \in [Semaphores -> Int]
    /\ settled \subseteq Futures \cup Processes
    /\ sent \in Nat

MailboxTypeOK ==
    /\ mboxq \in [Mailboxes -> Seq(Threads \cup Nat)]
    /\ hasData \in [Mailboxes -> {"data", "waiters", "closed"}]
    /\ \A m \in Mailboxes : mboxq[m] \in Seq(IF IsWaiting(m) THEN Threads ELSE Nat)

(* The slots of the records hold values of their kinds; a mailbox holds    *)
(* threads when has-data? says so and messages otherwise (class.scm,       *)
(* <thread>, <mailbox>, <semaphore>).                                      *)
TypeOK == RecordTypeOK /\ KernelTypeOK /\ ObjectTypeOK /\ MailboxTypeOK

-----------------------------------------------------------------------------
(* Safety.                                                                 *)

(* A thread that is in a queue: not the current one, not complete, and     *)
(* with a suspend count that says so.                                      *)
Queued(t) == t # current /\ state[t] # "COMPLETE" /\ suspend[t] >= 0

QueueOf(o) ==
    IF o \in Mailboxes THEN (IF IsWaiting(o) THEN mboxq[o] ELSE <<>>) ELSE waitq[o]

(* The sign of the suspend count tells the truth (class.scm, the comment   *)
(* on <thread>): a thread whose count is not negative is in the queue of   *)
(* what it is blocked on, and there only; any other thread is in no queue. *)
QueuedWhereBlocked ==
    /\ \A t \in Threads : t \in Range(runq) <=> Queued(t) /\ blocked[t] = Zero
    /\ \A t \in Threads : t \in timers <=> Queued(t) /\ blocked[t] = TimeEvent
    /\ \A o \in Mailboxes \cup Waitables : \A t \in Threads :
          t \in Range(QueueOf(o)) <=> Queued(t) /\ blocked[t] = o

(* No queue holds a thread twice, so a wakeup is delivered once.           *)
QueuedOnce ==
    /\ IsInjective(runq)
    /\ \A o \in Mailboxes \cup Waitables : IsInjective(QueueOf(o))

(* The slots of a record agree: only a mailbox is ever left by a waiter    *)
(* that goes on waiting, so that a thread blocked on anything else has a   *)
(* count of 0 or more (class.scm: never SLEEPING with a negative count);   *)
(* a thread that is suspended while it is blocked shows it; one that       *)
(* nothing blocks is ready, suspended, running or complete; and none waits *)
(* for itself.                                                             *)
SlotsAgree ==
    \A t \in Threads :
        /\ t = current => blocked[t] = Zero /\ suspend[t] = 0 /\ state[t] = "RUNNING"
        /\ blocked[t] \notin Mailboxes \cup {Zero} => suspend[t] >= 0
        /\ blocked[t] \in Processes => suspend[t] = 0
        /\ blocked[t] # Zero => state[t] # "COMPLETE" /\ blocked[t] # t
        /\ blocked[t] # Zero /\ suspend[t] # 0 => state[t] = "SUSPEND"
        /\ blocked[t] = Zero /\ t # current => state[t] \in {"WAITING", "SUSPEND", "COMPLETE"}

(* A semaphore's count: negative, it is the number of waiters; otherwise   *)
(* nobody waits (class.scm, the comment on <semaphore>).                   *)
SemaphoreCount ==
    \A s \in Semaphores :
        Len(waitq[s]) = IF count[s] < 0 THEN 0 - count[s] ELSE 0

(* Nobody is left waiting for what has already happened: a complete thread *)
(* has no joiner, a future with values or a process with a status no       *)
(* waiter, suspended or not,                                               *)
(* and a thread that is not suspended never waits at a mailbox with a      *)
(* message in it, nor at a closed one.                                     *)
NoLostWakeup ==
    /\ \A t, u \in Threads : blocked[t] = u => state[u] # "COMPLETE"
    /\ \A t \in Threads : blocked[t] \notin settled
    /\ \A t \in Threads, m \in Mailboxes :
          blocked[t] = m /\ suspend[t] >= 0 => IsWaiting(m)
    /\ \A m \in Mailboxes : IsWaiting(m) => mboxq[m] # <<>>

(* What will be loaded fits what the thread was promised: a thread in line *)
(* for the processor has a stack; whoever waits at a mailbox or for a      *)
(* thread has a frame with room for the value that will be stored in it;   *)
(* and a receiver in line has been given its value.                        *)
FrameFits ==
    \A t \in Threads :
        /\ t = current <=> frame[t] = "loaded"
        /\ state[t] = "COMPLETE" <=> frame[t] = "result"
        /\ blocked[t] \in Mailboxes => frame[t] = "receive" /\ got[t] = None
        /\ blocked[t] \in Threads <=> frame[t] = "join" /\ t \notin Range(runq)
                                       /\ suspend[t] >= 0
        /\ frame[t] = "receive" /\ blocked[t] = Zero => got[t] # None

(* No assert of the C code would have failed: whoever makes a thread ready *)
(* has noticed whether it is suspended, every thread popped as suspended   *)
(* was counted as queued, and every queue holds what it is thought to.     *)
AssertionsHold == failed = {}

-----------------------------------------------------------------------------
(* Steps.                                                                  *)

(* A complete thread stays so and keeps its result, whoever halts,         *)
(* resumes or signals it, and however it was queued when it was halted.    *)
CompleteIsFinal ==
    [][\A t \in Threads :
          state[t] = "COMPLETE" =>
              state'[t] = "COMPLETE" /\ frame'[t] = "result" /\ current' # t]_vars

(* Waiters at a mailbox get their values in order of arrival: none gets    *)
(* one while another that came before it, and is not suspended, does not.  *)
FirstComeFirstServed ==
    [][\A m \in Mailboxes :
          IsWaiting(m) =>
              \A i, j \in DOMAIN mboxq[m] :
                  LET early == mboxq[m][i]
                      late == mboxq[m][j]
                  IN  i < j /\ suspend[early] = 0 /\ got'[late] # got[late]
                        /\ blocked'[late] = Zero /\ got'[late] # None
                      => got'[early] # None]_vars

(* A closed mailbox is opened again only by the resumption of a thread     *)
(* that was suspended while it waited there (requeue), as long as nobody   *)
(* halts or signals a thread that was passed over: kthread_unqueue_suspend *)
(* sets has-data? of what that one is still blocked on.                    *)
ReopenedByStragglers ==
    [][\A m \in Mailboxes :
          hasData[m] = "closed" /\ hasData'[m] # "closed" =>
              \E t \in Threads :
                  suspend[t] = -1 /\ suspend'[t] = 0 /\ blocked[t] = m]_vars

Magnitude(c) == IF c < 0 THEN 0 - c ELSE c

(* Suspensions are not lost: whatever queues a suspended thread is taken   *)
(* out of, and whoever sends to it, signals it, wakes it or halts it, only *)
(* a thread-resume of that thread brings its count nearer to 0; and the    *)
(* processor goes to threads of count 0 only.                              *)
SuspensionHolds ==
    [][\A t \in Threads :
          /\ Magnitude(suspend'[t]) < Magnitude(suspend[t]) => Resume(t)
          /\ current' = t => suspend'[t] = 0]_vars

(* The thread manager's mailboxes implement MailboxSpec.                   *)
Abstract == INSTANCE MailboxSpec WITH
    pending <- [m \in Mailboxes |-> IF IsWaiting(m) THEN <<>> ELSE mboxq[m]],
    inHand <- got

MailboxesImplemented == Abstract!Spec

-----------------------------------------------------------------------------
(* Liveness, under FairSpec.                                               *)

(* A thread that is ready runs, unless it is suspended, halted or sent a   *)
(* signal first (a signal puts its target at the end of the line, again    *)
(* and again if it is sent again and again).  Threads of one priority.     *)
ReadyThreadRuns ==
    \A t \in Threads :
        t \in Range(runq) ~>
            \/ current = t
            \/ suspend[t] # 0
            \/ state[t] = "COMPLETE"
            \/ frame[t] = "signal"

(* A sleeper's time event goes off or is freed.                            *)
SleeperWakes == \A t \in Threads : (t \in timers) ~> (t \notin timers)
=============================================================================
