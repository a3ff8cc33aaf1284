---------------------------- MODULE ThreadControl ---------------------------
(***************************************************************************)
(* What a thread does to another one: suspend, resume, halt, deliver a     *)
(* signal (start.scm; mark_thread_suspended, mark_thread_resumed and       *)
(* kthread_unqueue_suspend in synch.c).                                    *)
(*                                                                         *)
(* The sign of the suspend count tells whether the thread is still in the  *)
(* queue of what it is blocked on.  The operations rely on a discipline of *)
(* their callers that the code does not enforce: SuspendAllowed and        *)
(* UnqueueAllowed state it, each part of it relaxed by a liberty.          *)
(***************************************************************************)
EXTENDS ThreadMailbox, ThreadSync

(* Semaphores, conditions, futures and joins take no notice of a waiter's  *)
(* suspension, a child process wakes it only halfway, and a thread that    *)
(* suspends itself runs on.                                                *)
SuspendAllowed(u) ==
    /\ u = current => "suspend self" \in Liberties
    /\ blocked[u] \in Waitables \ Processes => "suspend waiter" \in Liberties
    /\ blocked[u] \in Processes => "suspend process waiter" \in Liberties

(* kthread_unqueue_suspend takes a thread out of a run queue in state      *)
(* WAITING only, and in that state, or with something to be blocked on,    *)
(* presumes it queued without a look at the sign of its count; and it has  *)
(* no case for a condition variable.                                       *)
UnqueueAllowed(u) ==
    /\ blocked[u] = Zero /\ state[u] = "SUSPEND" /\ suspend[u] >= 0
         => "halt suspended" \in Liberties
    /\ suspend[u] < 0 /\ (blocked[u] # Zero \/ state[u] = "WAITING")
         => "halt unqueued" \in Liberties
    /\ blocked[u] \in Conditions => "halt condition waiter" \in Liberties

(* thread-suspend; a complete thread is left alone.                        *)
Suspend(u) ==
    /\ Free
    /\ SuspendAllowed(u)
    /\ state[u] # "COMPLETE"
    /\ suspend[u] \in (1 - MaxSuspend)..(MaxSuspend - 1)
    /\ suspend' = [suspend EXCEPT ![u] = IF @ < 0 THEN @ - 1 ELSE @ + 1]
    /\ state' = IF suspend[u] = 0 THEN [state EXCEPT ![u] = "SUSPEND"] ELSE state
    /\ UNCHANGED <<blocked, frame, got, relock, runq, objectVars, timers,
                   current, kernel, failed>>

(* One step of a suspend count towards 0.                                  *)
Nearer(c) == IF c < 0 THEN c + 1 ELSE IF c > 0 THEN c - 1 ELSE c

(* mark_thread_resumed with a count that stays away from 0.                *)
ResumeOnce(u) ==
    /\ suspend[u] \notin {-1, 0, 1}
    /\ UNCHANGED <<state, blocked, got, runq, mboxq, hasData, failed>>

(* Mutated: a thread that nothing blocks is queued again.                  *)
ResumeQueued_again(u) ==
    /\ suspend[u] = 1
    /\ IF blocked[u] = Zero THEN runq' = Append(runq, u) ELSE UNCHANGED runq
    /\ state' = IF blocked[u] = TimeEvent
                  THEN [state EXCEPT ![u] = "SLEEPING"] ELSE state
    /\ UNCHANGED <<blocked, got, mboxq, hasData, failed>>

(* The count reaches 0 from above: the thread is still queued.             *)
ResumeQueued(u) ==
    /\ suspend[u] = 1
    /\ state' = IF blocked[u] = TimeEvent
                  THEN [state EXCEPT ![u] = "SLEEPING"] ELSE state
    /\ UNCHANGED <<blocked, got, runq, mboxq, hasData, failed>>

(* The count reaches 0 from below, and nothing blocks the thread.          *)
ResumeReady(u) ==
    /\ suspend[u] = -1
    /\ blocked[u] = Zero
    /\ state' = [state EXCEPT ![u] = "WAITING"]
    /\ runq' = Append(runq, u)
    /\ UNCHANGED <<blocked, got, mboxq, hasData, failed>>

(* The count reaches 0 from below, and the thread must be put back in the  *)
(* queue of what it is blocked on.  requeue knows only mailboxes, and an   *)
(* event is never left behind by a thread out of its queue.                *)
ResumeRequeued(u) ==
    /\ suspend[u] = -1
    /\ blocked[u] # Zero
    /\ IF blocked[u] \in Mailboxes
         THEN Requeue(u, blocked[u]) /\ UNCHANGED failed
         ELSE /\ failed' = failed \cup {IF blocked[u] = TimeEvent
                                          THEN "synch.c:72" ELSE "synch.c:157"}
              /\ state' = IF blocked[u] = TimeEvent
                            THEN [state EXCEPT ![u] = "SLEEPING"] ELSE state
              /\ UNCHANGED <<blocked, got, runq, mboxq, hasData>>

(* thread-resume; an error for a complete thread, nothing at count 0.      *)
Resume(u) ==
    /\ Free
    /\ state[u] # "COMPLETE"
    /\ suspend[u] # 0
    /\ suspend' = [suspend EXCEPT ![u] = Nearer(@)]
    /\ \/ ResumeOnce(u)
       \/ ResumeQueued(u)
       \/ ResumeReady(u)
       \/ ResumeRequeued(u)
    /\ UNCHANGED <<frame, relock, waitq, count, settled, sent, timers, current,
                   kernel>>

-----------------------------------------------------------------------------
(* kthread_unqueue_suspend, for a thread that is not the current one.      *)

(* dequeue_delq and slot_list_delq, for a thread that is in the queue q at *)
(* most once (QueuedOnce).                                                 *)
Without(q, t) ==
    IF t \in Range(q) THEN RemoveAt(q, CHOOSE i \in DOMAIN q : q[i] = t) ELSE q

(* Whether it takes u for a member of some queue.                          *)
TakenFromQueue(u) == blocked[u] # Zero \/ state[u] = "WAITING"

(* The run queue q without u, if u is in one.                              *)
RunqWithout(q, u) ==
    IF blocked[u] = Zero /\ state[u] = "WAITING" THEN Without(q, u) ELSE q

MboxqWithout(u) ==
    [m \in Mailboxes |->
        IF blocked[u] = m THEN Without(mboxq[m], u) ELSE mboxq[m]]

(* Mutated: has-data? is left alone.                                       *)
HasDataWithout_kept(u) == hasData

(* has-data? becomes #t with an empty dequeue, whatever it was.            *)
HasDataWithout(u) ==
    [m \in Mailboxes |->
        IF blocked[u] = m /\ MboxqWithout(u)[m] = <<>> THEN "data" ELSE hasData[m]]

(* Mutated: a joiner stays on the list of the thread it joins.             *)
WaitqWithout_joins(u) ==
    [o \in Waitables |->
        IF blocked[u] = o /\ o \notin Threads THEN Without(waitq[o], u) ELSE waitq[o]]

WaitqWithout(u) ==
    [o \in Waitables |->
        IF blocked[u] = o THEN Without(waitq[o], u) ELSE waitq[o]]

(* Mutated: the semaphore is not given the signal back.                    *)
CountWithout_kept(u) == count

(* One waiter fewer is one signal more.                                    *)
CountWithout(u) ==
    [s \in Semaphores |-> IF blocked[u] = s THEN count[s] + 1 ELSE count[s]]

(* Mutated: no suspension is added.                                        *)
SuspendUnqueued_same(u) ==
    IF TakenFromQueue(u) THEN 0 - suspend[u] ELSE suspend[u]

(* did_remove_from_queue, then one suspension more.                        *)
SuspendUnqueued(u) ==
    (IF TakenFromQueue(u) THEN 0 - suspend[u] ELSE suspend[u]) - 1

(* The queues of the blocking objects without u.                           *)
LeaveObjects(u) ==
    /\ mboxq' = MboxqWithout(u)
    /\ hasData' = HasDataWithout(u)
    /\ count' = CountWithout(u)
    /\ timers' = timers \ {u}
    /\ UNCHANGED <<settled, sent>>

UnqueueFaults(q, u) ==
    Unless(blocked[u] = Zero /\ state[u] = "WAITING" =>
             Cardinality({i \in DOMAIN q : q[i] = u}) = 1, "synch.c:225")
    \cup Unless(blocked[u] = TimeEvent => state[u] \in {"SUSPEND", "SLEEPING"},
                "synch.c:234")
    \cup Unless(blocked[u] \notin {Zero, TimeEvent}
                  => state[u] \in {"SUSPEND", "BLOCKED"}, "synch.c:244")
    \cup Unless(TakenFromQueue(u) => suspend[u] >= 0, "dispatch.c:142")
    \cup Unless(SuspendUnqueued(u) + 1 <= 0, "struct.h:144")

(* kthread_unqueue_suspend has no case for a condition variable: it raises *)
(* an error, and what its caller has done by then stays done.              *)
NoQueueCase(u) == blocked[u] \in Conditions

(* halt-thread up to kthread_unqueue_suspend: the joiners are released.    *)
HaltAbandoned(u) ==
    /\ state' = StateReadied(waitq[u])
    /\ blocked' = BlockedReadied(waitq[u])
    /\ runq' = runq \o waitq[u]
    /\ waitq' = [waitq EXCEPT ![u] = <<>>]
    /\ failed' = failed \cup JoinerFaults(u) \cup ReadyFaults(waitq[u])
    /\ UNCHANGED <<suspend, mboxq, hasData, count, timers, settled, sent>>

(* halt-thread to its end: then the thread leaves whatever it is queued    *)
(* on.                                                                     *)
HaltUnqueued(u) ==
    /\ state' = [StateReadied(waitq[u]) EXCEPT ![u] = "COMPLETE"]
    /\ blocked' = [BlockedReadied(waitq[u]) EXCEPT ![u] = Zero]
    /\ suspend' = [suspend EXCEPT ![u] = SuspendUnqueued(u)]
    /\ runq' = RunqWithout(runq \o waitq[u], u)
    /\ waitq' = [WaitqWithout(u) EXCEPT ![u] = <<>>]
    /\ LeaveObjects(u)
    /\ failed' = failed \cup JoinerFaults(u) \cup ReadyFaults(waitq[u])
                        \cup UnqueueFaults(runq \o waitq[u], u)

(* halt-thread of another thread; a complete one is left alone.  The       *)
(* result is stored first, in place of the stack.                          *)
Halt(u) ==
    /\ Free
    /\ u # current
    /\ state[u] # "COMPLETE"
    /\ UnqueueAllowed(u)
    /\ frame' = [frame EXCEPT ![u] = "result"]
    /\ got' = [got EXCEPT ![u] = None]
    /\ relock' = [relock EXCEPT ![u] = Zero]
    /\ IF NoQueueCase(u) THEN HaltAbandoned(u) ELSE HaltUnqueued(u)
    /\ UNCHANGED <<current, kernel>>

(* Mutated: the target is not unblocked.                                   *)
SignalUnqueued_blocked(u) ==
    /\ LeaveObjects(u)
    /\ waitq' = WaitqWithout(u)
    /\ UNCHANGED blocked
    /\ suspend' = [suspend EXCEPT ![u] = Nearer(SuspendUnqueued(u))]
    /\ IF SuspendUnqueued(u) = -1
         THEN /\ state' = [state EXCEPT ![u] = "WAITING"]
              /\ runq' = Append(RunqWithout(runq, u), u)
         ELSE /\ state' = [state EXCEPT ![u] = "SUSPEND"]
              /\ runq' = RunqWithout(runq, u)
    /\ failed' = failed \cup UnqueueFaults(runq, u)

(* The target of a signal leaves its queue, and is resumed once.           *)
SignalUnqueued(u) ==
    /\ LeaveObjects(u)
    /\ waitq' = WaitqWithout(u)
    /\ blocked' = [blocked EXCEPT ![u] = Zero]
    /\ suspend' = [suspend EXCEPT ![u] = Nearer(SuspendUnqueued(u))]
    /\ IF SuspendUnqueued(u) = -1
         THEN /\ state' = [state EXCEPT ![u] = "WAITING"]
              /\ runq' = Append(RunqWithout(runq, u), u)
         ELSE /\ state' = [state EXCEPT ![u] = "SUSPEND"]
              /\ runq' = RunqWithout(runq, u)
    /\ failed' = failed \cup UnqueueFaults(runq, u)

(* Mutated: a complete thread is signalled, too.                           *)
DeliverSignal_complete(u) ==
    /\ Free
    /\ u # current
    /\ UnqueueAllowed(u)
    /\ frame' = [frame EXCEPT ![u] = "signal"]
    /\ got' = [got EXCEPT ![u] = None]
    /\ relock' = [relock EXCEPT ![u] = Zero]
    /\ SignalUnqueued(u)
    /\ UNCHANGED <<current, kernel>>

(* %apply-on-thread: a frame that runs the signal's thunk goes on top of   *)
(* the stack, above whatever the thread was waiting for.                   *)
DeliverSignal(u) ==
    /\ Free
    /\ u # current
    /\ state[u] # "COMPLETE"
    /\ UnqueueAllowed(u)
    /\ frame' = [frame EXCEPT ![u] = "signal"]
    /\ got' = [got EXCEPT ![u] = None]
    /\ relock' = [relock EXCEPT ![u] = Zero]
    /\ IF NoQueueCase(u)
         THEN UNCHANGED <<state, suspend, blocked, runq, objectVars, timers, failed>>
         ELSE SignalUnqueued(u)
    /\ UNCHANGED <<current, kernel>>

ControlNext ==
    \E u \in Threads :
        \/ Suspend(u)
        \/ Resume(u)
        \/ Halt(u)
        \/ DeliverSignal(u)
=============================================================================
