---------------------------- MODULE ThreadKernel ----------------------------
(***************************************************************************)
(* The kernel of RScheme's user-level thread manager                       *)
(* (packages/threads/manager): the thread records, the run queues, the     *)
(* dispatcher, the timer events, and the helpers by which every blocking   *)
(* object makes threads ready again.  The blocking objects themselves are  *)
(* in ThreadMailbox and ThreadSync, the operations of one thread on        *)
(* another in ThreadControl; ThreadManager puts them together.             *)
(*                                                                         *)
(* Scheme code is interrupted only at safe points, so each primitive (a    *)
(* define-glue procedure) runs whole: it is one action of the thread that  *)
(* is current.  The asserts of the C code are compiled out of the default  *)
(* build; each is recorded in `failed' under its file and line when its    *)
(* condition is false, and the code goes on as the release build does.     *)
(***************************************************************************)
EXTENDS Integers, FiniteSets, SequencesExt

CONSTANTS
    Threads,        \* <thread> objects
    Mailboxes,      \* <mailbox> objects
    Semaphores,     \* <semaphore> objects (a <mutex> is one)
    Conditions,     \* <condition-var> objects
    Futures,        \* <future> objects
    Processes,      \* <process> objects, each of a child process that runs
    Priority,       \* thread-priority: 0 is served first, 9 last
    Zero,           \* the fixnum 0 in thread-blocked-on and current_thread
    TimeEvent,      \* a raw time event in thread-blocked-on
    None,           \* no value has been stored for the thread
    NoValue,        \* NOVALUE_OBJ, what a closed mailbox delivers
    MaxSends,       \* bound: messages sent in a behaviour
    MaxSuspend,     \* bound: magnitude of a suspend count
    MaxCount,       \* bound: a semaphore's stored signals
    Liberties       \* uses of the operations beyond the clients' discipline

Messages  == 1..MaxSends
Waitables == Semaphores \cup Conditions \cup Futures \cup Processes \cup Threads
States    == {"SUSPEND", "WAITING", "RUNNING", "BLOCKED", "SLEEPING", "COMPLETE"}

(* What lies on top of a thread's saved stack: nothing saved (running), a  *)
(* frame that reads no stored value, the rcv_n_go frame of                 *)
(* receive-message!, the delayed_join frame of thread-join, the            *)
(* thread_applier frame of a delivered signal, or the thread's result.     *)
Frames == {"loaded", "plain", "receive", "join", "signal", "result"}

AllLiberties == {"suspend self", "suspend waiter", "suspend process waiter",
                 "halt suspended", "halt unqueued", "halt condition waiter"}

ASSUME FiniteAssumption == IsFiniteSet(Threads) /\ Threads # {}

ASSUME PriorityAssumption == Priority \in [Threads -> 0..9]

ASSUME BoundsAssumption == MaxSends \in Nat /\ MaxSuspend \in Nat /\ MaxCount \in Nat

ASSUME LibertiesAssumption == Liberties \subseteq AllLiberties

(* Objects of different classes are different objects, and none is a       *)
(* fixnum.                                                                 *)
ASSUME DistinctAssumption ==
    /\ Mailboxes \cap Waitables = {}
    /\ Semaphores \cap (Conditions \cup Futures \cup Processes \cup Threads) = {}
    /\ Conditions \cap (Futures \cup Processes \cup Threads) = {}
    /\ Futures \cap (Processes \cup Threads) = {}
    /\ Processes \cap Threads = {}
    /\ Zero # TimeEvent
    /\ {Zero, TimeEvent} \cap (Mailboxes \cup Waitables) = {}
    /\ Threads \cap Nat = {}
    /\ None # NoValue
    /\ {None, NoValue} \cap (Nat \cup Threads) = {}

VARIABLES
    state,      \* thread-state
    suspend,    \* thread-suspend-count: negative when in no queue
    blocked,    \* thread-blocked-on
    frame,      \* what is on top of thread-stack
    got,        \* the value store_resume_value left in the top frame
    relock,     \* the semaphore a condition-wait must take again, or Zero
    runq,       \* the ten run queues, merged in order of arrival
    waitq,      \* the threads queued on (or listed by) a waitable object
    mboxq,      \* a mailbox's dequeue: messages or waiting threads
    hasData,    \* has-data?: "data" (#t), "waiters" (#f), "closed" (other)
    count,      \* a semaphore's count
    settled,    \* futures whose values, and processes whose exit status, are set
    timers,     \* threads with a time event on the event list
    current,    \* current_thread; Zero in the dispatcher
    kernel,     \* where the dispatcher is: "off", "poll", "scan", "wait"
    sent,       \* number of messages sent so far
    failed      \* asserts whose condition was false when it was reached

threadVars == <<state, suspend, blocked, frame, got, relock>>
objectVars == <<mboxq, hasData, waitq, count, settled, sent>>
vars == <<threadVars, runq, objectVars, timers, current, kernel, failed>>

-----------------------------------------------------------------------------
(* Making threads ready.                                                   *)

IsWaiting(m) == hasData[m] = "waiters"

(* The state slot of the threads of the sequence q once each has been      *)
(* unblocked and marked ready.                                             *)
StateReadied(q) ==
    [t \in Threads |-> IF t \in Range(q) THEN "WAITING" ELSE state[t]]

BlockedReadied(q) ==
    [t \in Threads |-> IF t \in Range(q) THEN Zero ELSE blocked[t]]

(* The places in the queue q of the threads that are not suspended.        *)
Eligible(q) == {i \in DOMAIN q : suspend[q[i]] = 0}

(* The increasing enumeration of a finite set of indices.                  *)
Ascending(S) ==
    {p \in [1..Cardinality(S) -> S] :
        \A a, b \in 1..Cardinality(S) : a < b => p[a] < p[b]}

(* The threads of q that are not suspended, in order: a set of one         *)
(* sequence.                                                               *)
EligibleOnly(q) ==
    {[k \in 1..Cardinality(Eligible(q)) |-> q[p[k]]] : p \in Ascending(Eligible(q))}

Unless(cond, label) == IF cond THEN {} ELSE {label}

(* The asserts of UNBLOCK_THREAD and mark_thread_ready: whoever readies a  *)
(* thread has noticed that it is not suspended.                            *)
ReadyFaults(q) ==
    Unless(\A t \in Range(q) : suspend[t] <= 0, "struct.h:144")
        \cup Unless(\A t \in Range(q) : suspend[t] = 0, "dispatch.c:220")

(* UNBLOCK_THREAD and mark_thread_ready, for each thread of q in turn.     *)
MakeReady(q) ==
    /\ state' = StateReadied(q)
    /\ blocked' = BlockedReadied(q)
    /\ runq' = runq \o q
    /\ failed' = failed \cup ReadyFaults(q)

(* did_remove_from_queue: 0 stays 0, anything else is presumed positive    *)
(* and made negative.                                                      *)
Negated(t) == [suspend EXCEPT ![t] = 0 - @]

RemovedFault(t) == Unless(suspend[t] >= 0, "dispatch.c:142")

-----------------------------------------------------------------------------
(* The current thread gives up the processor.                              *)

Running == current # Zero

(* A thread that came back from a condition-wait does nothing before it    *)
(* has the semaphore again.                                                *)
Free == Running /\ relock[current] = Zero

(* kswitch_thread, apart from the slots of the thread record.              *)
SwitchOut == current' = Zero /\ kernel' = "poll"

(* switch_thread: block the current thread on w, in state s, with a frame  *)
(* of kind k on its stack.                                                 *)
Block(w, s, k) ==
    /\ state' = [state EXCEPT ![current] = s]
    /\ blocked' = [blocked EXCEPT ![current] = w]
    /\ frame' = [frame EXCEPT ![current] = k]
    /\ SwitchOut

(* The timer interrupt (time-slice-over), and thread-sleep-ms of 0.        *)
Yield ==
    /\ Running
    /\ state' = [state EXCEPT ![current] = "WAITING"]
    /\ blocked' = [blocked EXCEPT ![current] = Zero]
    /\ frame' = [frame EXCEPT ![current] = "plain"]
    /\ runq' = Append(runq, current)
    /\ failed' = failed \cup Unless(blocked[current] = Zero, "dispatch.c:214")
                        \cup Unless(suspend[current] = 0, "dispatch.c:220")
    /\ SwitchOut
    /\ UNCHANGED <<suspend, got, relock, objectVars, timers>>

(* thread-sleep-ms of a positive time.                                     *)
Sleep ==
    /\ Free
    /\ timers' = timers \cup {current}
    /\ Block(TimeEvent, "SLEEPING", "plain")
    /\ UNCHANGED <<suspend, got, relock, runq, objectVars, failed>>

-----------------------------------------------------------------------------
(* The dispatcher: dispatch_to_next_thread.                                *)

(* Mutated: the event of a suspended sleeper is left on the list.          *)
TimerFires_notSuspended(t) ==
    /\ kernel \in {"poll", "wait"}
    /\ t \in timers
    /\ suspend[t] = 0
    /\ timers' = timers \ {t}
    /\ kernel' = "poll"
    /\ blocked' = [blocked EXCEPT ![t] = Zero]
    /\ runq' = Append(runq, t)
    /\ state' = [state EXCEPT ![t] = "WAITING"]
    /\ UNCHANGED <<suspend, frame, got, relock, objectVars, current, failed>>

(* Mutated: a suspended sleeper is not unblocked.                          *)
TimerFires_blocked(t) ==
    /\ kernel \in {"poll", "wait"}
    /\ t \in timers
    /\ timers' = timers \ {t}
    /\ kernel' = "poll"
    /\ blocked' = IF suspend[t] = 0 THEN [blocked EXCEPT ![t] = Zero] ELSE blocked
    /\ suspend' = Negated(t)
    /\ failed' = failed \cup RemovedFault(t)
    /\ IF suspend[t] = 0
         THEN /\ runq' = Append(runq, t)
              /\ state' = [state EXCEPT ![t] = "WAITING"]
         ELSE UNCHANGED <<runq, state>>
    /\ UNCHANGED <<frame, got, relock, objectVars, current>>

(* handle_realtime_event, within check_for_events: the event of t is freed *)
(* (which clears t's blocked-on).  A suspended sleeper leaves the queue    *)
(* with its count negated.  Due times are not modelled: any armed event    *)
(* may be the next that is due.                                            *)
TimerFires(t) ==
    /\ kernel \in {"poll", "wait"}
    /\ t \in timers
    /\ timers' = timers \ {t}
    /\ kernel' = "poll"
    /\ blocked' = [blocked EXCEPT ![t] = Zero]
    /\ suspend' = Negated(t)
    /\ failed' = failed \cup RemovedFault(t)
    /\ IF suspend[t] = 0
         THEN /\ runq' = Append(runq, t)
              /\ state' = [state EXCEPT ![t] = "WAITING"]
         ELSE UNCHANGED <<runq, state>>
    /\ UNCHANGED <<frame, got, relock, objectVars, current>>

(* check_for_events returns: every event that was due has been handled.    *)
EndPoll ==
    /\ kernel = "poll"
    /\ kernel' = "scan"
    /\ UNCHANGED <<threadVars, runq, objectVars, timers, current, failed>>

(* Mutated: the newest thread of the best priority, not the oldest.        *)
IsNext_newest(i) ==
    \A j \in DOMAIN runq :
        \/ Priority[runq[i]] < Priority[runq[j]]
        \/ Priority[runq[i]] = Priority[runq[j]] /\ i >= j

(* The queue of the best priority that holds a thread has it in front.     *)
IsNext(i) ==
    \A j \in DOMAIN runq :
        \/ Priority[runq[i]] < Priority[runq[j]]
        \/ Priority[runq[i]] = Priority[runq[j]] /\ i <= j

(* dispatch_to_thread: the stack, and with it the stored value, are loaded *)
(* and the slots cleared.                                                  *)
Dispatch ==
    /\ kernel = "scan"
    /\ \E i \in DOMAIN runq :
          /\ IsNext(i)
          /\ suspend[runq[i]] = 0
          /\ runq' = RemoveAt(runq, i)
          /\ current' = runq[i]
          /\ state' = [state EXCEPT ![runq[i]] = "RUNNING"]
          /\ frame' = [frame EXCEPT ![runq[i]] = "loaded"]
          /\ got' = [got EXCEPT ![runq[i]] = None]
    /\ kernel' = "off"
    /\ UNCHANGED <<suspend, blocked, relock, objectVars, timers, failed>>

(* The thread in front is suspended: it leaves the queue.                  *)
SkipSuspended ==
    /\ kernel = "scan"
    /\ \E i \in DOMAIN runq :
          /\ IsNext(i)
          /\ suspend[runq[i]] # 0
          /\ runq' = RemoveAt(runq, i)
          /\ suspend' = Negated(runq[i])
          /\ failed' = failed \cup RemovedFault(runq[i])
    /\ UNCHANGED <<state, blocked, frame, got, relock, objectVars, timers,
                   current, kernel>>

(* All queues are empty: check_for_events blocks until something is due.   *)
Idle ==
    /\ kernel = "scan"
    /\ runq = <<>>
    /\ kernel' = "wait"
    /\ UNCHANGED <<threadVars, runq, objectVars, timers, current, failed>>

KernelNext ==
    \/ Yield
    \/ Sleep
    \/ \E t \in Threads : TimerFires(t)
    \/ EndPoll
    \/ Dispatch
    \/ SkipSuspended
    \/ Idle
=============================================================================
