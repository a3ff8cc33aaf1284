----------------------------- MODULE ThreadSync -----------------------------
(***************************************************************************)
(* Semaphores, condition variables, futures, joins and child processes:    *)
(* the objects whose operations wake every thread they pop, suspended or   *)
(* not (semaphore.scm, condition.scm, futures.scm, system.scm, start.scm,  *)
(* krelease_joiners in synch.c).                                           *)
(***************************************************************************)
EXTENDS ThreadKernel

(* A signal of s pops a waiter if the count says that there is one         *)
(* (SemaphoreCount; dequeue_pop_front of an empty queue is an error).      *)
PopsWaiter(s) == count[s] < 0 /\ waitq[s] # <<>>

(* The thread a signal of s wakes: the oldest waiter.                      *)
Signalled(s) == IF PopsWaiter(s) THEN <<Head(waitq[s])>> ELSE <<>>

WaitersLeft(s) == IF PopsWaiter(s) THEN Tail(waitq[s]) ELSE waitq[s]

(* semaphore-signal.                                                       *)
SemaphoreSignal(s) ==
    /\ Free
    /\ count[s] < MaxCount
    /\ count' = [count EXCEPT ![s] = @ + 1]
    /\ waitq' = [waitq EXCEPT ![s] = WaitersLeft(s)]
    /\ MakeReady(Signalled(s))
    /\ UNCHANGED <<suspend, frame, got, relock, mboxq, hasData, settled, sent,
                   timers, current, kernel>>

(* semaphore-wait, called by the program or by the cw_resume frame of a    *)
(* condition-wait that was woken.                                          *)
SemaphoreWait(s) ==
    /\ Running
    /\ relock[current] \in {Zero, s}
    /\ relock' = [relock EXCEPT ![current] = Zero]
    /\ count' = [count EXCEPT ![s] = @ - 1]
    /\ IF count[s] - 1 < 0
         THEN /\ waitq' = [waitq EXCEPT ![s] = Append(@, current)]
              /\ Block(s, "BLOCKED", "plain")
         ELSE UNCHANGED <<waitq, state, blocked, frame, current, kernel>>
    /\ UNCHANGED <<suspend, got, runq, mboxq, hasData, settled, sent, timers,
                   failed>>

(* condition-wait: signal s and wait on c, with nothing in between.        *)
ConditionWait(s, c) ==
    /\ Free
    /\ count[s] < MaxCount
    /\ count' = [count EXCEPT ![s] = @ + 1]
    /\ waitq' = [waitq EXCEPT ![s] = WaitersLeft(s), ![c] = Append(@, current)]
    /\ state' = [StateReadied(Signalled(s)) EXCEPT ![current] = "BLOCKED"]
    /\ blocked' = [BlockedReadied(Signalled(s)) EXCEPT ![current] = c]
    /\ frame' = [frame EXCEPT ![current] = "plain"]
    /\ relock' = [relock EXCEPT ![current] = s]
    /\ runq' = runq \o Signalled(s)
    /\ failed' = failed \cup ReadyFaults(Signalled(s))
    /\ SwitchOut
    /\ UNCHANGED <<suspend, got, mboxq, hasData, settled, sent, timers>>

(* condition-signal wakes every waiter.                                    *)
ConditionSignal(c) ==
    /\ Free
    /\ waitq[c] # <<>>
    /\ waitq' = [waitq EXCEPT ![c] = <<>>]
    /\ MakeReady(waitq[c])
    /\ UNCHANGED <<suspend, frame, got, relock, mboxq, hasData, count, settled,
                   sent, timers, current, kernel>>

(* await-future of a future with no values yet, exit-status of a process   *)
(* that still runs.  The list of waiters grows at its head.                *)
Await(o) ==
    /\ Free
    /\ o \notin settled
    /\ waitq' = [waitq EXCEPT ![o] = <<current>> \o @]
    /\ Block(o, "BLOCKED", "plain")
    /\ UNCHANGED <<suspend, got, relock, runq, mboxq, hasData, count, settled,
                   sent, timers, failed>>

(* set-future-values!, and the end of a future's thunk; only the first has *)
(* an effect.                                                              *)
SetFuture(f) ==
    /\ Free
    /\ f \notin settled
    /\ settled' = settled \cup {f}
    /\ waitq' = [waitq EXCEPT ![f] = <<>>]
    /\ MakeReady(waitq[f])
    /\ UNCHANGED <<suspend, frame, got, relock, mboxq, hasData, count, sent,
                   timers, current, kernel>>

(* do-child-exited, an interrupt taken at a safe point of a thread or by   *)
(* the dispatcher, which then starts over.  Every waiter is unblocked, the *)
(* ones that are not suspended are made ready.                             *)
ChildExited(p) ==
    /\ p \notin settled
    /\ settled' = settled \cup {p}
    /\ \E woken \in EligibleOnly(waitq[p]) :
          /\ state' = StateReadied(woken)
          /\ runq' = runq \o woken
    /\ blocked' = BlockedReadied(waitq[p])
    /\ waitq' = [waitq EXCEPT ![p] = <<>>]
    /\ failed' = failed \cup Unless(\A t \in Range(waitq[p]) : suspend[t] <= 0,
                                   "struct.h:144")
    /\ kernel' = IF kernel = "off" THEN "off" ELSE "poll"
    /\ UNCHANGED <<suspend, frame, got, relock, mboxq, hasData, count, sent,
                   timers, current>>

(* Mutated: whether the thread is complete is not looked at.               *)
Join_always(u) ==
    /\ Free
    /\ u # current
    /\ waitq' = [waitq EXCEPT ![u] = <<current>> \o @]
    /\ Block(u, "BLOCKED", "join")
    /\ UNCHANGED <<suspend, got, relock, runq, mboxq, hasData, count, settled,
                   sent, timers, failed>>

(* thread-join of a thread that is not complete.                           *)
Join(u) ==
    /\ Free
    /\ u # current
    /\ state[u] # "COMPLETE"
    /\ waitq' = [waitq EXCEPT ![u] = <<current>> \o @]
    /\ Block(u, "BLOCKED", "join")
    /\ UNCHANGED <<suspend, got, relock, runq, mboxq, hasData, count, settled,
                   sent, timers, failed>>

(* krelease_joiners finds its joiners blocked on it.                       *)
JoinerFaults(u) ==
    Unless(\A t \in Range(waitq[u]) : blocked[t] = u, "synch.c:421")

(* The thunk returns (thread_done), or the thread halts itself: its        *)
(* joiners are released, then it leaves for good.                          *)
Exit ==
    /\ Free
    /\ state' = [StateReadied(waitq[current]) EXCEPT ![current] = "COMPLETE"]
    /\ blocked' = [BlockedReadied(waitq[current]) EXCEPT ![current] = Zero]
    /\ runq' = runq \o waitq[current]
    /\ waitq' = [waitq EXCEPT ![current] = <<>>]
    /\ frame' = [frame EXCEPT ![current] = "result"]
    /\ failed' = failed \cup JoinerFaults(current) \cup ReadyFaults(waitq[current])
    /\ SwitchOut
    /\ UNCHANGED <<suspend, got, relock, mboxq, hasData, count, settled, sent,
                   timers>>

SyncNext ==
    \/ \E s \in Semaphores :
          \/ SemaphoreSignal(s)
          \/ SemaphoreWait(s)
          \/ \E c \in Conditions : ConditionWait(s, c)
    \/ \E c \in Conditions : ConditionSignal(c)
    \/ \E o \in Futures \cup Processes : Await(o)
    \/ \E f \in Futures : SetFuture(f)
    \/ \E p \in Processes : ChildExited(p)
    \/ \E u \in Threads : Join(u)
    \/ Exit
=============================================================================
