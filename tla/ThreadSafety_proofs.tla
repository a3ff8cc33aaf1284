------------------------ MODULE ThreadSafety_proofs -------------------------
(***************************************************************************)
(* The safety properties of ThreadManager that follow from the agreement   *)
(* of the queues (ThreadQueues_proofs): semaphore counts, suspensions,     *)
(* closed mailboxes, complete threads, wakeups.                            *)
(***************************************************************************)
EXTENDS ThreadQueues_proofs

USE DEF TypeOK

(* What every step of a disciplined program starts from and ends in.       *)
LEMMA BothEnds ==
    ASSUME QueuesInvariant, Disciplined, [Next]_vars
    PROVE  QueuesInvariant' /\ TypeOK /\ TypeOK' /\ SlotsAgree /\ SlotsAgree'
  BY QueuesKept DEF QueuesInvariant

-----------------------------------------------------------------------------
(* Semaphores.                                                             *)

(* Removing a member of a queue makes it shorter by one.                   *)
LEMMA WithoutLength ==
    ASSUME NEW S, NEW q \in Seq(S), NEW t \in Range(q)
    PROVE  Len(Without(q, t)) = Len(q) - 1
<1>1. PICK i \in DOMAIN q : Without(q, t) = RemoveAt(q, i)
  BY DEF Without, Range
<1>2. i \in 1..Len(q) /\ Len(q) \in Nat
  BY LenProperties
<1> DEFINE before == SubSeq(q, 1, i - 1)
           behind == SubSeq(q, i + 1, Len(q))
<1>3. before \in Seq(S) /\ Len(before) = i - 1
  <2>1. 1 \in Int /\ i - 1 \in Int /\ \A k \in 1..(i - 1) : q[k] \in S
    BY <1>2, ElementOfSeq
  <2>2. before \in Seq(S) /\ Len(before) = IF 1 <= i - 1 THEN (i - 1) - 1 + 1 ELSE 0
    BY <2>1, SubSeqProperties
  <2> HIDE DEF before
  <2> QED  BY <1>2, <2>2
<1>4. behind \in Seq(S) /\ Len(behind) = Len(q) - i
  <2>1. i + 1 \in Int /\ Len(q) \in Int /\ \A k \in (i + 1)..Len(q) : q[k] \in S
    BY <1>2, ElementOfSeq
  <2>2. behind \in Seq(S)
        /\ Len(behind) = IF i + 1 <= Len(q) THEN Len(q) - (i + 1) + 1 ELSE 0
    BY <2>1, SubSeqProperties
  <2> HIDE DEF behind
  <2>3. CASE i + 1 <= Len(q)
    BY <1>2, <2>2, <2>3
  <2>4. CASE i = Len(q)
    BY <1>2, <2>2, <2>4
  <2> QED  BY <1>2, <2>2, <2>3, <2>4
<1>5. Len(before \o behind) = Len(before) + Len(behind)
  BY <1>3, <1>4, ConcatProperties
<1> HIDE DEF before, behind
<1>6. Len(before \o behind) = Len(q) - 1
  BY <1>2, <1>3, <1>4, <1>5
<1> QED  BY <1>1, <1>6 DEF RemoveAt, before, behind

(* The length that the count of s calls for.                               *)
CountAgrees(s) == Len(waitq[s]) = IF count[s] < 0 THEN 0 - count[s] ELSE 0

(* What each operation that changes a semaphore does to the agreement.     *)
LEMMA SignalCount ==
    ASSUME TypeOK, NEW s \in Semaphores, CountAgrees(s),
           waitq'[s] = WaitersLeft(s), count'[s] = count[s] + 1
    PROVE  CountAgrees(s)'
<1>1. waitq[s] \in Seq(Threads) /\ count[s] \in Int /\ Len(waitq[s]) \in Nat
  BY ObjectsDiffer, LenProperties DEF ObjectTypeOK
<1>2. CASE count[s] < 0
  <2>1. waitq[s] # <<>>
    BY <1>1, <1>2, EmptySeq DEF CountAgrees
  <2>2. waitq'[s] = Tail(waitq[s])
    BY <1>2, <2>1 DEF WaitersLeft, PopsWaiter
  <2>3. Len(Tail(waitq[s])) = Len(waitq[s]) - 1
    BY <1>1, <2>1, HeadTailProperties
  <2> QED  BY <1>1, <1>2, <2>2, <2>3 DEF CountAgrees
<1>3. CASE ~(count[s] < 0)
  BY <1>1, <1>3 DEF CountAgrees, WaitersLeft, PopsWaiter
<1> QED  BY <1>2, <1>3

LEMMA WaitCount ==
    ASSUME TypeOK, Running, NEW s \in Semaphores, CountAgrees(s),
           count'[s] = count[s] - 1,
           waitq'[s] = IF count[s] - 1 < 0 THEN Append(waitq[s], current) ELSE waitq[s]
    PROVE  CountAgrees(s)'
<1>1. waitq[s] \in Seq(Threads) /\ count[s] \in Int /\ current \in Threads
  BY ObjectsDiffer, RunningIsThread DEF ObjectTypeOK
<1>2. Len(Append(waitq[s], current)) = Len(waitq[s]) + 1 /\ Len(waitq[s]) \in Nat
  BY <1>1, AppendProperties, LenProperties
<1> QED  BY <1>1, <1>2 DEF CountAgrees

LEMMA UnqueuedCount ==
    ASSUME QueuesInvariant, NEW u \in Threads, TakenFromQueue(u) <=> Queued(u),
           NEW s \in Semaphores, CountAgrees(s),
           waitq'[s] = WaitqWithout(u)[s], count'[s] = CountWithout(u)[s]
    PROVE  CountAgrees(s)'
<1>1. /\ s \in Waitables /\ s # Zero
      /\ waitq[s] \in Seq(Threads) /\ count[s] \in Int /\ Len(waitq[s]) \in Nat
  BY ObjectsDiffer, LenProperties DEF QueuesInvariant, ObjectTypeOK, Objects
<1>2. CASE blocked[u] = s
  <2>1. u \in Range(waitq[s])
    <3>1. u \in InLineFor(s)
      BY <1>1, <1>2 DEF TakenFromQueue, InLineFor
    <3> QED  BY <1>1, <3>1, WaitableQueues DEF QueuesInvariant, QueuesAgree, IsQueueOf
  <2>2. Len(waitq'[s]) = Len(waitq[s]) - 1
    BY <1>1, <1>2, <2>1, WithoutLength DEF WaitqWithout
  <2>3. count'[s] = count[s] + 1 /\ Len(waitq[s]) # 0
    <3>1. waitq[s] # <<>>
      BY <2>1 DEF Range
    <3> QED  BY <1>1, <1>2, <3>1, EmptySeq DEF CountWithout
  <2> QED  BY <1>1, <2>2, <2>3 DEF CountAgrees
<1>3. CASE blocked[u] # s
  BY <1>1, <1>3 DEF WaitqWithout, CountWithout, CountAgrees
<1> QED  BY <1>2, <1>3

(* Operations that leave the semaphores alone.                             *)
LEMMA CountAlone ==
    ASSUME NEW s \in Semaphores, CountAgrees(s),
           waitq'[s] = waitq[s], count'[s] = count[s]
    PROVE  CountAgrees(s)'
  BY DEF CountAgrees

CountsAgree == \A s \in Semaphores : CountAgrees(s)

LEMMA SyncStepCounts ==
    ASSUME QueuesInvariant, CountsAgree, SyncNext
    PROVE  CountsAgree'
<1> USE DEF QueuesInvariant, ObjectTypeOK
<1> SUFFICES ASSUME NEW s \in Semaphores  PROVE CountAgrees(s)'
  BY DEF CountsAgree
<1>1. CountAgrees(s) /\ s \in Waitables
  BY ObjectsDiffer DEF CountsAgree
<1>2. ASSUME NEW x \in Semaphores, SemaphoreSignal(x)  PROVE CountAgrees(s)'
  <2>1. s = x => waitq'[s] = WaitersLeft(s) /\ count'[s] = count[s] + 1
    BY <1>1, <1>2 DEF SemaphoreSignal
  <2>2. s # x => waitq'[s] = waitq[s] /\ count'[s] = count[s]
    BY <1>1, <1>2 DEF SemaphoreSignal
  <2> QED  BY <1>1, <2>1, <2>2, SignalCount, CountAlone
<1>3. ASSUME NEW x \in Semaphores, SemaphoreWait(x)  PROVE CountAgrees(s)'
  <2>1. s = x =>
          /\ count'[s] = count[s] - 1
          /\ waitq'[s] = IF count[s] - 1 < 0 THEN Append(waitq[s], current) ELSE waitq[s]
    BY <1>1, <1>3 DEF SemaphoreWait
  <2>2. s # x => waitq'[s] = waitq[s] /\ count'[s] = count[s]
    BY <1>1, <1>3 DEF SemaphoreWait
  <2>3. Running
    BY <1>3 DEF SemaphoreWait
  <2> QED  BY <1>1, <2>1, <2>2, <2>3, WaitCount, CountAlone
<1>4. ASSUME NEW x \in Semaphores, NEW c \in Conditions, ConditionWait(x, c)
      PROVE  CountAgrees(s)'
  <2>1. s # c
    BY DistinctAssumption
  <2>2. s = x => waitq'[s] = WaitersLeft(s) /\ count'[s] = count[s] + 1
    BY <1>1, <1>4, <2>1 DEF ConditionWait
  <2>3. s # x => waitq'[s] = waitq[s] /\ count'[s] = count[s]
    BY <1>1, <1>4, <2>1 DEF ConditionWait
  <2> QED  BY <1>1, <2>2, <2>3, SignalCount, CountAlone
<1>5. ASSUME NEW c \in Conditions, ConditionSignal(c)  PROVE CountAgrees(s)'
  BY <1>1, <1>5, DistinctAssumption, CountAlone DEF ConditionSignal
<1>6. ASSUME NEW o \in Futures \cup Processes, Await(o)  PROVE CountAgrees(s)'
  BY <1>1, <1>6, DistinctAssumption, CountAlone DEF Await
<1>7. ASSUME NEW f \in Futures, SetFuture(f)  PROVE CountAgrees(s)'
  BY <1>1, <1>7, DistinctAssumption, CountAlone DEF SetFuture
<1>8. ASSUME NEW p \in Processes, ChildExited(p)  PROVE CountAgrees(s)'
  BY <1>1, <1>8, DistinctAssumption, CountAlone DEF ChildExited
<1>9. ASSUME NEW u \in Threads, Join(u)  PROVE CountAgrees(s)'
  BY <1>1, <1>9, DistinctAssumption, CountAlone DEF Join
<1>10. ASSUME Exit  PROVE CountAgrees(s)'
  <2>1. current \in Threads
    BY <1>10, RunningIsThread DEF Exit, Free
  <2> QED  BY <1>1, <1>10, <2>1, DistinctAssumption, CountAlone DEF Exit
<1> QED  BY <1>2, <1>3, <1>4, <1>5, <1>6, <1>7, <1>8, <1>9, <1>10 DEF SyncNext

LEMMA ControlStepCounts ==
    ASSUME QueuesInvariant, Disciplined, CountsAgree, ControlNext
    PROVE  CountsAgree'
<1> USE DEF QueuesInvariant, ObjectTypeOK
<1> SUFFICES ASSUME NEW s \in Semaphores  PROVE CountAgrees(s)'
  BY DEF CountsAgree
<1>1. CountAgrees(s) /\ s \in Waitables
  BY ObjectsDiffer DEF CountsAgree
<1>2. ASSUME NEW u \in Threads, Suspend(u) \/ Resume(u)  PROVE CountAgrees(s)'
  BY <1>1, <1>2, CountAlone DEF Suspend, Resume, objectVars
<1>3. ASSUME NEW u \in Threads, Halt(u)  PROVE CountAgrees(s)'
  <2>1. (TakenFromQueue(u) <=> Queued(u)) /\ HaltUnqueued(u)
    BY <1>3, UnqueueFacts DEF Halt
  <2>2. s # u /\ WaitqWithout(u) \in [Waitables -> Seq(Threads)]
    BY DistinctAssumption, UnqueuedTypes
  <2>3. waitq'[s] = WaitqWithout(u)[s] /\ count'[s] = CountWithout(u)[s]
    BY <1>1, <2>1, <2>2 DEF HaltUnqueued, LeaveObjects
  <2> QED  BY <1>1, <2>1, <2>3, UnqueuedCount
<1>4. ASSUME NEW u \in Threads, DeliverSignal(u)  PROVE CountAgrees(s)'
  <2>1. (TakenFromQueue(u) <=> Queued(u)) /\ SignalUnqueued(u)
    BY <1>4, UnqueueFacts DEF DeliverSignal
  <2>2. waitq'[s] = WaitqWithout(u)[s] /\ count'[s] = CountWithout(u)[s]
    BY <2>1 DEF SignalUnqueued, LeaveObjects
  <2> QED  BY <1>1, <2>1, <2>2, UnqueuedCount
<1> QED  BY <1>2, <1>3, <1>4 DEF ControlNext

LEMMA CountsKept ==
    ASSUME QueuesInvariant, Disciplined, CountsAgree, [Next]_vars
    PROVE  CountsAgree'
<1>1. CASE UNCHANGED <<waitq, count>>
  BY <1>1 DEF CountsAgree, CountAgrees
<1>2. KernelNext \/ MailboxNext \/ UNCHANGED vars => UNCHANGED <<waitq, count>>
  BY DEF KernelNext, Yield, Sleep, TimerFires, EndPoll, Dispatch, SkipSuspended, Idle,
         MailboxNext, SendMessage, ReceiveNow, ReceiveBlocks, CloseMailbox, vars, objectVars
<1> QED  BY <1>1, <1>2, SyncStepCounts, ControlStepCounts DEF Next

(* A semaphore's count tells how many wait: neither a signal given back by *)
(* a halted waiter nor one sent past a suspended waiter is lost or counted *)
(* twice (semaphore.scm, and the case for semaphores in                    *)
(* kthread_unqueue_suspend).                                               *)
THEOREM CountTellsTruth ==
    ASSUME Disciplined
    PROVE  Spec => []SemaphoreCount
<1>1. Init => QueuesInvariant /\ CountsAgree
  <2> SUFFICES ASSUME Init, NEW s \in Semaphores  PROVE CountAgrees(s)
    BY QueuesInitially DEF CountsAgree
  <2>1. waitq[s] = <<>> /\ count[s] \in Nat
    BY ObjectsDiffer, BoundsAssumption DEF Init
  <2> QED  BY <2>1 DEF CountAgrees
<1>2. QueuesInvariant /\ CountsAgree /\ [Next]_vars => (QueuesInvariant /\ CountsAgree)'
  BY QueuesKept, CountsKept
<1>3. QueuesInvariant /\ CountsAgree => SemaphoreCount
  BY DEF CountsAgree, CountAgrees, SemaphoreCount
<1> QED  BY <1>1, <1>2, <1>3, PTL DEF Spec

-----------------------------------------------------------------------------
(* Suspensions.                                                            *)

(* Whatever takes a thread out of a queue changes the sign of its count.   *)
LEMMA MagnitudeKept ==
    ASSUME NEW c \in Int
    PROVE  Magnitude(0 - c) = Magnitude(c)
  BY DEF Magnitude

LEMMA SuspensionStep ==
    ASSUME QueuesInvariant, Disciplined, Next, NEW t \in Threads, ~Resume(t)
    PROVE  ~(Magnitude(suspend'[t]) < Magnitude(suspend[t]))
<1> USE DEF QueuesInvariant
<1>1. suspend \in [Threads -> Int] /\ suspend[t] \in Int /\ Magnitude(suspend[t]) \in Int
  BY DEF RecordTypeOK, Magnitude
<1>2. suspend'[t] \in {suspend[t], 0 - suspend[t]}
      => ~(Magnitude(suspend'[t]) < Magnitude(suspend[t]))
  BY <1>1, MagnitudeKept
<1>3. CASE KernelNext
  <2>1. ASSUME NEW u \in Threads, suspend' = Negated(u)
        PROVE  suspend'[t] \in {suspend[t], 0 - suspend[t]}
    BY <1>1, <2>1 DEF Negated
  <2>2. \A i \in DOMAIN runq : runq[i] \in Threads
    BY ElementOfSeq, LenProperties DEF KernelTypeOK
  <2>3. suspend' = suspend \/ \E u \in Threads : suspend' = Negated(u)
    BY <1>3, <2>2 DEF KernelNext, Yield, Sleep, TimerFires, EndPoll, Dispatch,
                      SkipSuspended, Idle, threadVars
  <2> QED  BY <1>2, <2>1, <2>3
<1>4. CASE MailboxNext
  <2>1. suspend' = suspend \/ \E S : PassOver(S)
    BY <1>4 DEF MailboxNext, SendMessage, SendToQueue, SendToWaiter, SendPastWaiters,
                ReceiveNow, ReceiveBlocks, CloseMailbox, threadVars
  <2>2. suspend'[t] \in {suspend[t], 0 - suspend[t]}
    BY <1>1, <2>1 DEF PassOver
  <2> QED  BY <1>2, <2>2
<1>5. CASE SyncNext
  <2>1. suspend' = suspend
    BY <1>5 DEF SyncNext, SemaphoreSignal, SemaphoreWait, ConditionWait, ConditionSignal,
                Await, SetFuture, ChildExited, Join, Exit
  <2> QED  BY <1>2, <2>1
<1>6. ASSUME NEW u \in Threads, Suspend(u)
      PROVE  ~(Magnitude(suspend'[t]) < Magnitude(suspend[t]))
  <2>1. suspend'[t] = IF t = u THEN IF suspend[t] < 0 THEN suspend[t] - 1 ELSE suspend[t] + 1
                               ELSE suspend[t]
    BY <1>1, <1>6 DEF Suspend
  <2> QED  BY <1>1, <2>1 DEF Magnitude
<1>7. ASSUME NEW u \in Threads, Resume(u)
      PROVE  ~(Magnitude(suspend'[t]) < Magnitude(suspend[t]))
  <2>1. u # t
    BY <1>7
  <2>2. suspend'[t] = suspend[t]
    BY <1>1, <1>7, <2>1 DEF Resume
  <2> QED  BY <1>2, <2>2
<1>8. ASSUME NEW u \in Threads, Halt(u) \/ DeliverSignal(u)
      PROVE  ~(Magnitude(suspend'[t]) < Magnitude(suspend[t]))
  <2>1. /\ TakenFromQueue(u) <=> Queued(u)
        /\ ~NoQueueCase(u)
        /\ u # current /\ state[u] # "COMPLETE"
    BY <1>8, UnqueueFacts DEF Halt, DeliverSignal
  <2>2. TakenFromQueue(u) <=> suspend[u] >= 0
    BY <2>1 DEF Queued
  <2>3. SuspendUnqueued(u) = 0 - Magnitude(suspend[u]) - 1
    BY <1>1, <2>2 DEF SuspendUnqueued, Magnitude, RecordTypeOK
  <2>4. Magnitude(suspend[u]) \in Nat
    BY <1>1 DEF Magnitude
  <2>5. \/ suspend' = [suspend EXCEPT ![u] = SuspendUnqueued(u)]
        \/ suspend' = [suspend EXCEPT ![u] = Nearer(SuspendUnqueued(u))]
    BY <1>8, <2>1 DEF Halt, HaltUnqueued, DeliverSignal, SignalUnqueued
  <2>6. CASE t # u
    BY <1>1, <1>2, <2>5, <2>6
  <2>7. CASE t = u
    <3>1. suspend'[t] \in {0 - Magnitude(suspend[t]) - 1, 0 - Magnitude(suspend[t])}
      BY <1>1, <2>3, <2>4, <2>5, <2>7 DEF Nearer
    <3> QED  BY <2>4, <2>7, <3>1 DEF Magnitude
  <2> QED  BY <2>6, <2>7
<1> QED  BY <1>3, <1>4, <1>5, <1>6, <1>7, <1>8 DEF Next, ControlNext

(* Suspensions are not lost: whatever queues a suspended thread leaves,    *)
(* and whoever sends to it, signals it, wakes it or halts it, only a       *)
(* thread-resume of it brings its count nearer to 0, and the processor     *)
(* goes to threads of count 0 only (did_remove_from_queue in dispatch.c,   *)
(* mark_thread_suspended and mark_thread_resumed in synch.c).              *)
THEOREM SuspensionsHold ==
    ASSUME Disciplined
    PROVE  Spec => SuspensionHolds
<1>1. ASSUME QueuesInvariant, [Next]_vars
      PROVE  [\A t \in Threads :
                 /\ Magnitude(suspend'[t]) < Magnitude(suspend[t]) => Resume(t)
                 /\ current' = t => suspend'[t] = 0]_vars
  <2>1. \A t \in Threads : current' = t => suspend'[t] = 0
    BY <1>1, BothEnds DEF SlotsAgree
  <2>2. CASE Next
    BY <1>1, <2>1, <2>2, SuspensionStep
  <2> QED  BY <1>1, <2>2
<1> QED  BY <1>1, QueuesCorrect, PTL DEF Spec, SuspensionHolds

-----------------------------------------------------------------------------
(* Complete threads.                                                       *)

(* Nobody in a queue is complete.                                          *)
LEMMA NoneComplete ==
    ASSUME QueuesInvariant
    PROVE  /\ \A i \in DOMAIN runq : state[runq[i]] # "COMPLETE"
           /\ \A t \in timers : state[t] # "COMPLETE"
           /\ \A o \in Waitables : \A t \in Range(waitq[o]) : state[t] # "COMPLETE"
           /\ \A m \in Mailboxes : IsWaiting(m) =>
                  \A t \in Range(mboxq[m]) : state[t] # "COMPLETE"
<1> USE DEF QueuesInvariant
<1>1. \A w : \A t \in InLineFor(w) : state[t] # "COMPLETE"
  BY DEF InLineFor, Queued
<1>2. \A i \in DOMAIN runq : runq[i] \in Range(runq)
  BY DEF Range
<1>3. Range(runq) = InLineFor(Zero) /\ timers = InLineFor(TimeEvent)
  BY DEF QueuesAgree, IsQueueOf
<1>4. \A o \in Objects : Range(QueueOf(o)) = InLineFor(o)
  BY DEF QueuesAgree, IsQueueOf
<1>5. \A o \in Waitables : o \in Objects /\ QueueOf(o) = waitq[o]
  BY WaitableQueues
<1>6. \A m \in Mailboxes : m \in Objects /\ (IsWaiting(m) => QueueOf(m) = mboxq[m])
  BY DEF Objects, QueueOf
<1> QED  BY <1>1, <1>2, <1>3, <1>4, <1>5, <1>6

(* Readying threads that are not complete.                                 *)
LEMMA ReadiedFinal ==
    ASSUME NEW q, \A x \in Range(q) : state[x] # "COMPLETE", NEW t \in Threads
    PROVE  StateReadied(q)[t] = "COMPLETE" <=> state[t] = "COMPLETE"
  BY DEF StateReadied

(* A thread that is complete, and no other, has its result for a stack.    *)
ResultWhenComplete == \A t \in Threads : state[t] = "COMPLETE" <=> frame[t] = "result"

(* What a step does to the end of t.                                       *)
Final(t) == (state[t] = "COMPLETE" => state'[t] = "COMPLETE")
            /\ (state'[t] = "COMPLETE" <=> frame'[t] = "result")

LEMMA KernelStepFinal ==
    ASSUME QueuesInvariant, ResultWhenComplete, KernelNext, NEW t \in Threads
    PROVE  Final(t)
<1> USE DEF QueuesInvariant, RecordTypeOK, KernelTypeOK
<1>1. state[t] = "COMPLETE" <=> frame[t] = "result"
  BY DEF ResultWhenComplete
<1>2. Running => state[current] # "COMPLETE"
  BY RunningSlots
<1>3. CASE Yield \/ Sleep
  BY <1>1, <1>2, <1>3 DEF Yield, Sleep, Free, Block, Final
<1>4. ASSUME NEW u \in Threads, TimerFires(u)  PROVE Final(t)
  BY <1>1, <1>4, NoneComplete DEF TimerFires, Final
<1>5. CASE EndPoll \/ Idle \/ SkipSuspended
  BY <1>1, <1>5 DEF EndPoll, Idle, SkipSuspended, Final, threadVars
<1>6. CASE Dispatch
  <2>1. PICK i \in DOMAIN runq :
                /\ state' = [state EXCEPT ![runq[i]] = "RUNNING"]
                /\ frame' = [frame EXCEPT ![runq[i]] = "loaded"]
    BY <1>6 DEF Dispatch
  <2> QED  BY <1>1, <2>1, NoneComplete DEF Final
<1> QED  BY <1>3, <1>4, <1>5, <1>6 DEF KernelNext

LEMMA MailboxStepFinal ==
    ASSUME QueuesInvariant, ResultWhenComplete, MailboxNext, NEW t \in Threads
    PROVE  Final(t)
<1> USE DEF QueuesInvariant, RecordTypeOK
<1>1. state[t] = "COMPLETE" <=> frame[t] = "result"
  BY DEF ResultWhenComplete
<1>2. ASSUME UNCHANGED frame, NEW q, \A x \in Range(q) : state[x] # "COMPLETE",
             state' = StateReadied(q)
      PROVE  Final(t)
  BY <1>1, <1>2, ReadiedFinal DEF Final
<1>3. UNCHANGED <<state, frame>> => Final(t)
  BY <1>1 DEF Final
<1>4. ASSUME NEW m \in Mailboxes, NEW front \in BOOLEAN, SendMessage(m, front)
      PROVE  Final(t)
  <2>1. CASE SendToQueue(m, front) \/ SendPastWaiters(m, front)
    BY <1>3, <2>1 DEF SendToQueue, SendPastWaiters, threadVars
  <2>2. CASE SendToWaiter(m)
    <3>1. PICK i \in DOMAIN mboxq[m] : state' = StateReadied(<<mboxq[m][i]>>)
      BY <2>2 DEF SendToWaiter
    <3>2. UNCHANGED frame /\ IsWaiting(m)
      BY <2>2 DEF SendToWaiter
    <3>3. \A x \in Range(<<mboxq[m][i]>>) : state[x] # "COMPLETE"
      BY <3>2, NoneComplete DEF Range
    <3> QED  BY <1>2, <3>1, <3>2, <3>3
  <2> QED  BY <1>4, <2>1, <2>2 DEF SendMessage
<1>5. ASSUME NEW m \in Mailboxes, ReceiveNow(m)  PROVE Final(t)
  BY <1>3, <1>5 DEF ReceiveNow, threadVars
<1>6. ASSUME NEW m \in Mailboxes, ReceiveBlocks(m)  PROVE Final(t)
  <2>1. Running /\ state' = [state EXCEPT ![current] = "BLOCKED"]
                /\ frame' = [frame EXCEPT ![current] = "receive"]
    BY <1>6 DEF ReceiveBlocks, Block, Free
  <2> QED  BY <1>1, <2>1, RunningSlots DEF Final
<1>7. ASSUME NEW m \in Mailboxes, CloseMailbox(m)  PROVE Final(t)
  <2>1. CASE ~IsWaiting(m)
    BY <1>3, <1>7, <2>1 DEF CloseMailbox
  <2>2. CASE IsWaiting(m)
    <3>1. PICK woken \in EligibleOnly(mboxq[m]) : state' = StateReadied(woken)
      BY <1>7, <2>2 DEF CloseMailbox
    <3>2. mboxq[m] \in Seq(Threads) /\ IsInjective(mboxq[m])
      BY <2>2 DEF QueuesAgree, IsQueueOf, QueueOf, Objects, MailboxTypeOK
    <3>3. Range(woken) \subseteq Range(mboxq[m])
      BY <3>2, EligibleQueue DEF IsQueueOf
    <3>4. \A x \in Range(woken) : state[x] # "COMPLETE"
      BY <2>2, <3>3, NoneComplete
    <3> QED  BY <1>2, <1>7, <3>1, <3>4 DEF CloseMailbox
  <2> QED  BY <2>1, <2>2
<1> QED  BY <1>4, <1>5, <1>6, <1>7 DEF MailboxNext

LEMMA SyncStepFinal ==
    ASSUME QueuesInvariant, ResultWhenComplete, SyncNext, NEW t \in Threads
    PROVE  Final(t)
<1> USE DEF QueuesInvariant, RecordTypeOK
<1>1. state[t] = "COMPLETE" <=> frame[t] = "result"
  BY DEF ResultWhenComplete
<1>2. ASSUME UNCHANGED frame, NEW q, \A x \in Range(q) : state[x] # "COMPLETE",
             state' = StateReadied(q)
      PROVE  Final(t)
  BY <1>1, <1>2, ReadiedFinal DEF Final
<1>3. Running => current \in Threads /\ state[current] # "COMPLETE"
  BY RunningSlots
<1>4. \A s \in Semaphores : \A x \in Range(Signalled(s)) : state[x] # "COMPLETE"
  <2>1. ASSUME NEW s \in Semaphores, NEW x \in Range(Signalled(s)), PopsWaiter(s)
        PROVE  x \in Range(waitq[s])
    <3>1. s \in Waitables /\ waitq[s] \in Seq(Threads) /\ waitq[s] # <<>>
      BY <2>1, ObjectsDiffer DEF ObjectTypeOK, PopsWaiter
    <3>2. 1 \in DOMAIN waitq[s] /\ Head(waitq[s]) = waitq[s][1]
      BY <3>1, HeadTailProperties, LenProperties, EmptySeq
    <3> QED  BY <2>1, <3>2 DEF Signalled, Range
  <2>2. \A s \in Semaphores : ~PopsWaiter(s) => Range(Signalled(s)) = {}
    BY DEF Signalled, Range
  <2> QED  BY <2>1, <2>2, NoneComplete, ObjectsDiffer
<1>5. ASSUME NEW s \in Semaphores, SemaphoreSignal(s)  PROVE Final(t)
  BY <1>2, <1>4, <1>5 DEF SemaphoreSignal, MakeReady
<1>6. ASSUME NEW s \in Semaphores, SemaphoreWait(s)  PROVE Final(t)
  BY <1>1, <1>3, <1>6 DEF SemaphoreWait, Block, Final
<1>7. ASSUME NEW s \in Semaphores, NEW c \in Conditions, ConditionWait(s, c)
      PROVE  Final(t)
  <2>1. StateReadied(Signalled(s))[t] = "COMPLETE" <=> state[t] = "COMPLETE"
    BY <1>4, ReadiedFinal
  <2> QED  BY <1>1, <1>3, <1>7, <2>1 DEF ConditionWait, Free, StateReadied, Final
<1>8. ASSUME NEW o \in Waitables, MakeReady(waitq[o]), UNCHANGED frame  PROVE Final(t)
  BY <1>2, <1>8, NoneComplete DEF MakeReady
<1>9. ASSUME NEW c \in Conditions, ConditionSignal(c)  PROVE Final(t)
  BY <1>8, <1>9 DEF ConditionSignal, Waitables
<1>10. ASSUME NEW o \in Futures \cup Processes, Await(o)  PROVE Final(t)
  BY <1>1, <1>3, <1>10 DEF Await, Free, Block, Final
<1>11. ASSUME NEW f \in Futures, SetFuture(f)  PROVE Final(t)
  BY <1>8, <1>11 DEF SetFuture, Waitables
<1>12. ASSUME NEW p \in Processes, ChildExited(p)  PROVE Final(t)
  <2>1. PICK woken \in EligibleOnly(waitq[p]) : state' = StateReadied(woken)
    BY <1>12 DEF ChildExited
  <2>2. p \in Waitables
    BY DEF Waitables
  <2>3. waitq[p] \in Seq(Threads) /\ IsInjective(waitq[p])
    BY <2>2, WaitableQueues DEF QueuesAgree, IsQueueOf, ObjectTypeOK
  <2>4. Range(woken) \subseteq Range(waitq[p])
    BY <2>3, EligibleQueue DEF IsQueueOf
  <2>5. \A x \in Range(woken) : state[x] # "COMPLETE"
    BY <2>2, <2>4, NoneComplete
  <2> QED  BY <1>2, <1>12, <2>1, <2>5 DEF ChildExited
<1>13. ASSUME NEW u \in Threads, Join(u)  PROVE Final(t)
  BY <1>1, <1>3, <1>13 DEF Join, Free, Block, Final
<1>14. ASSUME Exit  PROVE Final(t)
  <2>1. current \in Threads /\ current \in Waitables
    BY <1>3, <1>14, ObjectsDiffer DEF Exit, Free
  <2>2. StateReadied(waitq[current])[t] = "COMPLETE" <=> state[t] = "COMPLETE"
    BY <2>1, NoneComplete, ReadiedFinal
  <2> QED  BY <1>1, <1>14, <2>1, <2>2 DEF Exit, StateReadied, Final
<1> QED  BY <1>5, <1>6, <1>7, <1>9, <1>10, <1>11, <1>12, <1>13, <1>14 DEF SyncNext

LEMMA ControlStepFinal ==
    ASSUME QueuesInvariant, Disciplined, ResultWhenComplete, ControlNext, NEW t \in Threads
    PROVE  Final(t)
<1> USE DEF QueuesInvariant, RecordTypeOK
<1>1. state[t] = "COMPLETE" <=> frame[t] = "result"
  BY DEF ResultWhenComplete
<1>2. ASSUME NEW u \in Threads, Suspend(u)  PROVE Final(t)
  BY <1>1, <1>2 DEF Suspend, Final
<1>3. ASSUME NEW u \in Threads, Resume(u)  PROVE Final(t)
  <2>1. state[u] # "COMPLETE" /\ frame' = frame
    BY <1>3 DEF Resume
  <2>2. state' = state \/ \E x \in States \ {"COMPLETE"} : state' = [state EXCEPT ![u] = x]
    BY <1>3 DEF Resume, ResumeOnce, ResumeQueued, ResumeReady, ResumeRequeued, Requeue, States
  <2> QED  BY <1>1, <2>1, <2>2 DEF Final
<1>4. ASSUME NEW u \in Threads, Halt(u)  PROVE Final(t)
  <2>1. HaltUnqueued(u) /\ u \in Waitables
    BY <1>4, UnqueueFacts, ObjectsDiffer DEF Halt
  <2>2. StateReadied(waitq[u])[t] = "COMPLETE" <=> state[t] = "COMPLETE"
    BY <2>1, NoneComplete, ReadiedFinal
  <2> QED  BY <1>1, <1>4, <2>1, <2>2 DEF Halt, HaltUnqueued, StateReadied, Final
<1>5. ASSUME NEW u \in Threads, DeliverSignal(u)  PROVE Final(t)
  <2>1. state[u] # "COMPLETE" /\ frame' = [frame EXCEPT ![u] = "signal"]
    BY <1>5 DEF DeliverSignal
  <2>2. state' = state \/ \E x \in States \ {"COMPLETE"} : state' = [state EXCEPT ![u] = x]
    BY <1>5 DEF DeliverSignal, SignalUnqueued, States
  <2> QED  BY <1>1, <2>1, <2>2 DEF Final
<1> QED  BY <1>2, <1>3, <1>4, <1>5 DEF ControlNext

LEMMA FinalStep ==
    ASSUME QueuesInvariant, Disciplined, ResultWhenComplete, [Next]_vars
    PROVE  \A t \in Threads : Final(t)
<1>1. CASE UNCHANGED vars
  BY <1>1 DEF vars, threadVars, Final, ResultWhenComplete
<1> QED  BY <1>1, KernelStepFinal, MailboxStepFinal, SyncStepFinal, ControlStepFinal DEF Next

LEMMA ResultInitially == Init => ResultWhenComplete
<1> SUFFICES ASSUME Init, NEW t \in Threads
             PROVE  state[t] # "COMPLETE" /\ frame[t] # "result"
  BY DEF ResultWhenComplete
<1>1. state[t] \in {"WAITING", "SUSPEND"}
  BY DEF Init
<1> QED  BY <1>1 DEF Init

LEMMA ResultKept ==
    ASSUME QueuesInvariant, Disciplined, ResultWhenComplete, [Next]_vars
    PROVE  ResultWhenComplete'
  BY FinalStep DEF Final, ResultWhenComplete

(* A complete thread stays so and keeps its result, whoever halts, resumes *)
(* or signals it, and however it was queued when it was halted             *)
(* (halt-thread, signal-thread and thread-resume in start.scm).            *)
THEOREM EndIsFinal ==
    ASSUME Disciplined
    PROVE  Spec => CompleteIsFinal
<1>1. ASSUME QueuesInvariant, ResultWhenComplete, [Next]_vars
      PROVE  [\A t \in Threads :
                 state[t] = "COMPLETE" =>
                     state'[t] = "COMPLETE" /\ frame'[t] = "result" /\ current' # t]_vars
  <2> SUFFICES ASSUME NEW t \in Threads, state[t] = "COMPLETE"
               PROVE  state'[t] = "COMPLETE" /\ frame'[t] = "result" /\ current' # t
    OBVIOUS
  <2>1. state'[t] = "COMPLETE" /\ frame'[t] = "result"
    BY <1>1, FinalStep DEF Final
  <2>2. current' = t => state'[t] = "RUNNING"
    BY <1>1, BothEnds DEF SlotsAgree
  <2> QED  BY <2>1, <2>2
<1>2. Init => QueuesInvariant /\ ResultWhenComplete
  BY QueuesInitially, ResultInitially
<1>3. QueuesInvariant /\ ResultWhenComplete /\ [Next]_vars
        => (QueuesInvariant /\ ResultWhenComplete)'
  BY QueuesKept, ResultKept
<1> QED  BY <1>1, <1>2, <1>3, PTL DEF Spec, CompleteIsFinal

-----------------------------------------------------------------------------
(* Stacks.                                                                 *)

(* What lies on the stack of t tells what it is blocked on: the frame that *)
(* reads a message is there from the receive until the value is loaded,    *)
(* the one that reads a thread's result from the join on.                  *)
FrameKind(t) ==
    /\ t = current <=> frame[t] = "loaded"
    /\ t = current => got[t] = None
    /\ frame[t] = "receive" => blocked[t] \in Mailboxes \cup {Zero}
    /\ frame[t] = "join" => blocked[t] \in Threads \cup {Zero}
    /\ blocked[t] \in Mailboxes => frame[t] = "receive" /\ got[t] = None
    /\ blocked[t] \in Threads => frame[t] = "join"
    /\ frame[t] = "receive" /\ blocked[t] = Zero => got[t] # None

FrameKinds == \A t \in Threads : FrameKind(t)

(* Steps that leave the stack of t alone: they may unblock it, and must    *)
(* give it a value if it waited for one.                                   *)
LEMMA FrameAlone ==
    ASSUME NEW t \in Threads, FrameKind(t), frame'[t] = frame[t],
           current' = t <=> current = t,
           \/ blocked'[t] = blocked[t] /\ got'[t] = got[t]
           \/ blocked'[t] = Zero /\ got'[t] = got[t] /\ blocked[t] \notin Mailboxes
           \/ blocked'[t] = Zero /\ got'[t] # None /\ t # current
    PROVE  FrameKind(t)'
  BY ObjectsDiffer DEF FrameKind

(* Steps by which the current thread blocks on w, or lets others run.      *)
LEMMA FrameSwitched ==
    ASSUME FrameKinds, current \in Threads, NEW t \in Threads,
           NEW w, NEW k \in {"plain", "receive", "join"}, current' = Zero,
           frame' = [frame EXCEPT ![current] = k], frame \in [Threads -> Frames],
           blocked'[t] = IF t = current THEN w ELSE blocked[t],
           got'[t] = got[t],
           k = "receive" <=> w \in Mailboxes, k = "join" <=> w \in Threads
    PROVE  FrameKind(t)'
<1>1. FrameKind(t) /\ current' # t
  BY ObjectsDiffer DEF FrameKinds
<1>2. CASE t = current
  BY <1>1, <1>2, ObjectsDiffer DEF FrameKind
<1>3. CASE t # current
  <2>1. frame'[t] = frame[t] /\ blocked'[t] = blocked[t]
    BY <1>3
  <2> QED  BY <1>1, <1>3, <2>1, FrameAlone
<1> QED  BY <1>2, <1>3

(* Nobody in a queue of waiters waits for a message.                       *)
LEMMA WaitersPlaced ==
    ASSUME QueuesInvariant, NEW o \in Waitables
    PROVE  \A t \in Range(waitq[o]) : t \in Threads /\ blocked[t] = o /\ t # current
                                      /\ blocked[t] \notin Mailboxes
<1>1. Range(waitq[o]) = InLineFor(o)
  BY WaitableQueues DEF QueuesInvariant, QueuesAgree, IsQueueOf
<1> QED  BY <1>1, ObjectsDiffer DEF InLineFor, Queued

LEMMA SignalledPlaced ==
    ASSUME QueuesInvariant, NEW s \in Semaphores
    PROVE  \A t \in Range(Signalled(s)) : t # current /\ blocked[t] \notin Mailboxes
<1>1. ASSUME NEW x \in Range(Signalled(s)), PopsWaiter(s)
      PROVE  x \in Range(waitq[s])
  <2>1. s \in Waitables /\ waitq[s] \in Seq(Threads) /\ waitq[s] # <<>>
    BY <1>1, ObjectsDiffer DEF ObjectTypeOK, PopsWaiter, QueuesInvariant
  <2>2. 1 \in DOMAIN waitq[s] /\ Head(waitq[s]) = waitq[s][1]
    BY <2>1, HeadTailProperties, LenProperties, EmptySeq
  <2> QED  BY <1>1, <2>2 DEF Signalled, Range
<1>2. ~PopsWaiter(s) => Range(Signalled(s)) = {}
  BY DEF Signalled, Range
<1> QED  BY <1>1, <1>2, WaitersPlaced, ObjectsDiffer

LEMMA KernelStepFrames ==
    ASSUME QueuesInvariant, FrameKinds, KernelNext, NEW t \in Threads
    PROVE  FrameKind(t)'
<1> USE DEF QueuesInvariant, RecordTypeOK, KernelTypeOK
<1>1. FrameKind(t) /\ (Running => current \in Threads) /\ (kernel # "off" => current = Zero)
  BY RunningIsThread DEF FrameKinds
<1>2. CASE Yield
  BY <1>1, <1>2, FrameSwitched, ObjectsDiffer DEF Yield, SwitchOut
<1>3. CASE Sleep
  <2>1. TimeEvent \notin Mailboxes /\ TimeEvent \notin Threads
    BY ObjectsDiffer
  <2> QED  BY <1>1, <1>3, <2>1, FrameSwitched DEF Sleep, Free, Block, SwitchOut
<1>4. ASSUME NEW u \in Threads, TimerFires(u)  PROVE FrameKind(t)'
  <2>1. blocked[u] = TimeEvent
    BY <1>4 DEF TimerFires, QueuesAgree, InLineFor
  <2>2. blocked'[t] = IF t = u THEN Zero ELSE blocked[t]
    BY <1>4 DEF TimerFires
  <2> QED  BY <1>1, <1>4, <2>1, <2>2, FrameAlone, ObjectsDiffer DEF TimerFires
<1>5. CASE EndPoll \/ Idle \/ SkipSuspended
  BY <1>1, <1>5, FrameAlone DEF EndPoll, Idle, SkipSuspended, threadVars
<1>6. CASE Dispatch
  <2>1. PICK i \in DOMAIN runq :
                /\ current' = runq[i]
                /\ frame' = [frame EXCEPT ![runq[i]] = "loaded"]
                /\ got' = [got EXCEPT ![runq[i]] = None]
    BY <1>6 DEF Dispatch
  <2>2. runq[i] \in InLineFor(Zero)
    BY DEF QueuesAgree, IsQueueOf, Range
  <2>3. blocked' = blocked /\ current = Zero
    BY <1>1, <1>6 DEF Dispatch
  <2>4. CASE t = runq[i]
    BY <1>1, <2>1, <2>2, <2>3, <2>4, ObjectsDiffer DEF FrameKind, InLineFor
  <2>5. CASE t # runq[i]
    BY <1>1, <2>1, <2>3, <2>5, FrameAlone, ObjectsDiffer
  <2> QED  BY <2>4, <2>5
<1> QED  BY <1>2, <1>3, <1>4, <1>5, <1>6 DEF KernelNext

LEMMA MailboxStepFrames ==
    ASSUME QueuesInvariant, FrameKinds, MailboxNext, NEW t \in Threads
    PROVE  FrameKind(t)'
<1> USE DEF QueuesInvariant, RecordTypeOK
<1>1. FrameKind(t) /\ (Running => current \in Threads)
  BY RunningIsThread DEF FrameKinds
<1>2. \A m \in Mailboxes : IsWaiting(m) =>
         Range(mboxq[m]) = InLineFor(m) /\ current \notin Range(mboxq[m])
  <2>1. ASSUME NEW m \in Mailboxes, IsWaiting(m)  PROVE Range(mboxq[m]) = InLineFor(m)
    BY <2>1 DEF QueuesAgree, IsQueueOf, QueueOf, Objects
  <2> QED  BY <2>1 DEF InLineFor, Queued
<1>3. ASSUME NEW m \in Mailboxes, NEW front \in BOOLEAN, SendMessage(m, front)
      PROVE  FrameKind(t)'
  <2>1. CASE SendToQueue(m, front) \/ SendPastWaiters(m, front)
    BY <1>1, <1>3, <2>1, FrameAlone DEF SendMessage, SendToQueue, SendPastWaiters, threadVars
  <2>2. CASE SendToWaiter(m)
    <3>1. PICK i \in DOMAIN mboxq[m] :
             /\ blocked' = BlockedReadied(<<mboxq[m][i]>>)
             /\ got' = [got EXCEPT ![mboxq[m][i]] = sent + 1]
      BY <2>2 DEF SendToWaiter
    <3>2. mboxq[m][i] # current /\ UNCHANGED <<frame, current>>
      BY <1>2, <1>3, <2>2 DEF SendToWaiter, SendMessage, Range
    <3>3. sent + 1 # None
      <4>1. sent + 1 \in Nat
        BY DEF ObjectTypeOK
      <4> QED  BY <4>1, DistinctAssumption
    <3>4. t = mboxq[m][i] => blocked'[t] = Zero /\ got'[t] # None
      BY <3>1, <3>3 DEF BlockedReadied, Range
    <3>5. t # mboxq[m][i] => blocked'[t] = blocked[t] /\ got'[t] = got[t]
      BY <3>1 DEF BlockedReadied, Range
    <3> QED  BY <1>1, <3>2, <3>4, <3>5, FrameAlone
  <2> QED  BY <1>3, <2>1, <2>2 DEF SendMessage
<1>4. ASSUME NEW m \in Mailboxes, ReceiveNow(m)  PROVE FrameKind(t)'
  BY <1>1, <1>4, FrameAlone DEF ReceiveNow, threadVars
<1>5. ASSUME NEW m \in Mailboxes, ReceiveBlocks(m)  PROVE FrameKind(t)'
  <2>1. m \notin Threads
    BY ObjectsDiffer
  <2> QED  BY <1>1, <1>5, <2>1, FrameSwitched DEF ReceiveBlocks, Free, Block, SwitchOut
<1>6. ASSUME NEW m \in Mailboxes, CloseMailbox(m)  PROVE FrameKind(t)'
  <2>1. CASE ~IsWaiting(m)
    BY <1>1, <1>6, <2>1, FrameAlone DEF CloseMailbox
  <2>2. CASE IsWaiting(m)
    <3>1. PICK woken \in EligibleOnly(mboxq[m]) :
             /\ blocked' = BlockedReadied(woken)
             /\ got' = [x \in Threads |-> IF x \in Range(woken) THEN NoValue ELSE got[x]]
      BY <1>6, <2>2 DEF CloseMailbox
    <3>2. mboxq[m] \in Seq(Threads) /\ IsInjective(mboxq[m])
      BY <2>2 DEF QueuesAgree, IsQueueOf, QueueOf, Objects, MailboxTypeOK
    <3>3. Range(woken) \subseteq Range(mboxq[m])
      BY <3>2, EligibleQueue DEF IsQueueOf
    <3>4. t \in Range(woken) => t # current /\ blocked'[t] = Zero /\ got'[t] # None
      BY <1>2, <2>2, <3>1, <3>3, DistinctAssumption DEF BlockedReadied
    <3>5. t \notin Range(woken) => blocked'[t] = blocked[t] /\ got'[t] = got[t]
      BY <3>1 DEF BlockedReadied
    <3>6. UNCHANGED <<frame, current>>
      BY <1>6 DEF CloseMailbox
    <3> QED  BY <1>1, <3>4, <3>5, <3>6, FrameAlone
  <2> QED  BY <2>1, <2>2
<1> QED  BY <1>3, <1>4, <1>5, <1>6 DEF MailboxNext

LEMMA SyncStepFrames ==
    ASSUME QueuesInvariant, FrameKinds, SyncNext, NEW t \in Threads
    PROVE  FrameKind(t)'
<1> USE DEF QueuesInvariant, RecordTypeOK
<1>1. FrameKind(t) /\ (Running => current \in Threads)
  BY RunningIsThread DEF FrameKinds
<1>2. ASSUME NEW q, \A x \in Range(q) : blocked[x] \notin Mailboxes,
             blocked' = BlockedReadied(q), UNCHANGED <<frame, got, current>>
      PROVE  FrameKind(t)'
  BY <1>1, <1>2, FrameAlone DEF BlockedReadied
<1>3. ASSUME NEW s \in Semaphores, SemaphoreSignal(s)  PROVE FrameKind(t)'
  BY <1>2, <1>3, SignalledPlaced DEF SemaphoreSignal, MakeReady
<1>4. ASSUME NEW s \in Semaphores, SemaphoreWait(s)  PROVE FrameKind(t)'
  <2>1. s \notin Mailboxes /\ s \notin Threads
    BY DistinctAssumption DEF Waitables
  <2>2. CASE count[s] - 1 < 0
    BY <1>1, <1>4, <2>1, <2>2, FrameSwitched DEF SemaphoreWait, Block, SwitchOut
  <2>3. CASE ~(count[s] - 1 < 0)
    BY <1>1, <1>4, <2>3, FrameAlone DEF SemaphoreWait
  <2> QED  BY <2>2, <2>3
<1>5. ASSUME NEW s \in Semaphores, NEW c \in Conditions, ConditionWait(s, c)
      PROVE  FrameKind(t)'
  <2>1. c \notin Mailboxes /\ c \notin Threads
    BY DistinctAssumption DEF Waitables
  <2>2. blocked' = [BlockedReadied(Signalled(s)) EXCEPT ![current] = c]
        /\ frame' = [frame EXCEPT ![current] = "plain"]
        /\ current' = Zero /\ got' = got /\ current \in Threads
    BY <1>1, <1>5 DEF ConditionWait, SwitchOut, Free
  <2>3. CASE t = current
    <3>1. blocked'[t] = c
      BY <2>2, <2>3 DEF BlockedReadied
    <3> QED  BY <1>1, <2>1, <2>2, <2>3, <3>1, FrameSwitched DEF FrameKinds
  <2>4. CASE t # current
    <3>1. blocked'[t] = BlockedReadied(Signalled(s))[t] /\ frame'[t] = frame[t]
      BY <2>2, <2>4 DEF BlockedReadied
    <3>2. current' # t
      BY <2>2, ObjectsDiffer
    <3> QED  BY <1>1, <2>2, <2>4, <3>1, <3>2, SignalledPlaced, FrameAlone DEF BlockedReadied
  <2> QED  BY <2>3, <2>4
<1>6. ASSUME NEW o \in Conditions \cup Futures, ConditionSignal(o) \/ SetFuture(o)
      PROVE  FrameKind(t)'
  <2>1. o \in Waitables
    BY DEF Waitables
  <2>2. blocked' = BlockedReadied(waitq[o]) /\ UNCHANGED <<frame, got, current>>
    BY <1>6 DEF ConditionSignal, SetFuture, MakeReady
  <2> QED  BY <1>2, <2>1, <2>2, WaitersPlaced
<1>7. ASSUME NEW o \in Futures \cup Processes, Await(o)  PROVE FrameKind(t)'
  <2>1. o \notin Mailboxes /\ o \notin Threads
    BY DistinctAssumption DEF Waitables
  <2> QED  BY <1>1, <1>7, <2>1, FrameSwitched DEF Await, Free, Block, SwitchOut
<1>8. ASSUME NEW p \in Processes, ChildExited(p)  PROVE FrameKind(t)'
  <2>1. p \in Waitables
    BY DEF Waitables
  <2>2. blocked' = BlockedReadied(waitq[p]) /\ UNCHANGED <<frame, got, current>>
    BY <1>8 DEF ChildExited
  <2> QED  BY <1>2, <2>1, <2>2, WaitersPlaced
<1>9. ASSUME NEW u \in Threads, Join(u)  PROVE FrameKind(t)'
  <2>1. u \notin Mailboxes
    BY ObjectsDiffer
  <2> QED  BY <1>1, <1>9, <2>1, FrameSwitched DEF Join, Free, Block, SwitchOut
<1>10. CASE Exit
  <2>1. current \in Threads /\ current \in Waitables /\ current' = Zero /\ got' = got
    BY <1>1, <1>10, ObjectsDiffer DEF Exit, Free, SwitchOut
  <2>2. blocked' = [BlockedReadied(waitq[current]) EXCEPT ![current] = Zero]
        /\ frame' = [frame EXCEPT ![current] = "result"]
    BY <1>10 DEF Exit
  <2>3. CASE t = current
    <3>1. blocked'[t] = Zero /\ frame'[t] = "result" /\ current' # t
      BY <2>1, <2>2, <2>3, ObjectsDiffer DEF BlockedReadied
    <3> QED  BY <3>1, ObjectsDiffer DEF FrameKind
  <2>4. CASE t # current
    <3>1. blocked'[t] = BlockedReadied(waitq[current])[t] /\ frame'[t] = frame[t]
      BY <2>2, <2>4 DEF BlockedReadied
    <3>2. current' # t
      BY <2>1, ObjectsDiffer
    <3> QED  BY <1>1, <2>1, <2>4, <3>1, <3>2, WaitersPlaced, FrameAlone DEF BlockedReadied
  <2> QED  BY <2>3, <2>4
<1> QED  BY <1>3, <1>4, <1>5, <1>6, <1>7, <1>8, <1>9, <1>10 DEF SyncNext

LEMMA ControlStepFrames ==
    ASSUME QueuesInvariant, Disciplined, FrameKinds, ControlNext, NEW t \in Threads
    PROVE  FrameKind(t)'
<1> USE DEF QueuesInvariant, RecordTypeOK
<1>1. FrameKind(t) /\ (Running => current \in Threads)
  BY RunningIsThread DEF FrameKinds
<1>2. ASSUME NEW u \in Threads, Suspend(u)  PROVE FrameKind(t)'
  BY <1>1, <1>2, FrameAlone DEF Suspend
<1>3. ASSUME NEW u \in Threads, Resume(u)  PROVE FrameKind(t)'
  <2>1. UNCHANGED <<frame, current>>
    BY <1>3 DEF Resume
  <2>2. CASE UNCHANGED <<blocked, got>>
    BY <1>1, <2>1, <2>2, FrameAlone
  <2>3. CASE ~UNCHANGED <<blocked, got>>
    <3>1. PICK m \in Mailboxes : m = blocked[u] /\ ~IsWaiting(m) /\ mboxq[m] # <<>>
             /\ blocked' = [blocked EXCEPT ![u] = Zero]
             /\ got' = [got EXCEPT ![u] = Head(mboxq[m])]
      BY <1>3, <2>3 DEF Resume, ResumeOnce, ResumeQueued, ResumeReady, ResumeRequeued, Requeue
    <3>2. mboxq[m] \in Seq(Nat)
      BY <3>1 DEF MailboxTypeOK
    <3>3. Head(mboxq[m]) # None
      BY <3>1, <3>2, HeadTailProperties, DistinctAssumption
    <3>4. u # current
      BY <3>1, ObjectsDiffer DEF SlotsAgree
    <3> QED  BY <1>1, <2>1, <3>1, <3>3, <3>4, FrameAlone
  <2> QED  BY <2>2, <2>3
<1>4. ASSUME NEW u \in Threads, Halt(u)  PROVE FrameKind(t)'
  <2>1. HaltUnqueued(u) /\ u \in Waitables /\ u # current
    BY <1>4, UnqueueFacts, ObjectsDiffer DEF Halt
  <2>2. /\ blocked' = [BlockedReadied(waitq[u]) EXCEPT ![u] = Zero]
        /\ frame' = [frame EXCEPT ![u] = "result"]
        /\ got' = [got EXCEPT ![u] = None] /\ current' = current
    BY <1>4, <2>1 DEF Halt, HaltUnqueued
  <2>3. CASE t = u
    <3>1. blocked'[t] = Zero /\ frame'[t] = "result" /\ current' # t
      BY <2>1, <2>2, <2>3 DEF BlockedReadied
    <3> QED  BY <3>1, ObjectsDiffer DEF FrameKind
  <2>4. CASE t # u
    <3>1. blocked'[t] = BlockedReadied(waitq[u])[t] /\ frame'[t] = frame[t] /\ got'[t] = got[t]
      BY <2>2, <2>4 DEF BlockedReadied
    <3> QED  BY <1>1, <2>1, <2>2, <3>1, WaitersPlaced, FrameAlone DEF BlockedReadied
  <2> QED  BY <2>3, <2>4
<1>5. ASSUME NEW u \in Threads, DeliverSignal(u)  PROVE FrameKind(t)'
  <2>1. SignalUnqueued(u) /\ u # current
    BY <1>5, UnqueueFacts DEF DeliverSignal
  <2>2. /\ blocked' = [blocked EXCEPT ![u] = Zero]
        /\ frame' = [frame EXCEPT ![u] = "signal"]
        /\ got' = [got EXCEPT ![u] = None] /\ current' = current
    BY <1>5, <2>1 DEF DeliverSignal, SignalUnqueued
  <2>3. CASE t = u
    BY <2>1, <2>2, <2>3, ObjectsDiffer DEF FrameKind
  <2>4. CASE t # u
    BY <1>1, <2>2, <2>4, FrameAlone
  <2> QED  BY <2>3, <2>4
<1> QED  BY <1>2, <1>3, <1>4, <1>5 DEF ControlNext

LEMMA FrameKindsKept ==
    ASSUME QueuesInvariant, Disciplined, FrameKinds, [Next]_vars
    PROVE  FrameKinds'
<1>1. CASE UNCHANGED vars
  BY <1>1, FrameAlone DEF FrameKinds, vars, threadVars
<1>2. CASE Next
  BY <1>2, KernelStepFrames, MailboxStepFrames, SyncStepFrames, ControlStepFrames
     DEF Next, FrameKinds
<1> QED  BY <1>1, <1>2

(* What is loaded fits what the thread was promised: a thread in line has  *)
(* a stack, a receiver in line its value, and who waits a frame that the   *)
(* value can be stored in (store_resume_value in synch.c, dispatch_to_thread *)
(* in dispatch.c), whoever is suspended, halted or signalled meanwhile.    *)
THEOREM LoadedFits ==
    ASSUME Disciplined
    PROVE  Spec => []FrameFits
<1> DEFINE Inv == QueuesInvariant /\ ResultWhenComplete /\ FrameKinds
<1>1. Init => Inv
  <2>1. ASSUME Init, NEW t \in Threads  PROVE FrameKind(t)
    BY <2>1, ObjectsDiffer DEF Init, FrameKind
  <2> QED  BY <2>1, QueuesInitially, ResultInitially DEF FrameKinds
<1>2. Inv /\ [Next]_vars => Inv'
  BY QueuesKept, ResultKept, FrameKindsKept
<1>3. Inv => FrameFits
  <2> SUFFICES ASSUME Inv, NEW t \in Threads
               PROVE  /\ t = current <=> frame[t] = "loaded"
                      /\ state[t] = "COMPLETE" <=> frame[t] = "result"
                      /\ blocked[t] \in Mailboxes => frame[t] = "receive" /\ got[t] = None
                      /\ blocked[t] \in Threads <=>
                            frame[t] = "join" /\ t \notin Range(runq) /\ suspend[t] >= 0
                      /\ frame[t] = "receive" /\ blocked[t] = Zero => got[t] # None
    BY DEF FrameFits
  <2>1. FrameKind(t) /\ (state[t] = "COMPLETE" <=> frame[t] = "result")
    BY DEF FrameKinds, ResultWhenComplete
  <2>2. Range(runq) = InLineFor(Zero)
    BY DEF QueuesInvariant, QueuesAgree, IsQueueOf
  <2>3. ASSUME blocked[t] \in Threads
        PROVE  frame[t] = "join" /\ t \notin Range(runq) /\ suspend[t] >= 0
    <3>1. blocked[t] \notin Mailboxes \cup {Zero}
      BY <2>3, ObjectsDiffer
    <3> QED  BY <2>1, <2>2, <2>3, <3>1 DEF FrameKind, InLineFor, QueuesInvariant, SlotsAgree
  <2>4. ASSUME frame[t] = "join", t \notin Range(runq), suspend[t] >= 0
        PROVE  blocked[t] \in Threads
    BY <2>1, <2>2, <2>4 DEF FrameKind, InLineFor, Queued
  <2> QED  BY <2>1, <2>3, <2>4 DEF FrameKind
<1> QED  BY <1>1, <1>2, <1>3, PTL DEF Spec

-----------------------------------------------------------------------------
(* Closed mailboxes.                                                       *)

LEMMA ReopeningStep ==
    ASSUME QueuesInvariant, Disciplined, [Next]_vars, NEW m \in Mailboxes,
           hasData[m] = "closed", hasData'[m] # "closed"
    PROVE  \E t \in Threads : suspend[t] = -1 /\ suspend'[t] = 0 /\ blocked[t] = m
<1> USE DEF QueuesInvariant, MailboxTypeOK
<1>1. ~IsWaiting(m) /\ hasData[m] # "data"
  BY DEF IsWaiting
<1>2. CASE KernelNext \/ SyncNext \/ UNCHANGED vars
  BY <1>2 DEF KernelNext, Yield, Sleep, TimerFires, EndPoll, Dispatch, SkipSuspended, Idle,
              SyncNext, SemaphoreSignal, SemaphoreWait, ConditionWait, ConditionSignal,
              Await, SetFuture, ChildExited, Join, Exit, vars, objectVars
<1>3. CASE MailboxNext
  <2>1. ASSUME NEW n \in Mailboxes, NEW front \in BOOLEAN, SendMessage(n, front)
        PROVE  hasData'[m] = hasData[m]
    BY <1>1, <2>1 DEF SendMessage, SendToQueue, SendToWaiter, SendPastWaiters, Enqueue
  <2>2. ASSUME NEW n \in Mailboxes, ReceiveNow(n) \/ ReceiveBlocks(n) \/ CloseMailbox(n)
        PROVE  hasData'[m] = hasData[m]
    BY <1>1, <2>2 DEF ReceiveNow, ReceiveBlocks, CloseMailbox
  <2> QED  BY <1>3, <2>1, <2>2 DEF MailboxNext
<1>4. ASSUME NEW u \in Threads, Suspend(u)  PROVE FALSE
  BY <1>4 DEF Suspend, objectVars
<1>5. ASSUME NEW u \in Threads, Resume(u)
      PROVE  suspend[u] = -1 /\ suspend'[u] = 0 /\ blocked[u] = m
  <2>1. CASE ResumeOnce(u) \/ ResumeQueued(u) \/ ResumeReady(u)
    BY <2>1 DEF ResumeOnce, ResumeQueued, ResumeReady
  <2>2. CASE ResumeRequeued(u)
    <3>1. suspend[u] = -1 /\ suspend'[u] = 0
      BY <1>5, <2>2 DEF Resume, ResumeRequeued, Nearer, RecordTypeOK
    <3>2. blocked[u] = m
      BY <2>2 DEF ResumeRequeued, Requeue
    <3> QED  BY <3>1, <3>2
  <2> QED  BY <1>5, <2>1, <2>2 DEF Resume
<1>6. ASSUME NEW u \in Threads, Halt(u) \/ DeliverSignal(u)  PROVE FALSE
  <2>1. (TakenFromQueue(u) <=> Queued(u)) /\ ~NoQueueCase(u)
    BY <1>6, UnqueueFacts DEF Halt, DeliverSignal
  <2>2. hasData' = HasDataWithout(u)
    BY <1>6, <2>1 DEF Halt, HaltUnqueued, DeliverSignal, SignalUnqueued, LeaveObjects
  <2>3. blocked[u] = m
    BY <2>2 DEF HasDataWithout
  <2>4. u \in InLineFor(m)
    BY <2>1, <2>3, ObjectsDiffer DEF TakenFromQueue, InLineFor
  <2>5. Range(QueueOf(m)) = InLineFor(m) /\ QueueOf(m) = <<>>
    BY <1>1 DEF QueuesAgree, IsQueueOf, QueueOf, Objects
  <2> QED  BY <2>4, <2>5 DEF Range
<1> QED  BY <1>2, <1>3, <1>4, <1>5, <1>6 DEF Next, ControlNext

(* As long as nobody halts or signals a thread that was taken off a        *)
(* mailbox while it was suspended (Disciplined), only the resumption of    *)
(* such a thread opens a closed mailbox again (requeue).  A halt or signal *)
(* of it does too, and the theorem does not cover it                       *)
(* (kthread_unqueue_suspend, synch.c:252); those of a waiter that is still *)
(* in the dequeue do not, because a closed mailbox has none.               *)
THEOREM OnlyStragglersReopen ==
    ASSUME Disciplined
    PROVE  Spec => ReopenedByStragglers
<1>1. ASSUME QueuesInvariant, [Next]_vars
      PROVE  [\A m \in Mailboxes :
                 hasData[m] = "closed" /\ hasData'[m] # "closed" =>
                     \E t \in Threads :
                         suspend[t] = -1 /\ suspend'[t] = 0 /\ blocked[t] = m]_vars
  BY <1>1, ReopeningStep
<1> QED  BY <1>1, QueuesCorrect, PTL DEF Spec, ReopenedByStragglers

-----------------------------------------------------------------------------
(* Wakeups.                                                                *)

(* What a thread can wait for that happens once and for all.               *)
OneTime == Futures \cup Processes \cup Threads

Happened(o) == o \in settled \/ (o \in Threads /\ state[o] = "COMPLETE")

(* Nobody waits for what has happened.                                     *)
NoneTooLate == \A t \in Threads : \A o \in OneTime : blocked[t] = o => ~Happened(o)

WaitersThere == \A m \in Mailboxes : IsWaiting(m) => mboxq[m] # <<>>

(* Whoever is blocked on such an object is on its list.                    *)
LEMMA BlockedInLine ==
    ASSUME QueuesInvariant, NEW o \in OneTime, NEW t \in Threads, blocked[t] = o
    PROVE  o \in Waitables /\ t \in Range(waitq[o])
<1> USE DEF QueuesInvariant
<1>1. o \in Waitables /\ o \notin Mailboxes \cup {Zero}
  BY ObjectsDiffer DEF OneTime, Waitables, Objects
<1>2. suspend[t] >= 0 /\ state[t] # "COMPLETE" /\ t # current
  BY <1>1 DEF SlotsAgree
<1>3. t \in InLineFor(o)
  BY <1>2 DEF InLineFor, Queued
<1> QED  BY <1>1, <1>3, WaitableQueues DEF QueuesAgree, IsQueueOf

(* A thread becomes complete by its own end or by a halt.                  *)
LEMMA NewlyComplete ==
    ASSUME QueuesInvariant, Disciplined, ResultWhenComplete, [Next]_vars,
           NEW u \in Threads, state[u] # "COMPLETE", state'[u] = "COMPLETE"
    PROVE  (Exit /\ u = current) \/ Halt(u)
<1> USE DEF QueuesInvariant, RecordTypeOK
<1>1. frame[u] # "result" /\ frame'[u] = "result"
  BY FinalStep DEF Final, ResultWhenComplete
<1>2. CASE KernelNext \/ UNCHANGED vars
  BY <1>1, <1>2 DEF KernelNext, Yield, Sleep, Block, TimerFires, EndPoll, Dispatch,
                    SkipSuspended, Idle, vars, threadVars
<1>3. CASE MailboxNext
  BY <1>1, <1>3 DEF MailboxNext, SendMessage, SendToQueue, SendToWaiter, SendPastWaiters,
                    ReceiveNow, ReceiveBlocks, CloseMailbox, Block, threadVars
<1>4. CASE SyncNext
  <2>1. ~Exit => frame'[u] # "result"
    BY <1>1, <1>4 DEF SyncNext, SemaphoreSignal, SemaphoreWait, ConditionWait,
                      ConditionSignal, Await, SetFuture, ChildExited, Join, Block
  <2> QED  BY <1>1, <2>1 DEF Exit
<1>5. ASSUME NEW x \in Threads, Suspend(x) \/ Resume(x) \/ DeliverSignal(x)
      PROVE  FALSE
  BY <1>1, <1>5 DEF Suspend, Resume, DeliverSignal
<1>6. ASSUME NEW x \in Threads, Halt(x)  PROVE x = u
  BY <1>1, <1>6 DEF Halt
<1> QED  BY <1>2, <1>3, <1>4, <1>5, <1>6 DEF Next, ControlNext

(* krelease_joiners.                                                       *)
LEMMA JoinersReleased ==
    ASSUME QueuesInvariant, Disciplined, NEW u \in Threads,
           (Exit /\ u = current) \/ Halt(u), NEW t \in Threads
    PROVE  blocked'[t] # u
<1> USE DEF QueuesInvariant, RecordTypeOK
<1>1. blocked' = [BlockedReadied(waitq[u]) EXCEPT ![u] = Zero]
  <2>1. Halt(u) => HaltUnqueued(u)
    BY UnqueueFacts DEF Halt
  <2> QED  BY <2>1 DEF Exit, HaltUnqueued
<1>2. blocked[t] = u => t \in Range(waitq[u])
  BY BlockedInLine DEF OneTime
<1> QED  BY <1>1, <1>2, ObjectsDiffer DEF BlockedReadied

(* A thread starts to wait for what has not happened.                      *)
LEMMA NewlyBlocked ==
    ASSUME QueuesInvariant, Disciplined, [Next]_vars,
           NEW t \in Threads, NEW o \in OneTime, blocked[t] # o, blocked'[t] = o
    PROVE  ~Happened(o) /\ ~Happened(o)'
<1> USE DEF QueuesInvariant, RecordTypeOK
<1>1. /\ o \notin {Zero, TimeEvent} \cup Mailboxes \cup Semaphores \cup Conditions
      /\ Threads \cap (Futures \cup Processes) = {}
  BY DistinctAssumption DEF OneTime, Waitables
<1>2. CASE KernelNext \/ UNCHANGED vars
  BY <1>1, <1>2 DEF KernelNext, Yield, Sleep, Block, TimerFires, EndPoll, Dispatch,
                    SkipSuspended, Idle, vars, threadVars
<1>3. CASE MailboxNext
  BY <1>1, <1>3, ZenonT(60)
     DEF MailboxNext, SendMessage, SendToQueue, SendToWaiter, SendPastWaiters,
         ReceiveNow, ReceiveBlocks, CloseMailbox, Block, BlockedReadied, threadVars
<1>4. ASSUME NEW x \in Futures \cup Processes, Await(x)
      PROVE  ~Happened(o) /\ ~Happened(o)'
  <2>1. o = x
    BY <1>1, <1>4 DEF Await, Block
  <2> QED  BY <1>1, <1>4, <2>1 DEF Await, Happened
<1>5. ASSUME NEW x \in Threads, Join(x)
      PROVE  ~Happened(o) /\ ~Happened(o)'
  <2>1. o = x
    BY <1>1, <1>5 DEF Join, Block
  <2>2. o \notin settled /\ settled' = settled
    BY <1>1, <1>5, <2>1 DEF Join, ObjectTypeOK
  <2>3. state[o] # "COMPLETE" /\ state'[o] # "COMPLETE"
    BY <1>5, <2>1 DEF Join, Block
  <2> QED  BY <2>2, <2>3 DEF Happened
<1>6. ASSUME NEW s \in Semaphores,
             \/ SemaphoreSignal(s) \/ SemaphoreWait(s)
             \/ \E c \in Conditions : ConditionWait(s, c)
      PROVE  FALSE
  BY <1>1, <1>6 DEF SemaphoreSignal, SemaphoreWait, ConditionWait, Block, MakeReady,
                    BlockedReadied
<1>7. ASSUME NEW x, ConditionSignal(x) \/ SetFuture(x) \/ ChildExited(x) \/ Exit
      PROVE  FALSE
  BY <1>1, <1>7 DEF ConditionSignal, SetFuture, ChildExited, Exit, MakeReady, BlockedReadied
<1>8. CASE SyncNext
  BY <1>4, <1>5, <1>6, <1>7, <1>8 DEF SyncNext
<1>9. CASE ControlNext
  <2>1. ASSUME NEW u \in Threads, Halt(u)  PROVE FALSE
    BY <1>1, <2>1 DEF Halt, HaltAbandoned, HaltUnqueued, BlockedReadied
  <2>2. ASSUME NEW u \in Threads, Suspend(u) \/ Resume(u) \/ DeliverSignal(u)  PROVE FALSE
    BY <1>1, <2>2 DEF Suspend, Resume, ResumeOnce, ResumeQueued, ResumeReady,
                      ResumeRequeued, Requeue, DeliverSignal, SignalUnqueued
  <2> QED  BY <1>9, <2>1, <2>2 DEF ControlNext
<1> QED  BY <1>2, <1>3, <1>8, <1>9 DEF Next

(* What happens finds nobody left who waits for it.                        *)
LEMMA NewlyHappened ==
    ASSUME QueuesInvariant, Disciplined, ResultWhenComplete, [Next]_vars,
           NEW o \in OneTime, ~Happened(o), Happened(o)', NEW t \in Threads, blocked[t] = o
    PROVE  blocked'[t] # o
<1> USE DEF QueuesInvariant
<1>1. CASE o \in Threads /\ state'[o] = "COMPLETE"
  <2>1. state[o] # "COMPLETE"
    BY <1>1 DEF Happened
  <2> QED  BY <1>1, <2>1, NewlyComplete, JoinersReleased
<1>2. CASE o \in settled'
  <2>1. o \notin settled
    BY DEF Happened
  <2>2. SetFuture(o) \/ ChildExited(o)
    <3>1. settled' # settled
      BY <1>2, <2>1
    <3>2. CASE KernelNext
      BY <3>1, <3>2
         DEF KernelNext, Yield, Sleep, TimerFires, EndPoll, Dispatch, SkipSuspended, Idle,
             objectVars
    <3>3. CASE MailboxNext
      BY <3>1, <3>3
         DEF MailboxNext, SendMessage, ReceiveNow, ReceiveBlocks, CloseMailbox, objectVars
    <3>4. ASSUME NEW x, SemaphoreSignal(x) \/ SemaphoreWait(x) \/ ConditionSignal(x)
                        \/ Await(x) \/ Join(x) \/ Exit
          PROVE  FALSE
      BY <3>1, <3>4 DEF SemaphoreSignal, SemaphoreWait, ConditionSignal, Await, Join, Exit
    <3>5. ASSUME NEW x, NEW y, ConditionWait(x, y)  PROVE FALSE
      BY <3>1, <3>5 DEF ConditionWait
    <3>6. ASSUME NEW x, SetFuture(x) \/ ChildExited(x)  PROVE x = o
      BY <1>2, <2>1, <3>6 DEF SetFuture, ChildExited
    <3>7. CASE SyncNext
      BY <3>4, <3>5, <3>6, <3>7 DEF SyncNext
    <3>8. CASE ControlNext
      <4>1. ASSUME NEW u \in Threads, Suspend(u) \/ DeliverSignal(u)  PROVE FALSE
        BY <3>1, <4>1 DEF Suspend, DeliverSignal, SignalUnqueued, LeaveObjects, objectVars
      <4>2. ASSUME NEW u \in Threads, Resume(u)  PROVE FALSE
        BY <3>1, <4>2 DEF Resume, ResumeOnce, ResumeQueued, ResumeReady, ResumeRequeued, Requeue
      <4>3. ASSUME NEW u \in Threads, Halt(u)  PROVE FALSE
        BY <3>1, <4>3 DEF Halt, HaltAbandoned, HaltUnqueued, LeaveObjects
      <4> QED  BY <3>8, <4>1, <4>2, <4>3 DEF ControlNext
    <3> QED  BY <3>1, <3>2, <3>3, <3>7, <3>8 DEF Next, vars, objectVars
  <2>3. blocked' = BlockedReadied(waitq[o])
    BY <2>2 DEF SetFuture, ChildExited, MakeReady
  <2>4. t \in Range(waitq[o]) /\ o # Zero
    BY BlockedInLine, ObjectsDiffer DEF Objects
  <2> QED  BY <2>3, <2>4 DEF BlockedReadied
<1> QED  BY <1>1, <1>2 DEF Happened

LEMMA NoneTooLateKept ==
    ASSUME QueuesInvariant, Disciplined, ResultWhenComplete, NoneTooLate, [Next]_vars
    PROVE  NoneTooLate'
<1> SUFFICES ASSUME NEW t \in Threads, NEW o \in OneTime, blocked'[t] = o
             PROVE  ~Happened(o)'
  BY DEF NoneTooLate
<1>1. CASE blocked[t] = o
  BY <1>1, NewlyHappened DEF NoneTooLate
<1>2. CASE blocked[t] # o
  BY <1>2, NewlyBlocked
<1> QED  BY <1>1, <1>2

(* A dequeue that has taken something is not empty.                        *)
LEMMA SomeoneThere ==
    ASSUME NEW S, NEW q \in Seq(S), NEW x
    PROVE  Append(q, x) # <<>>
<1>1. q \in Seq(S \cup {x}) /\ x \in S \cup {x}
  <2>1. S \subseteq S \cup {x}
    OBVIOUS
  <2>2. Len(q) \in Nat /\ \A i \in 1..Len(q) : q[i] \in S
    BY ElementOfSeq, LenProperties
  <2> QED  BY <2>1, <2>2, SeqDef, LenProperties
<1>2. Len(Append(q, x)) = Len(q) + 1 /\ Len(q) \in Nat
  BY <1>1, AppendProperties, LenProperties
<1> QED  BY <1>2, EmptySeq

(* has-data? never says that there are waiters when there are none: with   *)
(* the last of them it becomes #t.                                         *)
LEMMA WaitersThereKept ==
    ASSUME QueuesInvariant, Disciplined, WaitersThere, [Next]_vars
    PROVE  WaitersThere'
<1> USE DEF QueuesInvariant, MailboxTypeOK, IsWaiting
<1> SUFFICES ASSUME NEW m \in Mailboxes, hasData'[m] = "waiters"
             PROVE  mboxq'[m] # <<>>
  BY DEF WaitersThere
<1>1. /\ hasData[m] = "waiters" => mboxq[m] # <<>>
      /\ \A n \in Mailboxes : \A x : Append(mboxq[n], x) # <<>>
  BY SomeoneThere DEF WaitersThere
<1>2. CASE KernelNext \/ SyncNext \/ UNCHANGED vars
  <2>1. UNCHANGED <<mboxq, hasData>>
    BY <1>2 DEF KernelNext, Yield, Sleep, TimerFires, EndPoll, Dispatch, SkipSuspended, Idle,
                SyncNext, SemaphoreSignal, SemaphoreWait, ConditionWait, ConditionSignal,
                Await, SetFuture, ChildExited, Join, Exit, vars, objectVars
  <2> QED  BY <1>1, <2>1
<1>3. ASSUME NEW n \in Mailboxes, NEW front \in BOOLEAN, SendMessage(n, front)
      PROVE  mboxq'[m] # <<>>
  <2>1. CASE SendToQueue(n, front) \/ SendPastWaiters(n, front)
    BY <1>1, <2>1 DEF SendToQueue, SendPastWaiters, Enqueue
  <2>2. CASE SendToWaiter(n)
    BY <1>1, <2>2 DEF SendToWaiter
  <2> QED  BY <1>3, <2>1, <2>2 DEF SendMessage
<1>4. ASSUME NEW n \in Mailboxes, ReceiveNow(n) \/ ReceiveBlocks(n) \/ CloseMailbox(n)
      PROVE  mboxq'[m] # <<>>
  BY <1>1, <1>4 DEF ReceiveNow, ReceiveBlocks, CloseMailbox
<1>5. ASSUME NEW u \in Threads, Suspend(u)  PROVE mboxq'[m] # <<>>
  BY <1>1, <1>5 DEF Suspend, objectVars
<1>6. ASSUME NEW u \in Threads, Resume(u)  PROVE mboxq'[m] # <<>>
  <2>1. UNCHANGED <<mboxq, hasData>> \/ \E n \in Mailboxes : Requeue(u, n)
    BY <1>6 DEF Resume, ResumeOnce, ResumeQueued, ResumeReady, ResumeRequeued
  <2>2. ASSUME NEW n \in Mailboxes, Requeue(u, n)  PROVE mboxq'[m] # <<>>
    BY <1>1, <2>2 DEF Requeue
  <2> QED  BY <1>1, <2>1, <2>2
<1>7. ASSUME NEW u \in Threads, Halt(u) \/ DeliverSignal(u)  PROVE mboxq'[m] # <<>>
  <2>1. ~NoQueueCase(u)
    BY <1>7, UnqueueFacts DEF Halt, DeliverSignal
  <2>2. hasData' = HasDataWithout(u) /\ mboxq' = MboxqWithout(u)
    BY <1>7, <2>1 DEF Halt, HaltUnqueued, DeliverSignal, SignalUnqueued, LeaveObjects
  <2>3. blocked[u] # m => MboxqWithout(u)[m] = mboxq[m]
    BY DEF MboxqWithout
  <2> QED  BY <1>1, <2>2, <2>3 DEF HasDataWithout
<1> QED  BY <1>2, <1>3, <1>4, <1>5, <1>6, <1>7 DEF Next, MailboxNext, ControlNext

(* Nobody is left waiting for what has already happened: krelease_joiners, *)
(* set-future-values! and do-child-exited find everybody who waits, for a  *)
(* waiter that was suspended, signalled or halted meanwhile is either on   *)
(* the list or no longer blocked; a mailbox is said to have waiters when   *)
(* it has, and to have none when nobody that can run waits.                *)
THEOREM WakeupsNotLost ==
    ASSUME Disciplined
    PROVE  Spec => []NoLostWakeup
<1> DEFINE Inv == QueuesInvariant /\ ResultWhenComplete /\ NoneTooLate /\ WaitersThere
<1>1. Init => Inv
  <2>1. Init => NoneTooLate
    <3>1. Zero \notin OneTime
      BY ObjectsDiffer DEF OneTime, Objects, Waitables
    <3> QED  BY <3>1 DEF Init, NoneTooLate
  <2>2. Init => WaitersThere
    BY DEF Init, WaitersThere, IsWaiting
  <2> QED  BY <2>1, <2>2, QueuesInitially, ResultInitially
<1>2. Inv /\ [Next]_vars => Inv'
  BY QueuesKept, ResultKept, NoneTooLateKept, WaitersThereKept
<1>3. Inv => NoLostWakeup
  <2> SUFFICES ASSUME Inv  PROVE NoLostWakeup
    OBVIOUS
  <2>1. \A t, u \in Threads : blocked[t] = u => state[u] # "COMPLETE"
    BY DEF NoneTooLate, OneTime, Happened
  <2>2. \A t \in Threads : blocked[t] \notin settled
    BY DEF NoneTooLate, OneTime, Happened, QueuesInvariant, ObjectTypeOK
  <2>3. ASSUME NEW t \in Threads, NEW m \in Mailboxes, blocked[t] = m, suspend[t] >= 0
        PROVE  IsWaiting(m)
    <3>1. m # Zero
      BY ObjectsDiffer
    <3>2. t # current /\ state[t] # "COMPLETE"
      BY <2>3, <3>1 DEF QueuesInvariant, SlotsAgree
    <3>3. t \in Range(QueueOf(m))
      BY <2>3, <3>2 DEF QueuesInvariant, QueuesAgree, IsQueueOf, InLineFor, Queued, Objects
    <3> QED  BY <3>3 DEF QueueOf, Range
  <2> HIDE DEF Inv
  <2>4. \A m \in Mailboxes : IsWaiting(m) => mboxq[m] # <<>>
    BY DEF Inv, WaitersThere
  <2> QED  BY <2>1, <2>2, <2>3, <2>4 DEF NoLostWakeup
<1> QED  BY <1>1, <1>2, <1>3, PTL DEF Spec

-----------------------------------------------------------------------------
(* Assertions.                                                             *)

(* Nobody goes beyond the discipline, not even to suspend waiters.         *)
Strict == Liberties = {}

(* What the asserts rely on, of one thread: a waiter that will be woken    *)
(* without a look at its count is not suspended, and the state of a        *)
(* blocked thread is that of its object, or SUSPEND.                       *)
Fits(t) ==
    /\ blocked[t] \in Waitables => suspend[t] = 0
    /\ blocked[t] = TimeEvent => state[t] \in {"SUSPEND", "SLEEPING"}
    /\ blocked[t] \in Objects => state[t] \in {"SUSPEND", "BLOCKED"}

AllFit == \A t \in Threads : Fits(t)

(* Steps that leave t blocked where it is, or unblock it.                  *)
LEMMA FitsAlone ==
    ASSUME NEW t, Fits(t),
           \/ blocked'[t] = Zero
           \/ /\ blocked'[t] = blocked[t]
              /\ state'[t] \in {state[t], "SUSPEND"}
              /\ suspend'[t] \in {suspend[t], 0 - suspend[t]}
    PROVE  Fits(t)'
  BY ObjectsDiffer DEF Fits, Objects

(* Steps by which the current thread blocks.                               *)
LEMMA FitsBlocked ==
    ASSUME TypeOK, SlotsAgree, Running, NEW t \in Threads, Fits(t), UNCHANGED suspend,
           NEW o \in Objects,
           blocked' = [blocked EXCEPT ![current] = o],
           state' = [state EXCEPT ![current] = "BLOCKED"]
    PROVE  Fits(t)'
<1> USE DEF RecordTypeOK
<1>1. CASE t = current
  BY <1>1, RunningSlots, ObjectsDiffer DEF Fits
<1>2. CASE t # current
  BY <1>2, FitsAlone
<1> QED  BY <1>1, <1>2

(* Steps that ready the threads of q.                                      *)
LEMMA FitsReadied ==
    ASSUME NEW q, NEW t \in Threads, Fits(t),
           state' = StateReadied(q), blocked' = BlockedReadied(q),
           suspend'[t] \in {suspend[t], 0 - suspend[t]}
    PROVE  Fits(t)'
  BY FitsAlone DEF StateReadied, BlockedReadied

LEMMA KernelStepFits ==
    ASSUME QueuesInvariant, AllFit, KernelNext, NEW t \in Threads
    PROVE  Fits(t)'
<1> USE DEF QueuesInvariant, RecordTypeOK, KernelTypeOK
<1>1. Fits(t)
  BY DEF AllFit
<1>2. Running => current \in Threads /\ suspend[current] = 0
  BY RunningSlots
<1>3. CASE Yield
  BY <1>1, <1>2, <1>3, FitsAlone DEF Yield
<1>4. CASE Sleep
  <2>1. t # current => Fits(t)'
    BY <1>1, <1>4, FitsAlone DEF Sleep, Block
  <2>2. t = current => blocked'[t] = TimeEvent /\ state'[t] = "SLEEPING"
    BY <1>4 DEF Sleep, Block
  <2> QED  BY <2>1, <2>2, ObjectsDiffer DEF Fits, Objects
<1>5. ASSUME NEW u \in Threads, TimerFires(u)  PROVE Fits(t)'
  BY <1>1, <1>5, FitsAlone DEF TimerFires, Negated
<1>6. CASE EndPoll \/ Idle
  BY <1>1, <1>6, FitsAlone DEF EndPoll, Idle, threadVars
<1>7. CASE Dispatch \/ SkipSuspended
  <2>1. PICK i \in DOMAIN runq :
           \/ UNCHANGED suspend /\ state' = [state EXCEPT ![runq[i]] = "RUNNING"]
           \/ suspend' = Negated(runq[i]) /\ UNCHANGED state
    BY <1>7 DEF Dispatch, SkipSuspended
  <2>2. blocked' = blocked
    BY <1>7 DEF Dispatch, SkipSuspended
  <2>3. runq[i] \in InLineFor(Zero)
    BY DEF QueuesAgree, IsQueueOf, Range
  <2>4. CASE t = runq[i]
    BY <1>1, <2>2, <2>3, <2>4, FitsAlone DEF InLineFor
  <2>5. CASE t # runq[i]
    BY <1>1, <2>1, <2>2, <2>5, FitsAlone DEF Negated
  <2> QED  BY <2>4, <2>5
<1> QED  BY <1>3, <1>4, <1>5, <1>6, <1>7 DEF KernelNext

LEMMA MailboxStepFits ==
    ASSUME QueuesInvariant, AllFit, MailboxNext, NEW t \in Threads
    PROVE  Fits(t)'
<1> USE DEF QueuesInvariant, RecordTypeOK
<1>1. Fits(t)
  BY DEF AllFit
<1>2. ASSUME NEW S, PassOver(S)  PROVE suspend'[t] \in {suspend[t], 0 - suspend[t]}
  BY <1>2 DEF PassOver
<1>3. ASSUME NEW m \in Mailboxes, NEW front \in BOOLEAN, SendMessage(m, front)
      PROVE  Fits(t)'
  <2>1. CASE SendToQueue(m, front) \/ SendPastWaiters(m, front)
    BY <1>1, <1>2, <2>1, FitsAlone DEF SendToQueue, SendPastWaiters, threadVars
  <2>2. CASE SendToWaiter(m)
    BY <1>1, <1>2, <2>2, FitsReadied DEF SendToWaiter
  <2> QED  BY <1>3, <2>1, <2>2 DEF SendMessage
<1>4. ASSUME NEW m \in Mailboxes, ReceiveNow(m)  PROVE Fits(t)'
  BY <1>1, <1>4, FitsAlone DEF ReceiveNow, threadVars
<1>5. ASSUME NEW m \in Mailboxes, ReceiveBlocks(m)  PROVE Fits(t)'
  BY <1>1, <1>5, FitsBlocked DEF ReceiveBlocks, Free, Block, Objects
<1>6. ASSUME NEW m \in Mailboxes, CloseMailbox(m)  PROVE Fits(t)'
  <2>1. CASE ~IsWaiting(m)
    BY <1>1, <1>6, <2>1, FitsAlone DEF CloseMailbox
  <2>2. CASE IsWaiting(m)
    BY <1>1, <1>2, <1>6, <2>2, FitsReadied DEF CloseMailbox
  <2> QED  BY <2>1, <2>2
<1> QED  BY <1>3, <1>4, <1>5, <1>6 DEF MailboxNext

LEMMA SyncStepFits ==
    ASSUME QueuesInvariant, AllFit, SyncNext, NEW t \in Threads
    PROVE  Fits(t)'
<1> USE DEF QueuesInvariant, RecordTypeOK
<1>1. Fits(t) /\ suspend'[t] = suspend[t]
  BY DEF AllFit, SyncNext, SemaphoreSignal, SemaphoreWait, ConditionWait, ConditionSignal,
         Await, SetFuture, ChildExited, Join, Exit
<1>2. Running => current \in Threads /\ suspend[current] = 0
  BY RunningSlots
<1>3. ASSUME NEW q, MakeReady(q)  PROVE Fits(t)'
  BY <1>1, <1>3, FitsReadied DEF MakeReady
<1>4. ASSUME NEW s \in Semaphores, SemaphoreWait(s)  PROVE Fits(t)'
  <2>1. CASE count[s] - 1 < 0
    BY <1>1, <1>4, <2>1, FitsBlocked DEF SemaphoreWait, Block, Objects, Waitables
  <2>2. CASE ~(count[s] - 1 < 0)
    BY <1>1, <1>4, <2>2, FitsAlone DEF SemaphoreWait
  <2> QED  BY <2>1, <2>2
<1>5. ASSUME NEW s \in Semaphores, NEW c \in Conditions, ConditionWait(s, c)
      PROVE  Fits(t)'
  <2>1. CASE t = current
    BY <1>1, <1>2, <1>5, <2>1, ObjectsDiffer
       DEF ConditionWait, Free, StateReadied, BlockedReadied, Fits, Objects, Waitables
  <2>2. CASE t # current
    BY <1>1, <1>5, <2>2, FitsAlone DEF ConditionWait, StateReadied, BlockedReadied
  <2> QED  BY <2>1, <2>2
<1>6. ASSUME NEW o \in Futures \cup Processes, Await(o)  PROVE Fits(t)'
  BY <1>1, <1>6, FitsBlocked DEF Await, Free, Block, Objects, Waitables
<1>7. ASSUME NEW u \in Threads, Join(u)  PROVE Fits(t)'
  BY <1>1, <1>7, FitsBlocked DEF Join, Free, Block, Objects, Waitables
<1>8. ASSUME NEW p \in Processes, ChildExited(p)  PROVE Fits(t)'
  <2>1. PICK woken \in EligibleOnly(waitq[p]) : state' = StateReadied(woken)
    BY <1>8 DEF ChildExited
  <2>2. blocked' = BlockedReadied(waitq[p])
    BY <1>8 DEF ChildExited
  <2>3. p \in Waitables
    BY DEF Waitables
  <2>4. waitq[p] \in Seq(Threads) /\ IsInjective(waitq[p])
    BY <2>3, WaitableQueues DEF QueuesAgree, IsQueueOf, ObjectTypeOK
  <2>5. Range(woken) \subseteq Range(waitq[p])
    BY <2>4, EligibleQueue DEF IsQueueOf
  <2> QED  BY <1>1, <2>1, <2>2, <2>5, FitsAlone DEF StateReadied, BlockedReadied
<1>9. ASSUME Exit  PROVE Fits(t)'
  BY <1>1, <1>2, <1>9, FitsAlone DEF Exit, Free, StateReadied, BlockedReadied
<1>10. ASSUME NEW x, SemaphoreSignal(x) \/ ConditionSignal(x) \/ SetFuture(x)
       PROVE  Fits(t)'
  BY <1>3, <1>10 DEF SemaphoreSignal, ConditionSignal, SetFuture
<1> QED  BY <1>4, <1>5, <1>6, <1>7, <1>8, <1>9, <1>10 DEF SyncNext

LEMMA ControlStepFits ==
    ASSUME QueuesInvariant, Strict, AllFit, ControlNext, NEW t \in Threads
    PROVE  Fits(t)'
<1> USE DEF QueuesInvariant, RecordTypeOK
<1>1. Fits(t)
  BY DEF AllFit
<1>2. ASSUME NEW u \in Threads, Suspend(u)  PROVE Fits(t)'
  <2>1. CASE t = u
    <3>1. blocked[t] \notin Waitables
      BY <1>2, <2>1 DEF Suspend, SuspendAllowed, Strict
    <3>2. state'[t] \in {state[t], "SUSPEND"} /\ blocked'[t] = blocked[t]
      BY <1>2, <2>1 DEF Suspend
    <3> QED  BY <1>1, <3>1, <3>2 DEF Fits
  <2>2. CASE t # u
    BY <1>1, <1>2, <2>2, FitsAlone DEF Suspend
  <2> QED  BY <2>1, <2>2
<1>3. ASSUME NEW u \in Threads, Resume(u)  PROVE Fits(t)'
  <2>1. \A m \in Mailboxes : Requeue(u, m) =>
           \/ blocked' = [blocked EXCEPT ![u] = Zero]
                /\ state' = [state EXCEPT ![u] = "WAITING"]
           \/ blocked' = blocked /\ state' = [state EXCEPT ![u] = "BLOCKED"]
    BY DEF Requeue
  <2>2. /\ suspend' = [suspend EXCEPT ![u] = Nearer(@)] /\ suspend[u] # 0
        /\ \/ blocked' = blocked /\ state' = state
           \/ blocked' = blocked /\ blocked[u] = TimeEvent
                /\ state' = [state EXCEPT ![u] = "SLEEPING"]
           \/ blocked' = blocked /\ blocked[u] = Zero
                /\ state' = [state EXCEPT ![u] = "WAITING"]
           \/ blocked[u] \in Mailboxes /\ Requeue(u, blocked[u])
    BY <1>3 DEF Resume, ResumeOnce, ResumeQueued, ResumeReady, ResumeRequeued
  <2>3. CASE t # u
    BY <1>1, <2>1, <2>2, <2>3, FitsAlone
  <2>4. CASE t = u
    <3>1. blocked[t] \notin Waitables
      BY <1>1, <2>2, <2>4 DEF Fits
    <3> QED  BY <1>1, <2>1, <2>2, <2>4, <3>1, ObjectsDiffer DEF Fits, Objects
  <2> QED  BY <2>3, <2>4
<1>4. ASSUME NEW u \in Threads, Halt(u) \/ DeliverSignal(u)  PROVE Fits(t)'
  <2>1. ~NoQueueCase(u)
    BY <1>4, UnqueueFacts DEF Halt, DeliverSignal, Strict, Disciplined
  <2>2. CASE Halt(u)
    <3>1. /\ state' = [StateReadied(waitq[u]) EXCEPT ![u] = "COMPLETE"]
          /\ blocked' = [BlockedReadied(waitq[u]) EXCEPT ![u] = Zero]
          /\ suspend' = [suspend EXCEPT ![u] = SuspendUnqueued(u)]
      BY <2>1, <2>2 DEF Halt, HaltUnqueued
    <3>2. t = u => blocked'[t] = Zero
      BY <3>1 DEF BlockedReadied
    <3>3. t # u => suspend'[t] = suspend[t]
                   /\ state'[t] = StateReadied(waitq[u])[t]
                   /\ blocked'[t] = BlockedReadied(waitq[u])[t]
      BY <3>1 DEF StateReadied, BlockedReadied
    <3> QED  BY <1>1, <3>2, <3>3, FitsAlone DEF StateReadied, BlockedReadied
  <2>3. CASE DeliverSignal(u)
    BY <1>1, <2>1, <2>3, FitsAlone DEF DeliverSignal, SignalUnqueued
  <2> QED  BY <1>4, <2>2, <2>3
<1> QED  BY <1>2, <1>3, <1>4 DEF ControlNext

(* Who is made ready is not suspended.                                     *)
LEMMA NoReadyFault ==
    ASSUME NEW q, \A x \in Range(q) : suspend[x] = 0
    PROVE  ReadyFaults(q) = {}
  BY DEF ReadyFaults, Unless

LEMMA WaitersReadied ==
    ASSUME QueuesInvariant, AllFit, NEW o \in Waitables
    PROVE  \A x \in Range(waitq[o]) : x \in Threads /\ blocked[x] = o /\ suspend[x] = 0
<1> USE DEF QueuesInvariant
<1>1. Range(waitq[o]) = InLineFor(o)
  BY WaitableQueues DEF QueuesAgree, IsQueueOf
<1> QED  BY <1>1 DEF InLineFor, AllFit, Fits

LEMMA KernelStepAsserts ==
    ASSUME QueuesInvariant, AssertionsHold, KernelNext
    PROVE  AssertionsHold'
<1> USE DEF QueuesInvariant, AssertionsHold, Unless
<1>1. CASE Yield
  BY <1>1, RunningSlots DEF Yield
<1>2. ASSUME NEW t \in Threads, TimerFires(t)  PROVE failed' = {}
  <2>1. t \in InLineFor(TimeEvent)
    BY <1>2 DEF TimerFires, QueuesAgree
  <2> QED  BY <1>2, <2>1 DEF TimerFires, RemovedFault, InLineFor, Queued
<1>3. CASE SkipSuspended
  <2>1. PICK i \in DOMAIN runq : failed' = failed \cup RemovedFault(runq[i])
    BY <1>3 DEF SkipSuspended
  <2>2. runq[i] \in InLineFor(Zero)
    BY DEF QueuesAgree, IsQueueOf, Range
  <2> QED  BY <2>1, <2>2 DEF RemovedFault, InLineFor, Queued
<1>4. CASE Sleep \/ EndPoll \/ Dispatch \/ Idle
  BY <1>4 DEF Sleep, EndPoll, Dispatch, Idle
<1> QED  BY <1>1, <1>2, <1>3, <1>4 DEF KernelNext

LEMMA MailboxStepAsserts ==
    ASSUME QueuesInvariant, AssertionsHold, MailboxNext
    PROVE  AssertionsHold'
<1> USE DEF QueuesInvariant, AssertionsHold
<1>1. ASSUME NEW m \in Mailboxes, IsWaiting(m)
      PROVE  \A x \in Range(mboxq[m]) : suspend[x] >= 0
  <2>1. Range(mboxq[m]) = InLineFor(m)
    BY <1>1 DEF QueuesAgree, IsQueueOf, QueueOf, Objects
  <2> QED  BY <2>1 DEF InLineFor, Queued
<1>2. ASSUME NEW m \in Mailboxes, IsWaiting(m), NEW S \in SUBSET Range(mboxq[m])
      PROVE  PassOverFaults(S) = {}
  BY <1>1, <1>2 DEF PassOverFaults, Unless
<1>3. ASSUME NEW m \in Mailboxes, NEW front \in BOOLEAN, SendMessage(m, front)
      PROVE  failed' = {}
  <2>1. CASE SendToQueue(m, front)
    BY <2>1 DEF SendToQueue
  <2>2. CASE SendToWaiter(m)
    <3>1. PICK i \in DOMAIN mboxq[m] :
             /\ FirstEligible(mboxq[m], i)
             /\ failed' = failed \cup PassOverFaults({mboxq[m][j] : j \in 1..(i - 1)})
                                 \cup ReadyFaults(<<mboxq[m][i]>>)
      BY <2>2 DEF SendToWaiter
    <3>2. IsWaiting(m) /\ DOMAIN mboxq[m] = 1..Len(mboxq[m]) /\ Len(mboxq[m]) \in Nat
      BY <2>2, LenProperties DEF SendToWaiter, MailboxTypeOK
    <3>3. {mboxq[m][j] : j \in 1..(i - 1)} \subseteq Range(mboxq[m])
      BY <3>2 DEF Range
    <3>4. ReadyFaults(<<mboxq[m][i]>>) = {}
      <4>1. \A x \in Range(<<mboxq[m][i]>>) : suspend[x] = 0
        BY <3>1 DEF Range, FirstEligible
      <4> QED  BY <4>1, NoReadyFault
    <3> QED  BY <1>2, <3>1, <3>2, <3>3, <3>4
  <2>3. CASE SendPastWaiters(m, front)
    BY <1>2, <2>3 DEF SendPastWaiters
  <2> QED  BY <1>3, <2>1, <2>2, <2>3 DEF SendMessage
<1>4. ASSUME NEW m \in Mailboxes, ReceiveNow(m) \/ ReceiveBlocks(m)  PROVE failed' = {}
  BY <1>4 DEF ReceiveNow, ReceiveBlocks
<1>5. ASSUME NEW m \in Mailboxes, CloseMailbox(m)  PROVE failed' = {}
  <2>1. CASE ~IsWaiting(m)
    BY <1>5, <2>1 DEF CloseMailbox
  <2>2. CASE IsWaiting(m)
    <3>1. PICK woken \in EligibleOnly(mboxq[m]) :
             failed' = failed \cup PassOverFaults({t \in Range(mboxq[m]) : suspend[t] # 0})
                              \cup ReadyFaults(woken)
      BY <1>5, <2>2 DEF CloseMailbox
    <3>2. mboxq[m] \in Seq(Threads) /\ IsInjective(mboxq[m])
      BY <2>2 DEF QueuesAgree, IsQueueOf, QueueOf, Objects, MailboxTypeOK
    <3>3. \A x \in Range(woken) : suspend[x] = 0
      BY <3>2, EligibleQueue DEF IsQueueOf
    <3>4. PassOverFaults({t \in Range(mboxq[m]) : suspend[t] # 0}) = {}
      BY <1>2, <2>2
    <3> QED  BY <3>1, <3>3, <3>4, NoReadyFault
  <2> QED  BY <2>1, <2>2
<1> QED  BY <1>3, <1>4, <1>5 DEF MailboxNext

LEMMA SyncStepAsserts ==
    ASSUME QueuesInvariant, AllFit, AssertionsHold, SyncNext
    PROVE  AssertionsHold'
<1> USE DEF QueuesInvariant, AssertionsHold
<1>1. ASSUME NEW o \in Waitables  PROVE ReadyFaults(waitq[o]) = {}
  BY WaitersReadied, NoReadyFault
<1>2. ASSUME NEW s \in Semaphores  PROVE ReadyFaults(Signalled(s)) = {}
  <2>1. s \in Waitables
    BY ObjectsDiffer
  <2>2. ASSUME PopsWaiter(s)  PROVE \A x \in Range(Signalled(s)) : suspend[x] = 0
    <3>1. waitq[s] \in Seq(Threads) /\ waitq[s] # <<>>
      BY <2>1, <2>2 DEF ObjectTypeOK, PopsWaiter
    <3>2. 1 \in DOMAIN waitq[s] /\ Head(waitq[s]) = waitq[s][1]
      BY <3>1, HeadTailProperties, LenProperties, EmptySeq
    <3>3. Head(waitq[s]) \in Range(waitq[s])
      BY <3>2 DEF Range
    <3>4. \A x \in Range(Signalled(s)) : x = Head(waitq[s])
      BY <2>2 DEF Signalled, Range
    <3> QED  BY <2>1, <3>3, <3>4, WaitersReadied
  <2>3. ~PopsWaiter(s) => Range(Signalled(s)) = {}
    BY DEF Signalled, Range
  <2> QED  BY <2>2, <2>3, NoReadyFault
<1>3. ASSUME NEW s \in Semaphores,
             SemaphoreSignal(s) \/ \E c \in Conditions : ConditionWait(s, c)
      PROVE  failed' = {}
  BY <1>2, <1>3 DEF SemaphoreSignal, ConditionWait, MakeReady
<1>4. ASSUME NEW s \in Semaphores, SemaphoreWait(s)  PROVE failed' = {}
  BY <1>4 DEF SemaphoreWait
<1>5. ASSUME NEW o \in Conditions \cup Futures, ConditionSignal(o) \/ SetFuture(o)
      PROVE  failed' = {}
  <2>1. failed' = failed \cup ReadyFaults(waitq[o])
    BY <1>5 DEF ConditionSignal, SetFuture, MakeReady
  <2> QED  BY <1>1, <2>1 DEF Waitables
<1>6. ASSUME NEW o, Await(o) \/ Join(o)  PROVE failed' = {}
  BY <1>6 DEF Await, Join
<1>7. ASSUME NEW p \in Processes, ChildExited(p)  PROVE failed' = {}
  <2>1. \A x \in Range(waitq[p]) : suspend[x] <= 0
    BY WaitersReadied DEF Waitables
  <2> QED  BY <1>7, <2>1 DEF ChildExited, Unless
<1>8. ASSUME Exit  PROVE failed' = {}
  <2>1. current \in Waitables
    BY <1>8, RunningIsThread, ObjectsDiffer DEF Exit, Free
  <2>2. JoinerFaults(current) = {}
    BY <2>1, WaitersReadied DEF JoinerFaults, Unless
  <2> QED  BY <1>1, <1>8, <2>1, <2>2 DEF Exit
<1> QED  BY <1>3, <1>4, <1>5, <1>6, <1>7, <1>8 DEF SyncNext

(* kthread_unqueue_suspend finds what it expects.                          *)
LEMMA NoUnqueueFault ==
    ASSUME QueuesInvariant, Strict, AllFit, NEW u \in Threads, u # current,
           state[u] # "COMPLETE", UnqueueAllowed(u),
           NEW q \in Seq(Threads), NEW W, u \notin W, IsQueueOf(q, InLineFor(Zero) \cup W)
    PROVE  UnqueueFaults(q, u) = {}
<1> USE DEF QueuesInvariant, Unless
<1>1. /\ TakenFromQueue(u) <=> Queued(u)
      /\ SuspendUnqueued(u) \in Int /\ SuspendUnqueued(u) < 0
  BY UnqueueFacts DEF Strict, Disciplined
<1>2. ASSUME blocked[u] = Zero, state[u] = "WAITING"
      PROVE  Cardinality({i \in DOMAIN q : q[i] = u}) = 1
  <2>1. u \in InLineFor(Zero)
    BY <1>1, <1>2 DEF TakenFromQueue, InLineFor
  <2>2. PICK k \in DOMAIN q : q[k] = u
    BY <2>1 DEF IsQueueOf, Range
  <2>3. {i \in DOMAIN q : q[i] = u} = {k}
    BY <2>2 DEF IsQueueOf, IsInjective
  <2> QED  BY <2>3, FS_Singleton
<1>3. blocked[u] = TimeEvent => state[u] \in {"SUSPEND", "SLEEPING"}
  BY DEF AllFit, Fits
<1>4. blocked[u] \notin {Zero, TimeEvent} => state[u] \in {"SUSPEND", "BLOCKED"}
  BY DEF AllFit, Fits, RecordTypeOK, Objects
<1>5. TakenFromQueue(u) => suspend[u] >= 0
  BY <1>1 DEF Queued
<1>6. SuspendUnqueued(u) + 1 <= 0
  BY <1>1
<1> QED  BY <1>2, <1>3, <1>4, <1>5, <1>6 DEF UnqueueFaults

LEMMA ControlStepAsserts ==
    ASSUME QueuesInvariant, Strict, AllFit, AssertionsHold, ControlNext
    PROVE  AssertionsHold'
<1> USE DEF QueuesInvariant, AssertionsHold
<1>1. ASSUME NEW u \in Threads, Suspend(u)  PROVE failed' = {}
  BY <1>1 DEF Suspend
<1>2. ASSUME NEW u \in Threads, Resume(u)  PROVE failed' = {}
  <2>1. ResumeRequeued(u) => blocked[u] \in Mailboxes
    BY ObjectsDiffer DEF ResumeRequeued, SlotsAgree
  <2> QED  BY <1>2, <2>1 DEF Resume, ResumeOnce, ResumeQueued, ResumeReady, ResumeRequeued
<1>3. IsQueueOf(runq, InLineFor(Zero)) /\ runq \in Seq(Threads)
  BY DEF QueuesAgree, KernelTypeOK
<1>4. ASSUME NEW u \in Threads, Halt(u)  PROVE failed' = {}
  <2>1. HaltUnqueued(u) /\ u \in Waitables
    BY <1>4, UnqueueFacts, ObjectsDiffer DEF Halt, Strict, Disciplined
  <2>2. u # current /\ state[u] # "COMPLETE" /\ UnqueueAllowed(u)
    BY <1>4 DEF Halt
  <2>3. JoinerFaults(u) = {} /\ ReadyFaults(waitq[u]) = {}
    BY <2>1, WaitersReadied, NoReadyFault DEF JoinerFaults, Unless
  <2>4. UnqueueFaults(runq \o waitq[u], u) = {}
    <3>1. waitq[u] \in Seq(Threads) /\ IsQueueOf(waitq[u], InLineFor(u))
      BY <2>1, WaitableQueues DEF QueuesAgree, ObjectTypeOK
    <3>2. InLineFor(Zero) \cap InLineFor(u) = {}
      BY ObjectsDiffer DEF InLineFor
    <3>3. IsQueueOf(runq \o waitq[u], InLineFor(Zero) \cup InLineFor(u))
      BY <1>3, <3>1, <3>2, ConcatQueue
    <3>4. runq \o waitq[u] \in Seq(Threads)
      BY <1>3, <3>1, ConcatProperties
    <3>5. u \notin InLineFor(u)
      BY ObjectsDiffer DEF InLineFor, SlotsAgree
    <3> QED  BY <2>2, <3>3, <3>4, <3>5, NoUnqueueFault
  <2> QED  BY <2>1, <2>3, <2>4 DEF HaltUnqueued
<1>5. ASSUME NEW u \in Threads, DeliverSignal(u)  PROVE failed' = {}
  <2>1. u # current /\ state[u] # "COMPLETE" /\ UnqueueAllowed(u)
    BY <1>5 DEF DeliverSignal
  <2>2. UnqueueFaults(runq, u) = {}
    <3>1. InLineFor(Zero) \cup {} = InLineFor(Zero) /\ u \notin {}
      OBVIOUS
    <3> QED  BY <1>3, <2>1, <3>1, NoUnqueueFault
  <2> QED  BY <1>5, <2>2 DEF DeliverSignal, SignalUnqueued
<1> QED  BY <1>1, <1>2, <1>4, <1>5 DEF ControlNext

(* No assert of the thread manager's C code would fail: whoever makes a    *)
(* thread ready has noticed that it is not suspended, whoever pops one as  *)
(* suspended finds it counted as queued, and the queues hold what they are *)
(* thought to (dispatch.c:142, 214, 220, struct.h:144, synch.c:72, 157,    *)
(* 225, 234, 244, 421).  For programs that keep the discipline entirely.   *)
THEOREM NoAssertFails ==
    ASSUME Strict
    PROVE  Spec => []AssertionsHold
<1> DEFINE Inv == QueuesInvariant /\ AllFit /\ AssertionsHold
<1>1. Init => Inv
  <2>1. ASSUME Init, NEW t \in Threads  PROVE Fits(t)
    <3>1. blocked[t] = Zero
      BY <2>1 DEF Init
    <3> QED  BY <3>1, ObjectsDiffer DEF Fits, Objects
  <2>2. Init => AssertionsHold
    BY DEF Init, AssertionsHold
  <2> QED  BY <2>1, <2>2, QueuesInitially DEF AllFit
<1>2. ASSUME Inv, [Next]_vars  PROVE Inv'
  <2>1. QueuesInvariant'
    BY <1>2, QueuesKept DEF Strict, Disciplined
  <2>2. CASE UNCHANGED vars
    <3>1. AllFit'
      BY <1>2, <2>2, FitsAlone DEF AllFit, vars, threadVars
    <3> QED  BY <1>2, <2>1, <2>2, <3>1 DEF AssertionsHold, vars
  <2>3. CASE Next
    <3>1. AllFit'
      BY <1>2, <2>3, KernelStepFits, MailboxStepFits, SyncStepFits, ControlStepFits
         DEF AllFit, Next
    <3>2. AssertionsHold'
      BY <1>2, <2>3, KernelStepAsserts, MailboxStepAsserts, SyncStepAsserts,
         ControlStepAsserts DEF Next
    <3> QED  BY <2>1, <3>1, <3>2
  <2> QED  BY <1>2, <2>2, <2>3
<1>3. Inv => AssertionsHold
  OBVIOUS
<1> QED  BY <1>1, <1>2, <1>3, PTL DEF Spec
=============================================================================
