------------------------ MODULE ThreadManager_proofs ------------------------
(***************************************************************************)
(* What is proved about ThreadManager, for any numbers of threads and      *)
(* objects, any bounds, and whatever liberties the clients take.           *)
(***************************************************************************)
EXTENDS ThreadManager, TLAPS, FiniteSetTheorems, SequenceTheorems

-----------------------------------------------------------------------------
(* Sequences.                                                              *)

(* Without one of its elements a sequence still has elements of the same   *)
(* set (slot_list_delq, dequeue_delq).                                     *)
LEMMA WithoutType ==
    ASSUME NEW S, NEW q \in Seq(S), NEW t
    PROVE  Without(q, t) \in Seq(S)
<1>1. CASE t \in Range(q)
  <2>1. PICK i \in DOMAIN q : i = CHOOSE j \in DOMAIN q : q[j] = t
    BY <1>1 DEF Range
  <2>2. i \in 1..Len(q)
    BY <2>1, LenProperties
  <2>3. SubSeq(q, 1, i - 1) \in Seq(S) /\ SubSeq(q, i + 1, Len(q)) \in Seq(S)
    BY <2>2, SubSeqProperties, SMT
  <2> QED  BY <1>1, <2>1, <2>3, ConcatProperties DEF Without, RemoveAt
<1>2. CASE t \notin Range(q)
  BY <1>2 DEF Without
<1> QED  BY <1>1, <1>2

(* So has a sequence that lost the element at one place.                   *)
LEMMA RemoveAtType ==
    ASSUME NEW S, NEW q \in Seq(S), NEW i \in DOMAIN q
    PROVE  RemoveAt(q, i) \in Seq(S)
<1>1. i \in 1..Len(q)
  BY LenProperties
<1>2. SubSeq(q, 1, i - 1) \in Seq(S) /\ SubSeq(q, i + 1, Len(q)) \in Seq(S)
  BY <1>1, SubSeqProperties, SMT
<1> QED  BY <1>2, ConcatProperties DEF RemoveAt

(* The threads of a queue that are not suspended form a queue (the loops   *)
(* of close_mailbox and do-child-exited).                                  *)
LEMMA EligibleOnlyType ==
    ASSUME NEW q \in Seq(Threads), NEW woken \in EligibleOnly(q)
    PROVE  woken \in Seq(Threads)
<1> DEFINE n == Cardinality(Eligible(q))
<1>1. Eligible(q) \subseteq 1..Len(q)
  BY LenProperties DEF Eligible
<1>2. Len(q) \in Nat /\ IsFiniteSet(1..Len(q))
  BY LenProperties, FS_Interval
<1>3. n \in Nat
  BY <1>1, <1>2, FS_Subset, FS_CardinalityType
<1>4. PICK p \in Ascending(Eligible(q)) : woken = [k \in 1..n |-> q[p[k]]]
  BY DEF EligibleOnly
<1>5. \A k \in 1..n : q[p[k]] \in Threads
  <2> SUFFICES ASSUME NEW k \in 1..n  PROVE q[p[k]] \in Threads
    OBVIOUS
  <2>1. p[k] \in Eligible(q)
    BY DEF Ascending
  <2> QED  BY <2>1, <1>1, ElementOfSeq
<1> HIDE DEF n
<1> QED  BY <1>3, <1>4, <1>5, SMT

-----------------------------------------------------------------------------
(* Type correctness: TypeOK is inductive.                                  *)

USE DEF TypeOK

(* Marking the threads of a queue ready leaves the records well typed      *)
(* (UNBLOCK_THREAD, mark_thread_ready).                                    *)
LEMMA ReadiedType ==
    ASSUME RecordTypeOK, NEW q
    PROVE  /\ StateReadied(q) \in [Threads -> States]
           /\ BlockedReadied(q) \in [Threads -> {Zero, TimeEvent} \cup Mailboxes \cup Waitables]
  BY DEF RecordTypeOK, StateReadied, BlockedReadied, States

(* Whoever is running is a thread.                                         *)
LEMMA RunningIsThread ==
    ASSUME KernelTypeOK, Running
    PROVE  current \in Threads
  BY DEF KernelTypeOK, Running

(* Switching out or going to sleep in a well typed way.                    *)
LEMMA BlockType ==
    ASSUME TypeOK, Running,
           NEW w \in {Zero, TimeEvent} \cup Mailboxes \cup Waitables,
           NEW s \in States, NEW k \in Frames,
           Block(w, s, k), UNCHANGED <<suspend, got>>, 
           relock' \in [Threads -> {Zero} \cup Semaphores]
    PROVE  /\ RecordTypeOK'
           /\ current' = Zero /\ kernel' = "poll"
<1>1. current \in Threads
  BY RunningIsThread
<1> QED  BY <1>1 DEF RecordTypeOK, Block, SwitchOut

(* The dispatcher and the switches (dispatch.c, timer.scm) keep types.     *)
LEMMA KernelStepTypes ==
    ASSUME TypeOK, KernelNext
    PROVE  TypeOK'
<1>1. CASE Yield
  <2>1. current \in Threads
    BY <1>1, RunningIsThread DEF Yield
  <2>2. RecordTypeOK'
    BY <1>1, <2>1 DEF Yield, RecordTypeOK, States, Frames
  <2>3. KernelTypeOK'
    BY <1>1, <2>1, AppendProperties DEF Yield, SwitchOut, KernelTypeOK
  <2>4. ObjectTypeOK' /\ MailboxTypeOK'
    BY <1>1 DEF Yield, objectVars, ObjectTypeOK, MailboxTypeOK, IsWaiting
  <2> QED  BY <2>2, <2>3, <2>4
<1>2. CASE Sleep
  <2>1. current \in Threads
    BY <1>2, RunningIsThread DEF Sleep, Free
  <2>2. RecordTypeOK' /\ current' = Zero /\ kernel' = "poll"
    BY <1>2, BlockType DEF Sleep, Free, States, Frames, RecordTypeOK
  <2>3. KernelTypeOK'
    BY <1>2, <2>1, <2>2 DEF Sleep, KernelTypeOK
  <2>4. ObjectTypeOK' /\ MailboxTypeOK'
    BY <1>2 DEF Sleep, objectVars, ObjectTypeOK, MailboxTypeOK, IsWaiting
  <2> QED  BY <2>2, <2>3, <2>4
<1>3. ASSUME NEW t \in Threads, TimerFires(t)  PROVE TypeOK'
  <2>1. RecordTypeOK'
    BY <1>3 DEF TimerFires, RecordTypeOK, Negated, States
  <2>2. KernelTypeOK'
    BY <1>3, AppendProperties DEF TimerFires, KernelTypeOK
  <2>3. ObjectTypeOK' /\ MailboxTypeOK'
    BY <1>3 DEF TimerFires, objectVars, ObjectTypeOK, MailboxTypeOK, IsWaiting
  <2> QED  BY <2>1, <2>2, <2>3
<1>4. CASE EndPoll
  BY <1>4 DEF EndPoll, threadVars, objectVars, RecordTypeOK, KernelTypeOK,
              ObjectTypeOK, MailboxTypeOK, IsWaiting
<1>5. CASE Dispatch
  <2>1. PICK i \in DOMAIN runq :
              /\ runq' = RemoveAt(runq, i)
              /\ current' = runq[i]
              /\ state' = [state EXCEPT ![runq[i]] = "RUNNING"]
              /\ frame' = [frame EXCEPT ![runq[i]] = "loaded"]
              /\ got' = [got EXCEPT ![runq[i]] = None]
    BY <1>5 DEF Dispatch
  <2>2. runq[i] \in Threads
    BY <2>1, LenProperties, ElementOfSeq DEF KernelTypeOK
  <2>3. RecordTypeOK'
    BY <1>5, <2>1, <2>2 DEF Dispatch, RecordTypeOK, States, Frames
  <2>4. runq[i] # Zero
    BY <2>2, DistinctAssumption DEF Waitables
  <2>5. KernelTypeOK'
    BY <1>5, <2>1, <2>2, <2>4, RemoveAtType DEF Dispatch, KernelTypeOK
  <2>6. ObjectTypeOK' /\ MailboxTypeOK'
    BY <1>5 DEF Dispatch, objectVars, ObjectTypeOK, MailboxTypeOK, IsWaiting
  <2> QED  BY <2>3, <2>5, <2>6
<1>6. CASE SkipSuspended
  <2>1. PICK i \in DOMAIN runq : runq' = RemoveAt(runq, i) /\ suspend' = Negated(runq[i])
    BY <1>6 DEF SkipSuspended
  <2>2. RecordTypeOK'
    BY <1>6, <2>1, LenProperties, ElementOfSeq
       DEF SkipSuspended, RecordTypeOK, KernelTypeOK, Negated
  <2>3. KernelTypeOK'
    BY <1>6, <2>1, RemoveAtType DEF SkipSuspended, KernelTypeOK
  <2>4. ObjectTypeOK' /\ MailboxTypeOK'
    BY <1>6 DEF SkipSuspended, objectVars, ObjectTypeOK, MailboxTypeOK, IsWaiting
  <2> QED  BY <2>2, <2>3, <2>4
<1>7. CASE Idle
  BY <1>7 DEF Idle, threadVars, objectVars, RecordTypeOK, KernelTypeOK,
              ObjectTypeOK, MailboxTypeOK, IsWaiting
<1> QED  BY <1>1, <1>2, <1>3, <1>4, <1>5, <1>6, <1>7 DEF KernelNext

(* The records and the run queue after MakeReady.                          *)
LEMMA MakeReadyTypes ==
    ASSUME TypeOK, NEW q \in Seq(Threads), MakeReady(q),
           UNCHANGED <<suspend, frame, got, relock, timers, current, kernel>>
    PROVE  RecordTypeOK' /\ KernelTypeOK'
<1>1. RecordTypeOK'
  BY ReadiedType DEF MakeReady, RecordTypeOK
<1>2. KernelTypeOK'
  BY ConcatProperties DEF MakeReady, KernelTypeOK
<1> QED  BY <1>1, <1>2

(* The one thread a signal wakes, and those it leaves.                     *)
LEMMA SignalTypes ==
    ASSUME TypeOK, NEW s \in Semaphores
    PROVE  Signalled(s) \in Seq(Threads) /\ WaitersLeft(s) \in Seq(Threads)
<1>1. waitq[s] \in Seq(Threads)
  BY DEF ObjectTypeOK, Waitables
<1>2. CASE PopsWaiter(s)
  <2>1. Head(waitq[s]) \in Threads /\ Tail(waitq[s]) \in Seq(Threads)
    BY <1>1, <1>2, HeadTailProperties DEF PopsWaiter
  <2> QED  BY <1>2, <2>1 DEF Signalled, WaitersLeft
<1>3. CASE ~PopsWaiter(s)
  BY <1>1, <1>3, EmptySeq DEF Signalled, WaitersLeft
<1> QED  BY <1>2, <1>3

(* Semaphores, conditions, futures, processes and joins keep types.        *)
LEMMA SyncStepTypes ==
    ASSUME TypeOK, SyncNext
    PROVE  TypeOK'
<1> USE DEF Waitables
<1>1. ASSUME NEW s \in Semaphores, SemaphoreSignal(s)  PROVE TypeOK'
  <2>1. RecordTypeOK' /\ KernelTypeOK'
    BY <1>1, SignalTypes, MakeReadyTypes DEF SemaphoreSignal
  <2>2. ObjectTypeOK'
    BY <1>1, SignalTypes DEF SemaphoreSignal, ObjectTypeOK
  <2>3. MailboxTypeOK'
    BY <1>1 DEF SemaphoreSignal, MailboxTypeOK, IsWaiting
  <2> QED  BY <2>1, <2>2, <2>3
<1>2. ASSUME NEW s \in Semaphores, SemaphoreWait(s)  PROVE TypeOK'
  <2>1. current \in Threads
    BY <1>2, RunningIsThread DEF SemaphoreWait
  <2>2. relock' \in [Threads -> {Zero} \cup Semaphores]
    BY <1>2, <2>1 DEF SemaphoreWait, RecordTypeOK
  <2>3. MailboxTypeOK'
    BY <1>2 DEF SemaphoreWait, MailboxTypeOK, IsWaiting
  <2>4. CASE count[s] - 1 < 0
    <3>1. RecordTypeOK' /\ current' = Zero /\ kernel' = "poll"
      BY <1>2, <2>2, <2>4, BlockType DEF SemaphoreWait, States, Frames
    <3>2. KernelTypeOK'
      BY <1>2, <3>1 DEF SemaphoreWait, KernelTypeOK
    <3>3. Append(waitq[s], current) \in Seq(Threads)
      BY <2>1, AppendProperties DEF ObjectTypeOK
    <3>4. waitq' = [waitq EXCEPT ![s] = Append(@, current)]
      BY <1>2, <2>4 DEF SemaphoreWait
    <3>5. ObjectTypeOK'
      BY <1>2, <3>3, <3>4 DEF SemaphoreWait, ObjectTypeOK
    <3> QED  BY <2>3, <3>1, <3>2, <3>5
  <2>5. CASE ~(count[s] - 1 < 0)
    <3>1. RecordTypeOK' /\ KernelTypeOK'
      BY <1>2, <2>2, <2>5 DEF SemaphoreWait, RecordTypeOK, KernelTypeOK
    <3>2. ObjectTypeOK'
      BY <1>2, <2>5 DEF SemaphoreWait, ObjectTypeOK
    <3> QED  BY <2>3, <3>1, <3>2
  <2> QED  BY <2>4, <2>5
<1>3. ASSUME NEW s \in Semaphores, NEW c \in Conditions, ConditionWait(s, c)
      PROVE  TypeOK'
  <2>1. current \in Threads
    BY <1>3, RunningIsThread DEF ConditionWait, Free
  <2>2. RecordTypeOK'
    BY <1>3, <2>1, ReadiedType DEF ConditionWait, RecordTypeOK, States, Frames
  <2>3. KernelTypeOK'
    BY <1>3, SignalTypes, ConcatProperties DEF ConditionWait, SwitchOut, KernelTypeOK
  <2>4. ObjectTypeOK'
    <3>1. waitq[c] \in Seq(Threads) /\ Append(waitq[c], current) \in Seq(Threads)
      BY <2>1, AppendProperties DEF ObjectTypeOK
    <3>2. s # c
      BY DistinctAssumption
    <3>3. waitq' = [waitq EXCEPT ![s] = WaitersLeft(s), ![c] = Append(waitq[c], current)]
      BY <1>3, <3>2 DEF ConditionWait
    <3>4. WaitersLeft(s) \in Seq(Threads)
      BY SignalTypes
    <3>5. waitq' \in [Waitables -> Seq(Threads)]
      BY <3>1, <3>3, <3>4 DEF ObjectTypeOK
    <3>6. count' \in [Semaphores -> Int] /\ UNCHANGED <<settled, sent>>
      BY <1>3 DEF ConditionWait, ObjectTypeOK
    <3> QED  BY <3>5, <3>6 DEF ObjectTypeOK
  <2>5. MailboxTypeOK'
    BY <1>3 DEF ConditionWait, MailboxTypeOK, IsWaiting
  <2> QED  BY <2>2, <2>3, <2>4, <2>5
<1>4. ASSUME NEW c \in Conditions, ConditionSignal(c)  PROVE TypeOK'
  <2>1. RecordTypeOK' /\ KernelTypeOK'
    BY <1>4, MakeReadyTypes DEF ConditionSignal, ObjectTypeOK
  <2>2. ObjectTypeOK'
    BY <1>4, EmptySeq DEF ConditionSignal, ObjectTypeOK
  <2>3. MailboxTypeOK'
    BY <1>4 DEF ConditionSignal, MailboxTypeOK, IsWaiting
  <2> QED  BY <2>1, <2>2, <2>3
<1>5. ASSUME NEW o \in Futures \cup Processes, Await(o)  PROVE TypeOK'
  <2>1. current \in Threads
    BY <1>5, RunningIsThread DEF Await, Free
  <2>2. RecordTypeOK' /\ current' = Zero /\ kernel' = "poll"
    BY <1>5, BlockType DEF Await, Free, States, Frames, RecordTypeOK
  <2>3. KernelTypeOK'
    BY <1>5, <2>2 DEF Await, KernelTypeOK
  <2>4. ObjectTypeOK'
    BY <1>5, <2>1, ConcatProperties DEF Await, ObjectTypeOK
  <2>5. MailboxTypeOK'
    BY <1>5 DEF Await, MailboxTypeOK, IsWaiting
  <2> QED  BY <2>2, <2>3, <2>4, <2>5
<1>6. ASSUME NEW f \in Futures, SetFuture(f)  PROVE TypeOK'
  <2>1. RecordTypeOK' /\ KernelTypeOK'
    BY <1>6, MakeReadyTypes DEF SetFuture, ObjectTypeOK
  <2>2. ObjectTypeOK'
    BY <1>6, EmptySeq DEF SetFuture, ObjectTypeOK
  <2>3. MailboxTypeOK'
    BY <1>6 DEF SetFuture, MailboxTypeOK, IsWaiting
  <2> QED  BY <2>1, <2>2, <2>3
<1>7. ASSUME NEW p \in Processes, ChildExited(p)  PROVE TypeOK'
  <2>1. PICK woken \in EligibleOnly(waitq[p]) :
              state' = StateReadied(woken) /\ runq' = runq \o woken
    BY <1>7 DEF ChildExited
  <2>2. woken \in Seq(Threads)
    BY EligibleOnlyType DEF ObjectTypeOK
  <2>3. RecordTypeOK'
    BY <1>7, <2>1, ReadiedType DEF ChildExited, RecordTypeOK
  <2>4. KernelTypeOK'
    BY <1>7, <2>1, <2>2, ConcatProperties DEF ChildExited, KernelTypeOK
  <2>5. ObjectTypeOK'
    BY <1>7, EmptySeq DEF ChildExited, ObjectTypeOK
  <2>6. MailboxTypeOK'
    BY <1>7 DEF ChildExited, MailboxTypeOK, IsWaiting
  <2> QED  BY <2>3, <2>4, <2>5, <2>6
<1>8. ASSUME NEW u \in Threads, Join(u)  PROVE TypeOK'
  <2>1. current \in Threads
    BY <1>8, RunningIsThread DEF Join, Free
  <2>2. RecordTypeOK' /\ current' = Zero /\ kernel' = "poll"
    BY <1>8, BlockType DEF Join, Free, States, Frames, RecordTypeOK
  <2>3. KernelTypeOK'
    BY <1>8, <2>2 DEF Join, KernelTypeOK
  <2>4. ObjectTypeOK'
    BY <1>8, <2>1, ConcatProperties DEF Join, ObjectTypeOK
  <2>5. MailboxTypeOK'
    BY <1>8 DEF Join, MailboxTypeOK, IsWaiting
  <2> QED  BY <2>2, <2>3, <2>4, <2>5
<1>9. CASE Exit
  <2>1. current \in Threads /\ waitq[current] \in Seq(Threads)
    BY <1>9, RunningIsThread DEF Exit, Free, ObjectTypeOK
  <2>2. RecordTypeOK'
    BY <1>9, <2>1, ReadiedType DEF Exit, RecordTypeOK, States, Frames
  <2>3. KernelTypeOK'
    BY <1>9, <2>1, ConcatProperties DEF Exit, SwitchOut, KernelTypeOK
  <2>4. ObjectTypeOK'
    BY <1>9, <2>1, EmptySeq DEF Exit, ObjectTypeOK
  <2>5. MailboxTypeOK'
    BY <1>9 DEF Exit, MailboxTypeOK, IsWaiting
  <2> QED  BY <2>2, <2>3, <2>4, <2>5
<1> QED  BY <1>1, <1>2, <1>3, <1>4, <1>5, <1>6, <1>7, <1>8, <1>9 DEF SyncNext

(* Sequences of threads, and of messages, are what a dequeue may hold.     *)
LEMMA MboxqTypes ==
    ASSUME MailboxTypeOK, NEW m \in Mailboxes
    PROVE  /\ mboxq[m] \in Seq(Threads \cup Nat)
           /\ IsWaiting(m) => mboxq[m] \in Seq(Threads)
           /\ ~IsWaiting(m) => mboxq[m] \in Seq(Nat)
  BY DEF MailboxTypeOK

(* A mailbox that gets a queue of messages, and has-data? other than #f,   *)
(* or a queue of threads, and has-data? #f, stays well typed.              *)
LEMMA NewMailboxType ==
    ASSUME MailboxTypeOK, NEW m \in Mailboxes, NEW q, NEW h \in {"data", "waiters", "closed"},
           q \in Seq(IF h = "waiters" THEN Threads ELSE Nat),
           mboxq' = [mboxq EXCEPT ![m] = q],
           hasData' = [hasData EXCEPT ![m] = h]
    PROVE  MailboxTypeOK'
<1>1. q \in Seq(Threads \cup Nat)
  BY SeqMonotonic
<1> QED  BY <1>1 DEF MailboxTypeOK, IsWaiting

(* did_remove_from_queue leaves counts.                                    *)
LEMMA PassOverType ==
    ASSUME RecordTypeOK, NEW S, PassOver(S)
    PROVE  suspend' \in [Threads -> Int]
  BY DEF RecordTypeOK, PassOver

(* A message is put into a mailbox that holds none of a thread.            *)
LEMMA EnqueueTypes ==
    ASSUME TypeOK, NEW m \in Mailboxes, NEW front \in BOOLEAN, NEW q \in Seq(Nat),
           Enqueue(m, sent + 1, front, q)
    PROVE  MailboxTypeOK'
<1>1. sent + 1 \in Nat
  BY DEF ObjectTypeOK
<1>2. Append(q, sent + 1) \in Seq(Nat) /\ <<sent + 1>> \o q \in Seq(Nat)
  BY <1>1, AppendProperties, ConcatProperties
<1>3. hasData' = [hasData EXCEPT ![m] = "data"]
  BY DEF Enqueue
<1> DEFINE x == IF front THEN <<sent + 1>> \o q ELSE Append(q, sent + 1)
<1>4. mboxq' = [mboxq EXCEPT ![m] = x] /\ x \in Seq(Nat)
  BY <1>2 DEF Enqueue
<1> HIDE DEF x
<1> QED  BY <1>3, <1>4, NewMailboxType

(* A send keeps types, whoever takes the message (do_mailbox_send).        *)
LEMMA SendTypes ==
    ASSUME TypeOK, NEW m \in Mailboxes, NEW front \in BOOLEAN, SendMessage(m, front)
    PROVE  TypeOK'
<1>1. ObjectTypeOK'
  BY DEF SendMessage, ObjectTypeOK
<1>2. CASE SendToQueue(m, front)
  <2>1. mboxq[m] \in Seq(Nat)
    BY <1>2, MboxqTypes DEF SendToQueue, IsWaiting
  <2>2. MailboxTypeOK'
    BY <1>2, <2>1, EnqueueTypes DEF SendToQueue
  <2>3. RecordTypeOK' /\ KernelTypeOK'
    BY <1>2 DEF SendMessage, SendToQueue, threadVars, RecordTypeOK, KernelTypeOK
  <2> QED  BY <1>1, <2>2, <2>3
<1>3. CASE SendToWaiter(m)
  <2> DEFINE q == mboxq[m]
  <2>1. PICK i \in DOMAIN q :
          LET rest == SubSeq(q, i + 1, Len(q))
          IN  /\ PassOver({q[j] : j \in 1..(i - 1)})
              /\ mboxq' = [mboxq EXCEPT ![m] = rest]
              /\ hasData' = IF rest = <<>> THEN [hasData EXCEPT ![m] = "data"]
                                           ELSE hasData
              /\ state' = StateReadied(<<q[i]>>)
              /\ blocked' = BlockedReadied(<<q[i]>>)
              /\ got' = [got EXCEPT ![q[i]] = sent + 1]
              /\ runq' = Append(runq, q[i])
    BY <1>3 DEF SendToWaiter
  <2>2. q \in Seq(Threads) /\ IsWaiting(m)
    BY <1>3, MboxqTypes DEF SendToWaiter
  <2>3. i \in 1..Len(q) /\ q[i] \in Threads
    BY <2>2, LenProperties, ElementOfSeq
  <2> DEFINE rest == SubSeq(q, i + 1, Len(q))
  <2>4. rest \in Seq(Threads)
    BY <2>2, <2>3, LenProperties, ElementOfSeq, SubSeqProperties
  <2>5. RecordTypeOK'
    <3>1. suspend' \in [Threads -> Int]
      BY <2>1, PassOverType
    <3>2. got' \in [Threads -> {None, NoValue} \cup Nat]
      BY <2>1, <2>3 DEF RecordTypeOK, ObjectTypeOK
    <3>3. /\ state' \in [Threads -> States]
          /\ blocked' \in [Threads -> {Zero, TimeEvent} \cup Mailboxes \cup Waitables]
      BY <2>1, ReadiedType
    <3>4. UNCHANGED <<frame, relock>>
      BY <1>3 DEF SendToWaiter
    <3> QED  BY <3>1, <3>2, <3>3, <3>4 DEF RecordTypeOK
  <2>6. KernelTypeOK'
    BY <2>1, <2>3, AppendProperties DEF SendMessage, KernelTypeOK
  <2>7. MailboxTypeOK'
    <3> DEFINE h == IF rest = <<>> THEN "data" ELSE "waiters"
    <3>1. hasData[m] = "waiters"
      BY <2>2 DEF IsWaiting
    <3>2. hasData' = [hasData EXCEPT ![m] = h]
      BY <2>1, <3>1 DEF MailboxTypeOK
    <3>3. rest \in Seq(IF h = "waiters" THEN Threads ELSE Nat)
      BY <2>4, EmptySeq
    <3>4. mboxq' = [mboxq EXCEPT ![m] = rest]
      BY <2>1
    <3> HIDE DEF rest
    <3> QED  BY <3>2, <3>3, <3>4, NewMailboxType
  <2> QED  BY <1>1, <2>5, <2>6, <2>7
<1>4. CASE SendPastWaiters(m, front)
  <2>1. MailboxTypeOK'
    BY <1>4, EnqueueTypes, EmptySeq DEF SendPastWaiters
  <2>2. RecordTypeOK' /\ KernelTypeOK'
    BY <1>4, PassOverType DEF SendMessage, SendPastWaiters, RecordTypeOK, KernelTypeOK
  <2> QED  BY <1>1, <2>1, <2>2
<1> QED  BY <1>2, <1>3, <1>4 DEF SendMessage

(* The mailbox operations keep types.                                      *)
LEMMA MailboxStepTypes ==
    ASSUME TypeOK, MailboxNext
    PROVE  TypeOK'
<1>1. ASSUME NEW m \in Mailboxes, NEW front \in BOOLEAN, SendMessage(m, front)
      PROVE  TypeOK'
  BY <1>1, SendTypes
<1>2. ASSUME NEW m \in Mailboxes, ReceiveNow(m)  PROVE TypeOK'
  <2>1. Tail(mboxq[m]) \in Seq(Nat) /\ hasData[m] \in {"data", "closed"}
    BY <1>2, MboxqTypes, HeadTailProperties DEF ReceiveNow, MailboxTypeOK, IsWaiting
  <2>2. hasData' = [hasData EXCEPT ![m] = hasData[m]]
    BY <1>2 DEF ReceiveNow, MailboxTypeOK
  <2>3. MailboxTypeOK'
    BY <1>2, <2>1, <2>2, NewMailboxType DEF ReceiveNow
  <2>4. RecordTypeOK' /\ KernelTypeOK' /\ ObjectTypeOK'
    BY <1>2 DEF ReceiveNow, threadVars, RecordTypeOK, KernelTypeOK, ObjectTypeOK
  <2> QED  BY <2>3, <2>4
<1>3. ASSUME NEW m \in Mailboxes, ReceiveBlocks(m)  PROVE TypeOK'
  <2>1. current \in Threads
    BY <1>3, RunningIsThread DEF ReceiveBlocks, Free
  <2>2. mboxq[m] \in Seq(Threads)
    BY <1>3, MboxqTypes, EmptySeq DEF ReceiveBlocks
  <2>3. MailboxTypeOK'
    <3>1. Append(mboxq[m], current) \in Seq(Threads)
      BY <2>1, <2>2, AppendProperties
    <3>2. /\ mboxq' = [mboxq EXCEPT ![m] = Append(mboxq[m], current)]
          /\ hasData' = [hasData EXCEPT ![m] = "waiters"]
      BY <1>3 DEF ReceiveBlocks
    <3> QED  BY <3>1, <3>2, NewMailboxType
  <2>4. RecordTypeOK' /\ current' = Zero /\ kernel' = "poll"
    BY <1>3, BlockType DEF ReceiveBlocks, Free, States, Frames, RecordTypeOK
  <2>5. KernelTypeOK' /\ ObjectTypeOK'
    BY <1>3, <2>4 DEF ReceiveBlocks, KernelTypeOK, ObjectTypeOK
  <2> QED  BY <2>3, <2>4, <2>5
<1>4. ASSUME NEW m \in Mailboxes, CloseMailbox(m)  PROVE TypeOK'
  <2>1. ObjectTypeOK'
    BY <1>4 DEF CloseMailbox, ObjectTypeOK
  <2>2. hasData' = [hasData EXCEPT ![m] = "closed"]
    BY <1>4 DEF CloseMailbox
  <2>3. CASE IsWaiting(m)
    <3>1. PICK woken \in EligibleOnly(mboxq[m]) :
                /\ state' = StateReadied(woken)
                /\ blocked' = BlockedReadied(woken)
                /\ got' = [t \in Threads |->
                             IF t \in Range(woken) THEN NoValue ELSE got[t]]
                /\ runq' = runq \o woken
                /\ PassOver({t \in Range(mboxq[m]) : suspend[t] # 0})
                /\ mboxq' = [mboxq EXCEPT ![m] = <<>>]
      BY <1>4, <2>3 DEF CloseMailbox
    <3>2. woken \in Seq(Threads)
      BY <2>3, MboxqTypes, EligibleOnlyType
    <3>3. RecordTypeOK'
      BY <1>4, <3>1, ReadiedType, PassOverType DEF CloseMailbox, RecordTypeOK
    <3>4. KernelTypeOK'
      BY <1>4, <3>1, <3>2, ConcatProperties DEF CloseMailbox, KernelTypeOK
    <3>5. MailboxTypeOK'
      BY <2>2, <3>1, EmptySeq, NewMailboxType
    <3> QED  BY <2>1, <3>3, <3>4, <3>5
  <2>4. CASE ~IsWaiting(m)
    <3>1. mboxq' = [mboxq EXCEPT ![m] = mboxq[m]] /\ mboxq[m] \in Seq(Nat)
      BY <1>4, <2>4, MboxqTypes DEF CloseMailbox, MailboxTypeOK
    <3>2. MailboxTypeOK'
      BY <2>2, <3>1, NewMailboxType
    <3>3. RecordTypeOK' /\ KernelTypeOK'
      BY <1>4, <2>4 DEF CloseMailbox, RecordTypeOK, KernelTypeOK
    <3> QED  BY <2>1, <3>2, <3>3
  <2> QED  BY <2>3, <2>4
<1> QED  BY <1>1, <1>2, <1>3, <1>4 DEF MailboxNext

(* One step of resumption leaves an integer.                               *)
LEMMA NearerType == ASSUME NEW c \in Int PROVE Nearer(c) \in Int
  BY DEF Nearer

(* The resumption of a receiver that was passed over keeps types (requeue).*)
LEMMA RequeueTypes ==
    ASSUME TypeOK, NEW t \in Threads, NEW m \in Mailboxes, Requeue(t, m)
    PROVE  /\ state' \in [Threads -> States]
           /\ blocked' \in [Threads -> {Zero, TimeEvent} \cup Mailboxes \cup Waitables]
           /\ got' \in [Threads -> {None, NoValue} \cup Nat]
           /\ runq' \in Seq(Threads)
           /\ MailboxTypeOK'
<1>1. CASE ~IsWaiting(m) /\ mboxq[m] # <<>>
  <2>1. Head(mboxq[m]) \in Nat /\ Tail(mboxq[m]) \in Seq(Nat)
    BY <1>1, MboxqTypes, HeadTailProperties
  <2>2. /\ mboxq' = [mboxq EXCEPT ![m] = Tail(mboxq[m])]
        /\ hasData' = IF Tail(mboxq[m]) = <<>>
                        THEN [hasData EXCEPT ![m] = "data"] ELSE hasData
        /\ state' = [state EXCEPT ![t] = "WAITING"]
        /\ blocked' = [blocked EXCEPT ![t] = Zero]
        /\ got' = [got EXCEPT ![t] = Head(mboxq[m])]
        /\ runq' = Append(runq, t)
    BY <1>1 DEF Requeue
  <2> DEFINE h == IF Tail(mboxq[m]) = <<>> THEN "data" ELSE hasData[m]
  <2>3. hasData' = [hasData EXCEPT ![m] = h] /\ h \in {"data", "closed"}
    BY <1>1, <2>2 DEF MailboxTypeOK, IsWaiting
  <2> HIDE DEF h
  <2>4. MailboxTypeOK'
    BY <2>1, <2>2, <2>3, NewMailboxType
  <2>5. runq' \in Seq(Threads)
    BY <2>2, AppendProperties DEF KernelTypeOK
  <2> QED  BY <2>1, <2>2, <2>4, <2>5 DEF RecordTypeOK, States
<1>2. CASE ~(~IsWaiting(m) /\ mboxq[m] # <<>>)
  <2>1. mboxq[m] \in Seq(Threads)
    BY <1>2, MboxqTypes, EmptySeq
  <2>2. Append(mboxq[m], t) \in Seq(Threads)
    BY <2>1, AppendProperties
  <2>3. /\ mboxq' = [mboxq EXCEPT ![m] = Append(mboxq[m], t)]
        /\ hasData' = [hasData EXCEPT ![m] = "waiters"]
        /\ state' = [state EXCEPT ![t] = "BLOCKED"]
        /\ UNCHANGED <<blocked, got, runq>>
    BY <1>2 DEF Requeue
  <2>4. MailboxTypeOK'
    BY <2>2, <2>3, NewMailboxType
  <2> QED  BY <2>3, <2>4 DEF RecordTypeOK, KernelTypeOK, States
<1> QED  BY <1>1, <1>2

(* thread-suspend and thread-resume keep types.                            *)
LEMMA SuspendTypes ==
    ASSUME TypeOK, NEW u \in Threads, Suspend(u)
    PROVE  TypeOK'
<1>1. RecordTypeOK'
  BY DEF Suspend, RecordTypeOK, States
<1>2. KernelTypeOK' /\ ObjectTypeOK' /\ MailboxTypeOK'
  BY DEF Suspend, objectVars, KernelTypeOK, ObjectTypeOK, MailboxTypeOK, IsWaiting
<1> QED  BY <1>1, <1>2

LEMMA ResumeTypes ==
    ASSUME TypeOK, NEW u \in Threads, Resume(u)
    PROVE  TypeOK'
<1>1. ObjectTypeOK'
  BY DEF Resume, ObjectTypeOK
<1>2. suspend' \in [Threads -> Int] /\ UNCHANGED <<frame, relock>>
  BY NearerType DEF Resume, RecordTypeOK
<1>3. UNCHANGED <<timers, current, kernel>>
  BY DEF Resume
<1>4. CASE ResumeOnce(u)
  BY <1>1, <1>2, <1>3, <1>4
     DEF ResumeOnce, RecordTypeOK, KernelTypeOK, MailboxTypeOK, IsWaiting
<1>5. CASE ResumeQueued(u)
  BY <1>1, <1>2, <1>3, <1>5
     DEF ResumeQueued, RecordTypeOK, KernelTypeOK, MailboxTypeOK, IsWaiting, States
<1>6. CASE ResumeReady(u)
  <2>1. RecordTypeOK'
    BY <1>2, <1>6 DEF ResumeReady, RecordTypeOK, States
  <2>2. KernelTypeOK'
    BY <1>3, <1>6, AppendProperties DEF ResumeReady, KernelTypeOK
  <2>3. MailboxTypeOK'
    BY <1>6 DEF ResumeReady, MailboxTypeOK, IsWaiting
  <2> QED  BY <1>1, <2>1, <2>2, <2>3
<1>7. CASE ResumeRequeued(u)
  <2>1. CASE blocked[u] \in Mailboxes
    <3>1. Requeue(u, blocked[u])
      BY <1>7, <2>1 DEF ResumeRequeued
    <3> QED  BY <1>1, <1>2, <1>3, <2>1, <3>1, RequeueTypes DEF RecordTypeOK, KernelTypeOK
  <2>2. CASE blocked[u] \notin Mailboxes
    BY <1>1, <1>2, <1>3, <1>7, <2>2
       DEF ResumeRequeued, RecordTypeOK, KernelTypeOK, MailboxTypeOK, IsWaiting, States
  <2> QED  BY <2>1, <2>2
<1> QED  BY <1>4, <1>5, <1>6, <1>7 DEF Resume

(* The queues a thread is taken out of keep their types                    *)
(* (kthread_unqueue_suspend).                                              *)
LEMMA UnqueuedTypes ==
    ASSUME TypeOK, NEW u \in Threads
    PROVE  /\ WaitqWithout(u) \in [Waitables -> Seq(Threads)]
           /\ SuspendUnqueued(u) \in Int
           /\ \A q \in Seq(Threads) : RunqWithout(q, u) \in Seq(Threads)
<1>1. WaitqWithout(u) \in [Waitables -> Seq(Threads)]
  BY WithoutType DEF WaitqWithout, ObjectTypeOK
<1>2. SuspendUnqueued(u) \in Int
  BY DEF SuspendUnqueued, RecordTypeOK
<1>3. \A q \in Seq(Threads) : RunqWithout(q, u) \in Seq(Threads)
  BY WithoutType DEF RunqWithout
<1> QED  BY <1>1, <1>2, <1>3

LEMMA LeaveObjectsTypes ==
    ASSUME TypeOK, NEW u \in Threads, LeaveObjects(u)
    PROVE  /\ MailboxTypeOK'
           /\ count' \in [Semaphores -> Int]
           /\ timers' \subseteq Threads
           /\ UNCHANGED <<settled, sent>>
<1>1. count' \in [Semaphores -> Int]
  BY DEF LeaveObjects, CountWithout, ObjectTypeOK
<1>2. timers' \subseteq Threads /\ UNCHANGED <<settled, sent>>
  BY DEF LeaveObjects, KernelTypeOK
<1>3. \A m \in Mailboxes :
         MboxqWithout(u)[m] \in Seq(IF IsWaiting(m) THEN Threads ELSE Nat)
  BY WithoutType DEF MboxqWithout, MailboxTypeOK
<1>4. \A m \in Mailboxes : MboxqWithout(u)[m] \in Seq(Threads \cup Nat)
  BY <1>3, SeqMonotonic
<1>5. mboxq' \in [Mailboxes -> Seq(Threads \cup Nat)]
  BY <1>4 DEF LeaveObjects, MboxqWithout
<1>6. hasData' \in [Mailboxes -> {"data", "waiters", "closed"}]
  BY DEF LeaveObjects, HasDataWithout, MailboxTypeOK
<1>7. ASSUME NEW m \in Mailboxes
      PROVE  mboxq'[m] \in Seq(IF IsWaiting(m)' THEN Threads ELSE Nat)
  <2>1. mboxq'[m] = MboxqWithout(u)[m]
    BY DEF LeaveObjects
  <2>2. CASE blocked[u] = m /\ MboxqWithout(u)[m] = <<>>
    BY <2>1, <2>2, EmptySeq
  <2>3. CASE ~(blocked[u] = m /\ MboxqWithout(u)[m] = <<>>)
    <3>1. hasData'[m] = hasData[m]
      BY <2>3 DEF LeaveObjects, HasDataWithout
    <3> QED  BY <1>3, <2>1, <3>1 DEF IsWaiting
  <2> QED  BY <2>2, <2>3
<1>8. MailboxTypeOK'
  BY <1>5, <1>6, <1>7 DEF MailboxTypeOK
<1> QED  BY <1>1, <1>2, <1>8

(* halt-thread keeps types, to its end or abandoned halfway.               *)
LEMMA HaltTypes ==
    ASSUME TypeOK, NEW u \in Threads, Halt(u)
    PROVE  TypeOK'
<1>1. waitq[u] \in Seq(Threads) /\ runq \o waitq[u] \in Seq(Threads)
  BY ConcatProperties DEF ObjectTypeOK, KernelTypeOK, Waitables
<1>2. /\ frame' \in [Threads -> Frames]
      /\ got' \in [Threads -> {None, NoValue} \cup Nat]
      /\ relock' \in [Threads -> {Zero} \cup Semaphores]
  BY DEF Halt, RecordTypeOK, Frames
<1>3. UNCHANGED <<current, kernel>>
  BY DEF Halt
<1>4. CASE HaltAbandoned(u)
  <2>1. RecordTypeOK'
    BY <1>2, <1>4, ReadiedType DEF HaltAbandoned, RecordTypeOK
  <2>2. KernelTypeOK'
    BY <1>1, <1>3, <1>4 DEF HaltAbandoned, KernelTypeOK
  <2>3. ObjectTypeOK'
    BY <1>4, EmptySeq DEF HaltAbandoned, ObjectTypeOK
  <2>4. MailboxTypeOK'
    BY <1>4 DEF HaltAbandoned, MailboxTypeOK, IsWaiting
  <2> QED  BY <2>1, <2>2, <2>3, <2>4
<1>5. CASE HaltUnqueued(u)
  <2>1. /\ MailboxTypeOK' /\ count' \in [Semaphores -> Int]
        /\ timers' \subseteq Threads /\ UNCHANGED <<settled, sent>>
    BY <1>5, LeaveObjectsTypes DEF HaltUnqueued
  <2>2. RecordTypeOK'
    <3>1. state' \in [Threads -> States]
      BY <1>5, ReadiedType DEF HaltUnqueued, States
    <3>2. blocked' \in [Threads -> {Zero, TimeEvent} \cup Mailboxes \cup Waitables]
      BY <1>5, ReadiedType DEF HaltUnqueued
    <3>3. suspend' \in [Threads -> Int]
      BY <1>5, UnqueuedTypes DEF HaltUnqueued, RecordTypeOK
    <3> QED  BY <1>2, <3>1, <3>2, <3>3 DEF RecordTypeOK
  <2>3. KernelTypeOK'
    BY <1>1, <1>3, <1>5, <2>1, UnqueuedTypes DEF HaltUnqueued, KernelTypeOK
  <2>4. ObjectTypeOK'
    <3>1. waitq' \in [Waitables -> Seq(Threads)]
      BY <1>5, UnqueuedTypes, EmptySeq DEF HaltUnqueued
    <3> QED  BY <2>1, <3>1 DEF ObjectTypeOK
  <2> QED  BY <2>1, <2>2, <2>3, <2>4
<1> QED  BY <1>4, <1>5 DEF Halt

(* thread-deliver-signal! keeps types, to its end or abandoned halfway.    *)
LEMMA DeliverSignalTypes ==
    ASSUME TypeOK, NEW u \in Threads, DeliverSignal(u)
    PROVE  TypeOK'
<1>1. /\ frame' \in [Threads -> Frames]
      /\ got' \in [Threads -> {None, NoValue} \cup Nat]
      /\ relock' \in [Threads -> {Zero} \cup Semaphores]
  BY DEF DeliverSignal, RecordTypeOK, Frames
<1>2. UNCHANGED <<current, kernel>>
  BY DEF DeliverSignal
<1>3. CASE NoQueueCase(u)
  BY <1>1, <1>2, <1>3 DEF DeliverSignal, objectVars, RecordTypeOK, KernelTypeOK,
                          ObjectTypeOK, MailboxTypeOK, IsWaiting
<1>4. CASE ~NoQueueCase(u)
  <2>1. SignalUnqueued(u)
    BY <1>4 DEF DeliverSignal
  <2>2. /\ MailboxTypeOK' /\ count' \in [Semaphores -> Int]
        /\ timers' \subseteq Threads /\ UNCHANGED <<settled, sent>>
    BY <2>1, LeaveObjectsTypes DEF SignalUnqueued
  <2>3. RecordTypeOK'
    <3>1. suspend' \in [Threads -> Int]
      BY <2>1, UnqueuedTypes, NearerType DEF SignalUnqueued, RecordTypeOK
    <3>2. /\ state' \in [Threads -> States]
          /\ blocked' \in [Threads -> {Zero, TimeEvent} \cup Mailboxes \cup Waitables]
      BY <2>1 DEF SignalUnqueued, RecordTypeOK, States
    <3> QED  BY <1>1, <3>1, <3>2 DEF RecordTypeOK
  <2>4. KernelTypeOK'
    <3>1. RunqWithout(runq, u) \in Seq(Threads)
      BY UnqueuedTypes DEF KernelTypeOK
    <3>2. Append(RunqWithout(runq, u), u) \in Seq(Threads)
      BY <3>1, AppendProperties
    <3>3. \/ runq' = RunqWithout(runq, u)
          \/ runq' = Append(RunqWithout(runq, u), u)
      BY <2>1 DEF SignalUnqueued
    <3> QED  BY <1>2, <2>2, <3>1, <3>2, <3>3 DEF KernelTypeOK
  <2>5. ObjectTypeOK'
    BY <2>1, <2>2, UnqueuedTypes DEF SignalUnqueued, ObjectTypeOK
  <2> QED  BY <2>2, <2>3, <2>4, <2>5
<1> QED  BY <1>3, <1>4

-----------------------------------------------------------------------------
(* The initial records hold values of their kinds.                         *)
LEMMA TypeInitially == Init => TypeOK
<1> SUFFICES ASSUME Init  PROVE TypeOK
  OBVIOUS
<1>1. PICK first \in Threads :
        /\ state = [t \in Threads |-> IF t = first THEN "WAITING" ELSE "SUSPEND"]
        /\ suspend = [t \in Threads |-> IF t = first THEN 0 ELSE -1]
        /\ runq = <<first>>
  BY DEF Init
<1>2. RecordTypeOK
  BY <1>1 DEF Init, RecordTypeOK, States, Frames
<1>3. KernelTypeOK
  BY <1>1 DEF Init, KernelTypeOK
<1>4. ObjectTypeOK
  BY EmptySeq, BoundsAssumption DEF Init, ObjectTypeOK
<1>5. MailboxTypeOK
  BY EmptySeq DEF Init, MailboxTypeOK, IsWaiting
<1> QED  BY <1>2, <1>3, <1>4, <1>5

(* Every step keeps them so.                                               *)
LEMMA TypeKept ==
    ASSUME TypeOK, [Next]_vars
    PROVE  TypeOK'
<1>1. CASE KernelNext
  BY <1>1, KernelStepTypes
<1>2. CASE MailboxNext
  BY <1>2, MailboxStepTypes
<1>3. CASE SyncNext
  BY <1>3, SyncStepTypes
<1>4. CASE ControlNext
  BY <1>4, SuspendTypes, ResumeTypes, HaltTypes, DeliverSignalTypes DEF ControlNext
<1>5. CASE UNCHANGED vars
  BY <1>5 DEF vars, threadVars, objectVars, RecordTypeOK, KernelTypeOK,
              ObjectTypeOK, MailboxTypeOK, IsWaiting
<1> QED  BY <1>1, <1>2, <1>3, <1>4, <1>5 DEF Next

(* Every slot of every record always holds a value of its kind, and a      *)
(* mailbox never mixes up threads and messages: has-data? always tells     *)
(* which of the two its dequeue holds, through every send, close,          *)
(* resumption, halt and signal, disciplined or not.                        *)
THEOREM TypeCorrect == Spec => []TypeOK
<1>1. Init => TypeOK
  BY TypeInitially
<1>2. TypeOK /\ [Next]_vars => TypeOK'
  BY TypeKept
<1> QED  BY <1>1, <1>2, PTL DEF Spec
=============================================================================
