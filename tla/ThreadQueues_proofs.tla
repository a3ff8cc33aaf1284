------------------------ MODULE ThreadQueues_proofs -------------------------
(***************************************************************************)
(* The sign of the suspend count tells the truth: proof that every thread  *)
(* is in exactly the queue where its record says it is, once, for any      *)
(* numbers of threads and objects, as long as the clients of the control   *)
(* operations keep their discipline (but for the suspension of waiters).   *)
(***************************************************************************)
EXTENDS ThreadManager_proofs, FiniteSetTheorems, SequenceTheorems

-----------------------------------------------------------------------------
(* What appending, removing and concatenating leaves in a queue: its       *)
(* members, and that it holds nobody twice.                                *)

(* A queue that holds nobody twice, the set of its members being R.        *)
IsQueueOf(q, R) == IsInjective(q) /\ Range(q) = R

LEMMA QueueOfItself ==
    ASSUME NEW q, IsInjective(q)
    PROVE  IsQueueOf(q, Range(q))
  BY DEF IsQueueOf

LEMMA EmptyQueue == IsQueueOf(<<>>, {})
  BY DEF IsQueueOf, IsInjective, Range

LEMMA SingleQueue ==
    ASSUME NEW S, NEW e \in S
    PROVE  IsQueueOf(<<e>>, {e})
  BY DEF IsQueueOf, IsInjective, Range

(* Nobody is in a queue whose members are none.                            *)
LEMMA QueueOfNone ==
    ASSUME NEW S, NEW q \in Seq(S), Range(q) = {}
    PROVE  q = <<>>
<1>1. Len(q) = 0
  <2> SUFFICES ASSUME Len(q) # 0  PROVE FALSE
    OBVIOUS
  <2>1. 1 \in DOMAIN q
    BY LenProperties
  <2> QED  BY <2>1 DEF Range
<1> QED  BY <1>1, EmptySeq

(* Joining a queue at its end.                                             *)
LEMMA AppendQueue ==
    ASSUME NEW S, NEW q \in Seq(S), NEW e \in S, NEW R, IsQueueOf(q, R), e \notin R
    PROVE  IsQueueOf(Append(q, e), R \cup {e})
<1>1. Append(q, e) \in Seq(S) /\ Len(Append(q, e)) = Len(q) + 1
  BY AppendProperties
<1>2. DOMAIN q = 1..Len(q) /\ DOMAIN Append(q, e) = 1..(Len(q) + 1) /\ Len(q) \in Nat
  BY <1>1, LenProperties
<1>3. /\ \A i \in 1..Len(q) : Append(q, e)[i] = q[i]
      /\ Append(q, e)[Len(q) + 1] = e
  BY AppendProperties
<1>4. Range(Append(q, e)) = R \cup {e}
  BY <1>2, <1>3 DEF Range, IsQueueOf
<1>5. IsInjective(Append(q, e))
  <2> SUFFICES ASSUME NEW a \in 1..(Len(q) + 1), NEW b \in 1..(Len(q) + 1),
                      Append(q, e)[a] = Append(q, e)[b]
               PROVE  a = b
    BY <1>2 DEF IsInjective
  <2>1. \A i \in 1..Len(q) : q[i] # e
    BY <1>2 DEF IsQueueOf, Range
  <2> QED  BY <1>2, <1>3, <2>1 DEF IsQueueOf, IsInjective
<1> QED  BY <1>4, <1>5 DEF IsQueueOf

(* A queue that another one is appended to.                                *)
LEMMA ConcatQueue ==
    ASSUME NEW S, NEW q \in Seq(S), NEW r \in Seq(S), NEW Q, NEW R,
           IsQueueOf(q, Q), IsQueueOf(r, R), Q \cap R = {}
    PROVE  IsQueueOf(q \o r, Q \cup R)
<1>1. /\ DOMAIN q = 1..Len(q) /\ DOMAIN r = 1..Len(r)
      /\ Len(q) \in Nat /\ Len(r) \in Nat
      /\ DOMAIN (q \o r) = 1..(Len(q) + Len(r))
  BY LenProperties, ConcatProperties
<1>2. \A i \in 1..(Len(q) + Len(r)) :
         (q \o r)[i] = IF i <= Len(q) THEN q[i] ELSE r[i - Len(q)]
  BY ConcatProperties
<1>3. Range(q \o r) = Q \cup R
  BY RangeConcatenation DEF IsQueueOf
<1>4. IsInjective(q \o r)
  <2> SUFFICES ASSUME NEW a \in 1..(Len(q) + Len(r)), NEW b \in 1..(Len(q) + Len(r)),
                      (q \o r)[a] = (q \o r)[b]
               PROVE  a = b
    BY <1>1 DEF IsInjective
  <2>1. \A i \in 1..Len(q), j \in 1..Len(r) : q[i] # r[j]
    BY <1>1 DEF IsQueueOf, Range
  <2>2. CASE a <= Len(q) /\ b <= Len(q)
    BY <1>1, <1>2, <2>2 DEF IsQueueOf, IsInjective
  <2>3. CASE a > Len(q) /\ b > Len(q)
    <3>1. a - Len(q) \in 1..Len(r) /\ b - Len(q) \in 1..Len(r)
      BY <1>1, <2>3
    <3>2. r[a - Len(q)] = r[b - Len(q)]
      BY <1>1, <1>2, <2>3
    <3>3. a - Len(q) = b - Len(q)
      BY <1>1, <3>1, <3>2 DEF IsQueueOf, IsInjective
    <3> QED  BY <1>1, <3>3
  <2>4. CASE a <= Len(q) /\ b > Len(q)
    <3>1. b - Len(q) \in 1..Len(r) /\ a \in 1..Len(q)
      BY <1>1, <2>4
    <3> QED  BY <1>1, <1>2, <2>1, <2>4, <3>1
  <2>5. CASE a > Len(q) /\ b <= Len(q)
    <3>1. a - Len(q) \in 1..Len(r) /\ b \in 1..Len(q)
      BY <1>1, <2>5
    <3> QED  BY <1>1, <1>2, <2>1, <2>5, <3>1
  <2> QED  BY <1>1, <2>2, <2>3, <2>4, <2>5
<1> QED  BY <1>3, <1>4 DEF IsQueueOf

(* The queue behind the place i.                                           *)
LEMMA BehindQueue ==
    ASSUME NEW S, NEW q \in Seq(S), IsInjective(q), NEW i \in 1..Len(q)
    PROVE  LET r == SubSeq(q, i + 1, Len(q)) IN
           /\ r \in Seq(S)
           /\ IsQueueOf(r, Range(q) \ {q[j] : j \in 1..i})
<1> DEFINE r == SubSeq(q, i + 1, Len(q))
<1>1. DOMAIN q = 1..Len(q) /\ Len(q) \in Nat
  BY LenProperties
<1>2. /\ r \in Seq(S) /\ DOMAIN r = 1..(Len(q) - i)
      /\ \A k \in 1..(Len(q) - i) : r[k] = q[k + i]
  <2>1. /\ i + 1 \in Int /\ Len(q) \in Int
        /\ \A k \in (i + 1)..Len(q) : q[k] \in S
    BY <1>1, ElementOfSeq
  <2>2. /\ r \in Seq(S)
        /\ Len(r) = IF i + 1 <= Len(q) THEN Len(q) - (i + 1) + 1 ELSE 0
        /\ \A k \in 1..(Len(q) - (i + 1) + 1) : r[k] = q[(i + 1) + k - 1]
    BY <2>1, SubSeqProperties
  <2>3. Len(r) = Len(q) - i /\ \A k \in 1..(Len(q) - i) : r[k] = q[k + i]
    <3> HIDE DEF r
    <3>1. Len(r) = Len(q) - i
      <4>1. Len(q) \in Nat /\ i \in Nat /\ i <= Len(q)
        BY <1>1
      <4>2. Len(r) = IF i + 1 <= Len(q) THEN Len(q) - (i + 1) + 1 ELSE 0
        BY <2>2
      <4>3. CASE i + 1 <= Len(q)
        BY <4>1, <4>2, <4>3
      <4>4. CASE i = Len(q)
        BY <4>1, <4>2, <4>4
      <4> QED  BY <4>1, <4>3, <4>4
    <3>2. ASSUME NEW k \in 1..(Len(q) - i)  PROVE r[k] = q[k + i]
      <4>1. (i + 1) + k - 1 = k + i /\ k \in 1..(Len(q) - (i + 1) + 1)
        BY <1>1
      <4> QED  BY <2>2, <4>1
    <3> QED  BY <3>1, <3>2
  <2> QED  BY <2>2, <2>3, LenProperties
<1> HIDE DEF r
<1>3. IsInjective(r)
  <2> SUFFICES ASSUME NEW a \in 1..(Len(q) - i), NEW b \in 1..(Len(q) - i), r[a] = r[b]
               PROVE  a = b
    BY <1>2 DEF IsInjective
  <2>1. a + i \in 1..Len(q) /\ b + i \in 1..Len(q)
    BY <1>1
  <2>2. q[a + i] = q[b + i]
    BY <1>2
  <2>3. a + i = b + i
    BY <1>1, <2>1, <2>2 DEF IsInjective
  <2> QED  BY <1>1, <2>3
<1>4. ASSUME NEW x \in Range(r)  PROVE x \in Range(q) \ {q[j] : j \in 1..i}
  <2>1. PICK k \in 1..(Len(q) - i) : x = q[k + i]
    BY <1>2 DEF Range
  <2>2. k + i \in 1..Len(q) /\ \A j \in 1..i : k + i # j /\ j \in 1..Len(q)
    BY <1>1
  <2> QED  BY <1>1, <2>1, <2>2 DEF Range, IsInjective
<1>5. ASSUME NEW x \in Range(q) \ {q[j] : j \in 1..i}  PROVE x \in Range(r)
  <2>1. PICK k \in 1..Len(q) : x = q[k]
    BY <1>1 DEF Range
  <2>2. k \notin 1..i
    BY <2>1
  <2>3. k - i \in 1..(Len(q) - i) /\ (k - i) + i = k
    BY <1>1, <2>2
  <2> QED  BY <1>2, <2>1, <2>3 DEF Range
<1> QED  BY <1>2, <1>3, <1>4, <1>5 DEF IsQueueOf, r

(* The queue up to the place i, that place left out.                       *)
LEMMA BeforeQueue ==
    ASSUME NEW S, NEW q \in Seq(S), IsInjective(q), NEW i \in 1..Len(q)
    PROVE  LET r == SubSeq(q, 1, i - 1) IN
           /\ r \in Seq(S)
           /\ IsQueueOf(r, {q[j] : j \in 1..(i - 1)})
<1> DEFINE r == SubSeq(q, 1, i - 1)
<1>1. DOMAIN q = 1..Len(q) /\ Len(q) \in Nat
  BY LenProperties
<1>2. /\ r \in Seq(S) /\ DOMAIN r = 1..(i - 1)
      /\ \A k \in 1..(i - 1) : r[k] = q[k]
  <2>1. 1 \in Int /\ i - 1 \in Int /\ \A k \in 1..(i - 1) : q[k] \in S
    BY <1>1, ElementOfSeq
  <2>2. /\ r \in Seq(S)
        /\ Len(r) = IF 1 <= i - 1 THEN (i - 1) - 1 + 1 ELSE 0
        /\ \A k \in 1..((i - 1) - 1 + 1) : r[k] = q[1 + k - 1]
    BY <2>1, SubSeqProperties
  <2>3. Len(r) = i - 1 /\ \A k \in 1..(i - 1) : r[k] = q[k]
    <3>1. (i - 1) - 1 + 1 = i - 1 /\ \A k \in Nat : 1 + k - 1 = k
      BY <1>1
    <3> HIDE DEF r
    <3> QED  BY <1>1, <2>2, <3>1
  <2> QED  BY <2>2, <2>3, LenProperties
<1> HIDE DEF r
<1>3. IsInjective(r)
  BY <1>1, <1>2 DEF IsInjective
<1>4. Range(r) = {q[j] : j \in 1..(i - 1)}
  BY <1>2 DEF Range
<1> QED  BY <1>2, <1>3, <1>4 DEF IsQueueOf, r

(* Leaving a queue from the place i.                                       *)
LEMMA RemoveAtQueue ==
    ASSUME NEW S, NEW q \in Seq(S), IsInjective(q), NEW i \in 1..Len(q)
    PROVE  /\ RemoveAt(q, i) \in Seq(S)
           /\ IsQueueOf(RemoveAt(q, i), Range(q) \ {q[i]})
<1> DEFINE before == SubSeq(q, 1, i - 1)
           behind == SubSeq(q, i + 1, Len(q))
           Before == {q[j] : j \in 1..(i - 1)}
           Behind == Range(q) \ {q[j] : j \in 1..i}
<1>1. DOMAIN q = 1..Len(q) /\ Len(q) \in Nat
  BY LenProperties
<1>2. before \in Seq(S) /\ IsQueueOf(before, Before)
  BY BeforeQueue
<1>3. behind \in Seq(S) /\ IsQueueOf(behind, Behind)
  BY BehindQueue
<1>4. 1..i = 1..(i - 1) \cup {i} /\ i \notin 1..(i - 1) /\ 1..(i - 1) \subseteq 1..Len(q)
  BY <1>1
<1>5. Before \cap Behind = {}
  BY <1>4
<1>6. Before \cup Behind = Range(q) \ {q[i]}
  <2>1. \A j \in 1..(i - 1) : q[j] \in Range(q) /\ q[j] # q[i]
    BY <1>1, <1>4 DEF Range, IsInjective
  <2> QED  BY <1>4, <2>1
<1> HIDE DEF before, behind, Before, Behind
<1>7. before \o behind \in Seq(S) /\ IsQueueOf(before \o behind, Before \cup Behind)
  BY <1>2, <1>3, <1>5, ConcatQueue, ConcatProperties
<1> QED  BY <1>6, <1>7 DEF RemoveAt, before, behind

(* Leaving a queue from its front.                                         *)
LEMMA TailQueue ==
    ASSUME NEW S, NEW q \in Seq(S), IsInjective(q), q # <<>>
    PROVE  /\ Head(q) \in Range(q)
           /\ Tail(q) \in Seq(S)
           /\ IsQueueOf(Tail(q), Range(q) \ {Head(q)})
<1>1. DOMAIN q = 1..Len(q) /\ Len(q) \in Nat
  BY LenProperties
<1>2. 1 \in 1..Len(q) /\ Head(q) = q[1]
  BY <1>1, EmptySeq, HeadTailProperties
<1>3. Tail(q) = SubSeq(q, 1 + 1, Len(q))
  BY TailIsSubSeq
<1>4. {q[j] : j \in 1..1} = {Head(q)}
  BY <1>2
<1>5. /\ SubSeq(q, 1 + 1, Len(q)) \in Seq(S)
      /\ IsQueueOf(SubSeq(q, 1 + 1, Len(q)), Range(q) \ {q[j] : j \in 1..1})
  BY <1>2, BehindQueue
<1> QED  BY <1>1, <1>2, <1>3, <1>4, <1>5 DEF Range

(* Joining a list of waiters at its head.                                  *)
LEMMA PrependQueue ==
    ASSUME NEW S, NEW q \in Seq(S), NEW e \in S, NEW R, IsQueueOf(q, R), e \notin R
    PROVE  IsQueueOf(<<e>> \o q, R \cup {e})
<1>1. <<e>> \in Seq(S) /\ IsQueueOf(<<e>>, {e}) /\ {e} \cap R = {}
  BY SingleQueue
<1>2. IsQueueOf(<<e>> \o q, {e} \cup R)
  BY <1>1, ConcatQueue
<1> QED  BY <1>2

-----------------------------------------------------------------------------
(* The queues of the thread manager.                                       *)

USE DEF TypeOK

(* The liberties under which the queues stay right.                        *)
Disciplined == Liberties \subseteq {"suspend waiter"}

(* The threads whose records say that they wait in line for w: for the     *)
(* processor, for a time event, or for an object.                          *)
InLineFor(w) == {t \in Threads : Queued(t) /\ blocked[t] = w}

Objects == Mailboxes \cup Waitables

(* The queues hold exactly who waits for them, once.                       *)
QueuesAgree ==
    /\ IsQueueOf(runq, InLineFor(Zero))
    /\ timers = InLineFor(TimeEvent)
    /\ \A o \in Objects : IsQueueOf(QueueOf(o), InLineFor(o))

(* The inductive invariant.                                                *)
QueuesInvariant == TypeOK /\ SlotsAgree /\ QueuesAgree

(* A mailbox that has no waiters has an empty queue of threads.            *)
LEMMA QueueOfType ==
    ASSUME TypeOK, NEW o \in Objects
    PROVE  QueueOf(o) \in Seq(Threads)
<1>1. CASE o \in Mailboxes
  BY <1>1, EmptySeq DEF QueueOf, MailboxTypeOK
<1>2. CASE o \notin Mailboxes
  BY <1>2 DEF QueueOf, ObjectTypeOK, Objects
<1> QED  BY <1>1, <1>2

(* What is checked is what is proved.                                      *)
LEMMA QueuesByMembers ==
    ASSUME TypeOK
    PROVE  QueuesAgree <=> QueuedWhereBlocked /\ QueuedOnce
<1>1. Range(runq) \subseteq Threads
  BY RangeOfSeq DEF KernelTypeOK
<1>2. timers \subseteq Threads
  BY DEF KernelTypeOK
<1>3. \A o \in Objects : Range(QueueOf(o)) \subseteq Threads
  BY QueueOfType, RangeOfSeq
<1> QED  BY <1>1, <1>2, <1>3 DEF QueuesAgree, QueuedWhereBlocked, QueuedOnce,
                                 IsQueueOf, InLineFor, Objects

-----------------------------------------------------------------------------
(* The operations of the code on queues of threads.                        *)

(* slot_list_delq, dequeue_delq.                                           *)
LEMMA WithoutQueue ==
    ASSUME NEW S, NEW q \in Seq(S), NEW R, IsQueueOf(q, R), NEW t
    PROVE  IsQueueOf(Without(q, t), R \ {t})
<1>1. CASE t \in Range(q)
  <2>1. PICK i \in DOMAIN q : q[i] = t /\ Without(q, t) = RemoveAt(q, i)
    BY <1>1 DEF Range, Without
  <2>2. i \in 1..Len(q) /\ IsInjective(q)
    BY LenProperties DEF IsQueueOf
  <2>3. IsQueueOf(RemoveAt(q, i), Range(q) \ {q[i]})
    BY <2>2, RemoveAtQueue
  <2> QED  BY <2>1, <2>3 DEF IsQueueOf
<1>2. CASE t \notin Range(q)
  BY <1>2 DEF Without, IsQueueOf
<1> QED  BY <1>1, <1>2

(* The loops of close_mailbox and do-child-exited.                         *)
LEMMA EligibleQueue ==
    ASSUME NEW q \in Seq(Threads), IsInjective(q), NEW woken \in EligibleOnly(q)
    PROVE  IsQueueOf(woken, {t \in Range(q) : suspend[t] = 0})
<1> DEFINE E == Eligible(q)
           n == Cardinality(E)
<1>1. E \subseteq 1..Len(q) /\ DOMAIN q = 1..Len(q)
  BY LenProperties DEF Eligible
<1>2. Len(q) \in Nat /\ IsFiniteSet(1..Len(q)) /\ \A i \in 1..Len(q) : i \in Nat
  BY LenProperties, FS_Interval
<1>3. n \in Nat /\ IsFiniteSet(E)
  BY <1>1, <1>2, FS_Subset, FS_CardinalityType
<1>4. PICK p \in Ascending(E) : woken = [k \in 1..n |-> q[p[k]]]
  BY DEF EligibleOnly
<1>5. p \in [1..n -> E] /\ \A a, b \in 1..n : a < b => p[a] < p[b]
  BY <1>4 DEF Ascending
<1> HIDE DEF E, n
<1>6. \A a, b \in 1..n : p[a] = p[b] => a = b
  <2> SUFFICES ASSUME NEW a \in 1..n, NEW b \in 1..n, p[a] = p[b], a # b  PROVE FALSE
    OBVIOUS
  <2>1. p[a] \in E /\ p[b] \in E
    BY <1>5
  <2>2. p[a] \in Nat /\ p[b] \in Nat
    BY <1>1, <1>2, <2>1, Zenon
  <2> QED  BY <1>3, <1>5, <2>2
<1>7. p \in Injection(1..n, E)
  BY <1>5, <1>6 DEF Injection, IsInjective
<1>8. p \in Surjection(1..n, E)
  <2>1. Cardinality(1..n) = n
    BY <1>3, FS_Interval
  <2> QED  BY <1>3, <1>7, <2>1, FS_Injection DEF n
<1>9. IsInjective(woken)
  <2> SUFFICES ASSUME NEW a \in 1..n, NEW b \in 1..n, woken[a] = woken[b]  PROVE a = b
    BY <1>4 DEF IsInjective
  <2>1. p[a] \in DOMAIN q /\ p[b] \in DOMAIN q
    BY <1>1, <1>5
  <2>2. q[p[a]] = q[p[b]]
    BY <1>4
  <2>3. p[a] = p[b]
    BY <2>1, <2>2 DEF IsInjective
  <2> QED  BY <1>6, <2>3
<1>10. Range(woken) = {q[i] : i \in E}
  <2>1. \A i \in E : \E k \in 1..n : p[k] = i
    BY <1>8 DEF Surjection
  <2> QED  BY <1>4, <1>5, <2>1 DEF Range
<1>11. {q[i] : i \in E} = {t \in Range(q) : suspend[t] = 0}
  BY DEF E, Eligible, Range
<1> QED  BY <1>9, <1>10, <1>11 DEF IsQueueOf

-----------------------------------------------------------------------------
(* Facts about the invariant that the steps rest on.                       *)

(* Being blocked on nothing, on an event and on an object are different    *)
(* things.                                                                 *)
LEMMA ObjectsDiffer ==
    /\ Zero \notin Objects /\ TimeEvent \notin Objects /\ Zero # TimeEvent
    /\ Zero \notin Threads /\ TimeEvent \notin Threads
    /\ Mailboxes \cap Waitables = {}
    /\ Threads \subseteq Waitables /\ Semaphores \subseteq Waitables
    /\ Zero \notin Mailboxes \cup Processes /\ TimeEvent \notin Mailboxes \cup Processes
    /\ Processes \cap (Mailboxes \cup Semaphores \cup Conditions \cup Futures \cup Threads) = {}
  BY DistinctAssumption DEF Objects, Waitables

(* The thread that runs is blocked on nothing and in nobody's line.        *)
LEMMA RunningSlots ==
    ASSUME TypeOK, SlotsAgree, Running
    PROVE  /\ current \in Threads
           /\ blocked[current] = Zero /\ suspend[current] = 0
           /\ state[current] = "RUNNING"
           /\ \A w : current \notin InLineFor(w)
<1>1. current \in Threads
  BY RunningIsThread
<1> QED  BY <1>1 DEF SlotsAgree, InLineFor, Queued

(* Operations that leave the objects' queues alone.                        *)
LEMMA ObjectsAlone ==
    ASSUME QueuesAgree, UNCHANGED <<mboxq, hasData, waitq>>,
           \A o \in Objects : InLineFor(o)' = InLineFor(o)
    PROVE  \A o \in Objects : IsQueueOf(QueueOf(o), InLineFor(o))'
  BY DEF QueuesAgree, QueueOf, IsWaiting, IsQueueOf

-----------------------------------------------------------------------------
(* The steps of the dispatcher, and the ways to give up the processor.     *)

LEMMA YieldQueues ==
    ASSUME QueuesInvariant, Yield
    PROVE  SlotsAgree' /\ QueuesAgree'
<1> USE DEF QueuesInvariant
<1>1. /\ current \in Threads
      /\ blocked[current] = Zero /\ suspend[current] = 0
      /\ \A w : current \notin InLineFor(w)
  BY RunningSlots DEF Yield
<1>2. current' = Zero /\ \A t \in Threads : t # current'
  BY ObjectsDiffer DEF Yield, SwitchOut
<1>3. \A w : InLineFor(w)' = IF w = Zero THEN InLineFor(Zero) \cup {current}
                             ELSE InLineFor(w)
  BY <1>1, <1>2 DEF Yield, InLineFor, Queued, RecordTypeOK
<1>4. IsQueueOf(runq, InLineFor(Zero))'
  BY <1>1, <1>3, AppendQueue DEF Yield, QueuesAgree, KernelTypeOK
<1>5. timers' = InLineFor(TimeEvent)'
  BY <1>3, ObjectsDiffer DEF Yield, QueuesAgree
<1>6. \A o \in Objects : IsQueueOf(QueueOf(o), InLineFor(o))'
  BY <1>3, ObjectsDiffer, ObjectsAlone DEF Yield, objectVars
<1>7. SlotsAgree'
  BY <1>1, <1>2 DEF Yield, SlotsAgree, RecordTypeOK
<1> QED  BY <1>4, <1>5, <1>6, <1>7 DEF QueuesAgree

LEMMA SleepQueues ==
    ASSUME QueuesInvariant, Sleep
    PROVE  SlotsAgree' /\ QueuesAgree'
<1> USE DEF QueuesInvariant
<1>1. /\ current \in Threads
      /\ blocked[current] = Zero /\ suspend[current] = 0
      /\ \A w : current \notin InLineFor(w)
  BY RunningSlots DEF Sleep, Free
<1>2. current' = Zero /\ \A t \in Threads : t # current'
  BY ObjectsDiffer DEF Sleep, Block, SwitchOut
<1>3. \A w : InLineFor(w)' = IF w = TimeEvent THEN InLineFor(TimeEvent) \cup {current}
                             ELSE InLineFor(w)
  BY <1>1, <1>2, ObjectsDiffer DEF Sleep, Block, InLineFor, Queued, RecordTypeOK
<1>4. IsQueueOf(runq, InLineFor(Zero))'
  BY <1>3, ObjectsDiffer DEF Sleep, QueuesAgree
<1>5. timers' = InLineFor(TimeEvent)'
  BY <1>3 DEF Sleep, QueuesAgree
<1>6. \A o \in Objects : IsQueueOf(QueueOf(o), InLineFor(o))'
  BY <1>3, ObjectsDiffer, ObjectsAlone DEF Sleep, objectVars
<1>7. SlotsAgree'
  BY <1>1, <1>2, ObjectsDiffer DEF Sleep, Block, SlotsAgree, RecordTypeOK, Objects, Waitables
<1> QED  BY <1>4, <1>5, <1>6, <1>7 DEF QueuesAgree

LEMMA TimerFiresQueues ==
    ASSUME QueuesInvariant, NEW t \in Threads, TimerFires(t)
    PROVE  SlotsAgree' /\ QueuesAgree'
<1> USE DEF QueuesInvariant
<1>1. t \in InLineFor(TimeEvent) /\ Queued(t) /\ blocked[t] = TimeEvent
  BY DEF TimerFires, QueuesAgree, InLineFor
<1>2. suspend[t] \in Int /\ suspend[t] >= 0
  BY <1>1 DEF Queued, RecordTypeOK
<1>3. ASSUME suspend[t] = 0  PROVE QueuesAgree'
  <2>1. \A w : InLineFor(w)' = IF w = Zero THEN InLineFor(Zero) \cup {t}
                               ELSE InLineFor(w) \ {t}
    BY <1>1, <1>3, ObjectsDiffer
       DEF TimerFires, Negated, InLineFor, Queued, RecordTypeOK
  <2>2. t \notin InLineFor(Zero) /\ \A o \in Objects : t \notin InLineFor(o)
    BY <1>1, ObjectsDiffer DEF InLineFor
  <2>3. IsQueueOf(runq, InLineFor(Zero))'
    <3>1. IsQueueOf(Append(runq, t), InLineFor(Zero) \cup {t})
      BY <2>2, AppendQueue DEF QueuesAgree, KernelTypeOK
    <3> QED  BY <1>3, <2>1, <3>1 DEF TimerFires
  <2>4. timers' = InLineFor(TimeEvent)'
    BY <2>1, ObjectsDiffer DEF TimerFires, QueuesAgree
  <2>5. \A o \in Objects : IsQueueOf(QueueOf(o), InLineFor(o))'
    BY <2>1, <2>2, ObjectsDiffer, ObjectsAlone DEF TimerFires, objectVars
  <2> QED  BY <2>3, <2>4, <2>5 DEF QueuesAgree
<1>4. ASSUME suspend[t] # 0  PROVE QueuesAgree'
  <2>1. \A w : InLineFor(w)' = InLineFor(w) \ {t}
    BY <1>1, <1>2, <1>4, ObjectsDiffer
       DEF TimerFires, Negated, InLineFor, Queued, RecordTypeOK
  <2>2. t \notin InLineFor(Zero) /\ \A o \in Objects : t \notin InLineFor(o)
    BY <1>1, ObjectsDiffer DEF InLineFor
  <2>3. IsQueueOf(runq, InLineFor(Zero))'
    BY <1>4, <2>1, <2>2 DEF TimerFires, QueuesAgree
  <2>4. timers' = InLineFor(TimeEvent)'
    BY <2>1, ObjectsDiffer DEF TimerFires, QueuesAgree
  <2>5. \A o \in Objects : IsQueueOf(QueueOf(o), InLineFor(o))'
    BY <2>1, <2>2, ObjectsDiffer, ObjectsAlone DEF TimerFires, objectVars
  <2> QED  BY <2>3, <2>4, <2>5 DEF QueuesAgree
<1>5. SlotsAgree'
  <2>1. blocked' = [blocked EXCEPT ![t] = Zero] /\ suspend' = [suspend EXCEPT ![t] = 0 - @]
    BY DEF TimerFires, Negated
  <2>2. state' = IF suspend[t] = 0 THEN [state EXCEPT ![t] = "WAITING"] ELSE state
    BY DEF TimerFires
  <2>3. t # current /\ current' = current /\ (suspend[t] # 0 => state[t] = "SUSPEND")
    BY <1>1, ObjectsDiffer DEF TimerFires, SlotsAgree, Queued
  <2> QED  BY <1>1, <1>2, <2>1, <2>2, <2>3, ObjectsDiffer DEF SlotsAgree, RecordTypeOK
<1> QED  BY <1>3, <1>4, <1>5

LEMMA DispatchQueues ==
    ASSUME QueuesInvariant, Dispatch
    PROVE  SlotsAgree' /\ QueuesAgree'
<1> USE DEF QueuesInvariant
<1>1. PICK i \in DOMAIN runq :
              /\ suspend[runq[i]] = 0
              /\ runq' = RemoveAt(runq, i)
              /\ current' = runq[i]
              /\ state' = [state EXCEPT ![runq[i]] = "RUNNING"]
  BY DEF Dispatch
<1> DEFINE t == runq[i]
<1>2. t \in InLineFor(Zero) /\ t \in Threads /\ Queued(t) /\ blocked[t] = Zero
  <2>1. t \in Range(runq)
    BY DEF Range
  <2> QED  BY <2>1 DEF QueuesAgree, IsQueueOf, InLineFor
<1>3. current = Zero
  BY DEF Dispatch, KernelTypeOK
<1>4. \A w : InLineFor(w)' = InLineFor(w) \ {t}
  BY <1>1, <1>2, <1>3, ObjectsDiffer DEF Dispatch, InLineFor, Queued, RecordTypeOK
<1>5. t \notin InLineFor(TimeEvent) /\ \A o \in Objects : t \notin InLineFor(o)
  BY <1>2, ObjectsDiffer DEF InLineFor
<1>6. IsQueueOf(runq, InLineFor(Zero))'
  <2>1. i \in 1..Len(runq)
    BY LenProperties DEF KernelTypeOK
  <2>2. IsInjective(runq) /\ Range(runq) = InLineFor(Zero)
    BY DEF QueuesAgree, IsQueueOf
  <2> QED  BY <1>1, <1>4, <2>1, <2>2, RemoveAtQueue DEF KernelTypeOK
<1>7. timers' = InLineFor(TimeEvent)'
  BY <1>4, <1>5 DEF Dispatch, QueuesAgree
<1>8. \A o \in Objects : IsQueueOf(QueueOf(o), InLineFor(o))'
  BY <1>4, <1>5, ObjectsAlone DEF Dispatch, objectVars
<1>9. SlotsAgree'
  BY <1>1, <1>2, <1>3, ObjectsDiffer DEF Dispatch, SlotsAgree, RecordTypeOK
<1> QED  BY <1>6, <1>7, <1>8, <1>9 DEF QueuesAgree

LEMMA SkipSuspendedQueues ==
    ASSUME QueuesInvariant, SkipSuspended
    PROVE  SlotsAgree' /\ QueuesAgree'
<1> USE DEF QueuesInvariant
<1>1. PICK i \in DOMAIN runq :
              /\ suspend[runq[i]] # 0
              /\ runq' = RemoveAt(runq, i)
              /\ suspend' = Negated(runq[i])
  BY DEF SkipSuspended
<1> DEFINE t == runq[i]
<1>2. t \in InLineFor(Zero) /\ t \in Threads /\ Queued(t) /\ blocked[t] = Zero
  <2>1. t \in Range(runq)
    BY DEF Range
  <2> QED  BY <2>1 DEF QueuesAgree, IsQueueOf, InLineFor
<1>3. suspend[t] \in Int /\ suspend[t] > 0
  BY <1>1, <1>2 DEF Queued, RecordTypeOK
<1>4. \A w : InLineFor(w)' = InLineFor(w) \ {t}
  <2> HIDE DEF t
  <2>1. suspend' = [suspend EXCEPT ![t] = 0 - @]
    BY <1>1 DEF Negated, t
  <2> QED  BY <1>2, <1>3, <2>1 DEF SkipSuspended, InLineFor, Queued, RecordTypeOK
<1>5. t \notin InLineFor(TimeEvent) /\ \A o \in Objects : t \notin InLineFor(o)
  BY <1>2, ObjectsDiffer DEF InLineFor
<1>6. IsQueueOf(runq, InLineFor(Zero))'
  <2>1. i \in 1..Len(runq)
    BY LenProperties DEF KernelTypeOK
  <2>2. IsInjective(runq) /\ Range(runq) = InLineFor(Zero)
    BY DEF QueuesAgree, IsQueueOf
  <2> QED  BY <1>1, <1>4, <2>1, <2>2, RemoveAtQueue DEF KernelTypeOK
<1>7. timers' = InLineFor(TimeEvent)'
  BY <1>4, <1>5 DEF SkipSuspended, QueuesAgree
<1>8. \A o \in Objects : IsQueueOf(QueueOf(o), InLineFor(o))'
  BY <1>4, <1>5, ObjectsAlone DEF SkipSuspended, objectVars
<1>9. SlotsAgree'
  <2> HIDE DEF t
  <2>1. suspend' = [suspend EXCEPT ![t] = 0 - @]
    BY <1>1 DEF Negated, t
  <2> QED  BY <1>2, <1>3, <2>1, ObjectsDiffer
              DEF SkipSuspended, SlotsAgree, Queued, RecordTypeOK, Objects, Waitables
<1> QED  BY <1>6, <1>7, <1>8, <1>9 DEF QueuesAgree

-----------------------------------------------------------------------------
(* Mailboxes.                                                              *)

(* Steps that leave alone the slots the queues depend on.                  *)
LEMMA SlotsAlone ==
    ASSUME SlotsAgree, UNCHANGED <<state, suspend, blocked, current>>
    PROVE  SlotsAgree' /\ \A w : InLineFor(w)' = InLineFor(w)
  BY DEF SlotsAgree, InLineFor, Queued

(* The queue of an object that none of mailbox m's changes touch.          *)
LEMMA OtherQueues ==
    ASSUME TypeOK, NEW m \in Mailboxes, NEW q, NEW h,
           mboxq' = [mboxq EXCEPT ![m] = q],
           hasData' = [hasData EXCEPT ![m] = h],
           UNCHANGED waitq
    PROVE  /\ \A o \in Objects \ {m} : QueueOf(o)' = QueueOf(o)
           /\ QueueOf(m)' = IF h = "waiters" THEN q ELSE <<>>
  BY DEF QueueOf, IsWaiting, MailboxTypeOK, Objects

LEMMA SendToQueueQueues ==
    ASSUME QueuesInvariant, NEW m \in Mailboxes, NEW front \in BOOLEAN,
           SendToQueue(m, front), UNCHANGED <<waitq, timers, current>>
    PROVE  SlotsAgree' /\ QueuesAgree'
<1> USE DEF QueuesInvariant
<1>1. SlotsAgree' /\ \A w : InLineFor(w)' = InLineFor(w)
  BY SlotsAlone DEF SendToQueue, threadVars
<1>2. \A o \in Objects : QueueOf(o)' = QueueOf(o)
  BY OtherQueues DEF SendToQueue, Enqueue, QueueOf, IsWaiting
<1> QED  BY <1>1, <1>2 DEF SendToQueue, QueuesAgree

LEMMA SendToWaiterQueues ==
    ASSUME QueuesInvariant, NEW m \in Mailboxes, SendToWaiter(m),
           UNCHANGED <<waitq, timers, current>>
    PROVE  SlotsAgree' /\ QueuesAgree'
<1> USE DEF QueuesInvariant
<1> DEFINE q == mboxq[m]
           P(i) == {q[j] : j \in 1..(i - 1)}
           rest(i) == SubSeq(q, i + 1, Len(q))
<1>1. PICK i \in DOMAIN q :
          /\ FirstEligible(q, i)
          /\ PassOver(P(i))
          /\ mboxq' = [mboxq EXCEPT ![m] = rest(i)]
          /\ hasData' = IF rest(i) = <<>> THEN [hasData EXCEPT ![m] = "data"]
                                         ELSE hasData
          /\ state' = StateReadied(<<q[i]>>)
          /\ blocked' = BlockedReadied(<<q[i]>>)
          /\ runq' = Append(runq, q[i])
  BY DEF SendToWaiter
<1> DEFINE t == q[i]
           passed == P(i)
<1>2. /\ m \in Objects /\ QueueOf(m) = q /\ hasData[m] = "waiters"
      /\ IsQueueOf(q, InLineFor(m)) /\ q \in Seq(Threads)
  BY QueueOfType DEF SendToWaiter, QueueOf, IsWaiting, QueuesAgree, Objects
<1>3. /\ i \in 1..Len(q) /\ DOMAIN q = 1..Len(q) /\ Len(q) \in Nat
      /\ 1..i = 1..(i - 1) \cup {i} /\ i \notin 1..(i - 1)
      /\ 1..(i - 1) \subseteq DOMAIN q
  <2>1. i \in 1..Len(q) /\ DOMAIN q = 1..Len(q) /\ Len(q) \in Nat
    BY <1>2, LenProperties
  <2> QED  BY <2>1
<1>4. /\ t \in InLineFor(m) /\ passed \subseteq InLineFor(m) /\ t \notin passed
      /\ {q[j] : j \in 1..i} = passed \cup {t}
  BY <1>2, <1>3 DEF IsQueueOf, Range, IsInjective
<1>5. suspend[t] = 0 /\ \A x \in passed : suspend[x] # 0
  BY <1>1 DEF FirstEligible
<1>6. rest(i) \in Seq(Threads) /\ IsQueueOf(rest(i), InLineFor(m) \ (passed \cup {t}))
  <2>1. IsInjective(q) /\ Range(q) = InLineFor(m)
    BY <1>2 DEF IsQueueOf
  <2> QED  BY <1>2, <1>3, <1>4, <2>1, BehindQueue
<1>7. QueueOf(m)' = rest(i) /\ \A o \in Objects \ {m} : QueueOf(o)' = QueueOf(o)
  <2>1. hasData' = [hasData EXCEPT ![m] = IF rest(i) = <<>> THEN "data" ELSE "waiters"]
    BY <1>1, <1>2 DEF MailboxTypeOK
  <2> HIDE DEF rest
  <2> QED  BY <1>1, <2>1, OtherQueues
<1>8. /\ state' = [x \in Threads |-> IF x = t THEN "WAITING" ELSE state[x]]
      /\ blocked' = [x \in Threads |-> IF x = t THEN Zero ELSE blocked[x]]
      /\ suspend' = [x \in Threads |-> IF x \in passed THEN 0 - suspend[x] ELSE suspend[x]]
      /\ runq' = Append(runq, t)
  BY <1>1 DEF StateReadied, BlockedReadied, PassOver, Range
<1> HIDE DEF q, t, passed, rest, P
<1>9. \A x \in passed \cup {t} :
         /\ x \in Threads /\ Queued(x) /\ blocked[x] = m /\ suspend[x] \in Int
         /\ \A w : w # m => x \notin InLineFor(w)
  BY <1>4 DEF InLineFor, RecordTypeOK
<1>10. ASSUME NEW w
       PROVE  InLineFor(w)' = IF w = Zero THEN InLineFor(Zero) \cup {t}
                              ELSE InLineFor(w) \ (passed \cup {t})
  <2>1. m # Zero
    BY ObjectsDiffer
  <2>2. \A x \in passed : 0 - suspend[x] < 0
    BY <1>5, <1>9 DEF Queued
  <2> QED  BY <1>4, <1>5, <1>8, <1>9, <2>1, <2>2 DEF InLineFor, Queued, RecordTypeOK
<1>11. m # Zero /\ m # TimeEvent /\ Zero # TimeEvent
  BY ObjectsDiffer
<1>12. IsQueueOf(runq, InLineFor(Zero))'
  <2>1. IsQueueOf(Append(runq, t), InLineFor(Zero) \cup {t})
    BY <1>9, <1>11, AppendQueue DEF QueuesAgree, KernelTypeOK
  <2> QED  BY <1>8, <1>10, <2>1
<1>13. timers' = InLineFor(TimeEvent)'
  BY <1>9, <1>10, <1>11 DEF QueuesAgree
<1>14. \A o \in Objects : IsQueueOf(QueueOf(o), InLineFor(o))'
  BY <1>6, <1>7, <1>9, <1>10, ObjectsDiffer DEF QueuesAgree
<1>15. SlotsAgree'
  <2>1. \A x \in passed : state[x] = "SUSPEND"
    BY <1>5, <1>9, <1>11 DEF SlotsAgree
  <2> QED  BY <1>4, <1>5, <1>8, <1>9, <1>11, <2>1, ObjectsDiffer DEF SlotsAgree, Queued, RecordTypeOK
<1> QED  BY <1>12, <1>13, <1>14, <1>15 DEF QueuesAgree

LEMMA SendPastWaitersQueues ==
    ASSUME QueuesInvariant, NEW m \in Mailboxes, NEW front \in BOOLEAN,
           SendPastWaiters(m, front), UNCHANGED <<waitq, timers, current>>
    PROVE  SlotsAgree' /\ QueuesAgree'
<1> USE DEF QueuesInvariant
<1>1. /\ m \in Objects /\ QueueOf(m) = mboxq[m]
      /\ IsQueueOf(mboxq[m], InLineFor(m)) /\ mboxq[m] \in Seq(Threads)
  BY QueueOfType DEF SendPastWaiters, QueueOf, IsWaiting, QueuesAgree, Objects
<1>2. Range(mboxq[m]) = InLineFor(m)
  BY <1>1 DEF IsQueueOf
<1>3. \A x \in InLineFor(m) : suspend[x] \in Int /\ suspend[x] > 0
  <2>1. \A x \in InLineFor(m) : suspend[x] # 0
    BY <1>2 DEF SendPastWaiters, NoneEligible, Range
  <2> QED  BY <2>1 DEF InLineFor, Queued, RecordTypeOK
<1>4. /\ suspend' = [x \in Threads |-> IF x \in InLineFor(m) THEN 0 - suspend[x]
                                                            ELSE suspend[x]]
      /\ UNCHANGED <<state, blocked, runq, current, timers>>
  BY <1>2 DEF SendPastWaiters, PassOver
<1>5. /\ QueueOf(m)' = <<>>
      /\ \A o \in Objects \ {m} : QueueOf(o)' = QueueOf(o)
  BY OtherQueues DEF SendPastWaiters, Enqueue
<1>6. \A w : InLineFor(w)' = IF w = m THEN {} ELSE InLineFor(w)
  <2>1. \A x \in InLineFor(m) : 0 - suspend[x] < 0
    BY <1>3
  <2>2. \A x \in Threads : x \notin InLineFor(m) => suspend'[x] = suspend[x]
    BY <1>4
  <2>3. \A x \in InLineFor(m) : suspend'[x] < 0 /\ blocked[x] = m
    BY <1>4, <2>1 DEF InLineFor
  <2> QED  BY <1>3, <1>4, <2>2, <2>3 DEF InLineFor, Queued, RecordTypeOK
<1>7. \A o \in Objects : IsQueueOf(QueueOf(o), InLineFor(o))'
  BY <1>5, <1>6, EmptyQueue DEF QueuesAgree
<1>8. SlotsAgree'
  <2>1. \A x \in InLineFor(m) : x \in Threads /\ Queued(x) /\ blocked[x] = m
    BY DEF InLineFor
  <2>2. \A x \in InLineFor(m) : state[x] = "SUSPEND"
    BY <1>3, <2>1, ObjectsDiffer DEF SlotsAgree
  <2> QED  BY <1>3, <1>4, <2>1, <2>2, ObjectsDiffer DEF SlotsAgree, Queued, RecordTypeOK
<1> QED  BY <1>1, <1>4, <1>6, <1>7, <1>8, ObjectsDiffer DEF QueuesAgree

LEMMA ReceiveNowQueues ==
    ASSUME QueuesInvariant, NEW m \in Mailboxes, ReceiveNow(m)
    PROVE  SlotsAgree' /\ QueuesAgree'
<1> USE DEF QueuesInvariant
<1>1. SlotsAgree' /\ \A w : InLineFor(w)' = InLineFor(w)
  BY SlotsAlone DEF ReceiveNow, threadVars
<1>2. \A o \in Objects : QueueOf(o)' = QueueOf(o)
  BY DEF ReceiveNow, QueueOf, IsWaiting, MailboxTypeOK
<1> QED  BY <1>1, <1>2 DEF ReceiveNow, QueuesAgree

LEMMA ReceiveBlocksQueues ==
    ASSUME QueuesInvariant, NEW m \in Mailboxes, ReceiveBlocks(m)
    PROVE  SlotsAgree' /\ QueuesAgree'
<1> USE DEF QueuesInvariant
<1>1. /\ current \in Threads
      /\ blocked[current] = Zero /\ suspend[current] = 0
      /\ \A w : current \notin InLineFor(w)
  BY RunningSlots DEF ReceiveBlocks, Free
<1>2. current' = Zero /\ \A t \in Threads : t # current'
  BY ObjectsDiffer DEF ReceiveBlocks, Block, SwitchOut
<1>3. m # Zero /\ m # TimeEvent /\ m \in Objects
  BY ObjectsDiffer DEF Objects
<1>4. \A w : InLineFor(w)' = IF w = m THEN InLineFor(m) \cup {current} ELSE InLineFor(w)
  BY <1>1, <1>2, <1>3 DEF ReceiveBlocks, Block, InLineFor, Queued, RecordTypeOK
<1>5. /\ QueueOf(m)' = Append(QueueOf(m), current)
      /\ \A o \in Objects \ {m} : QueueOf(o)' = QueueOf(o)
  <2>1. QueueOf(m) = mboxq[m]
    BY DEF ReceiveBlocks, QueueOf, IsWaiting
  <2>2. mboxq' = [mboxq EXCEPT ![m] = Append(mboxq[m], current)]
    BY DEF ReceiveBlocks
  <2> QED  BY <2>1, <2>2, OtherQueues DEF ReceiveBlocks
<1>6. \A o \in Objects : IsQueueOf(QueueOf(o), InLineFor(o))'
  <2>1. IsQueueOf(Append(QueueOf(m), current), InLineFor(m) \cup {current})
    BY <1>1, <1>3, QueueOfType, AppendQueue DEF QueuesAgree
  <2> QED  BY <1>4, <1>5, <2>1 DEF QueuesAgree
<1>7. SlotsAgree'
  BY <1>1, <1>2, ObjectsDiffer DEF ReceiveBlocks, Block, SlotsAgree, RecordTypeOK
<1> QED  BY <1>3, <1>4, <1>6, <1>7, ObjectsDiffer DEF ReceiveBlocks, QueuesAgree

LEMMA CloseMailboxQueues ==
    ASSUME QueuesInvariant, NEW m \in Mailboxes, CloseMailbox(m)
    PROVE  SlotsAgree' /\ QueuesAgree'
<1> USE DEF QueuesInvariant
<1>1. m # Zero /\ m # TimeEvent /\ m \in Objects /\ Zero # TimeEvent
  BY ObjectsDiffer DEF Objects
<1>2. CASE ~IsWaiting(m)
  <2>1. SlotsAgree' /\ \A w : InLineFor(w)' = InLineFor(w)
    BY <1>2, SlotsAlone DEF CloseMailbox
  <2>2. \A o \in Objects : QueueOf(o)' = QueueOf(o)
    BY <1>2 DEF CloseMailbox, QueueOf, IsWaiting, MailboxTypeOK
  <2> QED  BY <1>2, <2>1, <2>2 DEF CloseMailbox, QueuesAgree
<1>3. CASE IsWaiting(m)
  <2> DEFINE q == mboxq[m]
             passed == {t \in Range(q) : suspend[t] # 0}
             W == {t \in Range(q) : suspend[t] = 0}
  <2>1. PICK woken \in EligibleOnly(q) :
              /\ state' = StateReadied(woken)
              /\ blocked' = BlockedReadied(woken)
              /\ runq' = runq \o woken
              /\ PassOver(passed)
              /\ mboxq' = [mboxq EXCEPT ![m] = <<>>]
              /\ hasData' = [hasData EXCEPT ![m] = "closed"]
    BY <1>3 DEF CloseMailbox
  <2>2. UNCHANGED <<waitq, timers, current>>
    BY DEF CloseMailbox
  <2>3. /\ IsInjective(q) /\ q \in Seq(Threads)
        /\ Range(q) = InLineFor(m)
    BY <1>1, <1>3, QueueOfType DEF QueueOf, QueuesAgree, IsQueueOf
  <2>4. woken \in Seq(Threads) /\ IsQueueOf(woken, W)
    BY <2>1, <2>3, EligibleQueue, EligibleOnlyType
  <2>5. InLineFor(m) = W \cup passed /\ W \cap passed = {}
    BY <2>3
  <2>6. /\ \A t \in W : suspend[t] = 0
        /\ \A t \in passed : suspend[t] # 0
    OBVIOUS
  <2>7. /\ state' = [x \in Threads |-> IF x \in W THEN "WAITING" ELSE state[x]]
        /\ blocked' = [x \in Threads |-> IF x \in W THEN Zero ELSE blocked[x]]
        /\ suspend' = [x \in Threads |-> IF x \in passed THEN 0 - suspend[x] ELSE suspend[x]]
    BY <2>1, <2>4 DEF StateReadied, BlockedReadied, PassOver, IsQueueOf
  <2> HIDE DEF q, passed, W
  <2>8. \A x \in W \cup passed :
           /\ x \in Threads /\ Queued(x) /\ blocked[x] = m /\ suspend[x] \in Int
           /\ \A w : w # m => x \notin InLineFor(w)
    BY <2>5 DEF InLineFor, RecordTypeOK
  <2>9. \A w : InLineFor(w)' = IF w = m THEN {}
                               ELSE IF w = Zero THEN InLineFor(Zero) \cup W
                               ELSE InLineFor(w)
    <3>1. \A x \in passed : suspend'[x] < 0 /\ x \in Threads
      BY <2>6, <2>7, <2>8 DEF Queued
    <3>2. \A x \in Threads : x \notin passed => suspend'[x] = suspend[x]
      BY <2>7
    <3> QED  BY <1>1, <2>2, <2>5, <2>6, <2>7, <2>8, <3>1, <3>2
                DEF InLineFor, Queued, RecordTypeOK
  <2>10. /\ QueueOf(m)' = <<>>
         /\ \A o \in Objects \ {m} : QueueOf(o)' = QueueOf(o)
    BY <2>1, <2>2, OtherQueues
  <2>11. IsQueueOf(runq, InLineFor(Zero))'
    <3>1. InLineFor(Zero) \cap W = {}
      BY <1>1, <2>8
    <3>2. IsQueueOf(runq \o woken, InLineFor(Zero) \cup W)
      BY <2>4, <3>1, ConcatQueue DEF QueuesAgree, KernelTypeOK
    <3> QED  BY <1>1, <2>1, <2>9, <3>2
  <2>12. \A o \in Objects : IsQueueOf(QueueOf(o), InLineFor(o))'
    BY <2>9, <2>10, EmptyQueue, ObjectsDiffer DEF QueuesAgree
  <2>13. SlotsAgree'
    <3>1. \A x \in passed : state[x] = "SUSPEND"
      BY <1>1, <2>6, <2>8 DEF SlotsAgree
    <3> QED  BY <1>1, <2>2, <2>6, <2>7, <2>8, <3>1, ObjectsDiffer
                DEF SlotsAgree, Queued, RecordTypeOK
  <2> QED  BY <1>1, <2>2, <2>9, <2>11, <2>12, <2>13, ObjectsDiffer DEF QueuesAgree
<1> QED  BY <1>2, <1>3

LEMMA MailboxStepQueues ==
    ASSUME QueuesInvariant, MailboxNext
    PROVE  SlotsAgree' /\ QueuesAgree'
<1>1. ASSUME NEW m \in Mailboxes, NEW front \in BOOLEAN, SendMessage(m, front)
      PROVE  SlotsAgree' /\ QueuesAgree'
  BY <1>1, SendToQueueQueues, SendToWaiterQueues, SendPastWaitersQueues DEF SendMessage
<1> QED  BY <1>1, ReceiveNowQueues, ReceiveBlocksQueues, CloseMailboxQueues DEF MailboxNext

LEMMA KernelStepQueues ==
    ASSUME QueuesInvariant, KernelNext
    PROVE  SlotsAgree' /\ QueuesAgree'
<1>1. CASE EndPoll \/ Idle
  <2>1. /\ UNCHANGED <<runq, timers, mboxq, hasData, waitq>>
        /\ UNCHANGED <<state, suspend, blocked, current>>
    BY <1>1 DEF EndPoll, Idle, threadVars, objectVars
  <2>2. SlotsAgree' /\ \A w : InLineFor(w)' = InLineFor(w)
    BY <2>1, SlotsAlone DEF QueuesInvariant
  <2> QED  BY <2>1, <2>2, ObjectsAlone DEF QueuesInvariant, QueuesAgree
<1> QED  BY <1>1, YieldQueues, SleepQueues, TimerFiresQueues, DispatchQueues,
            SkipSuspendedQueues DEF KernelNext

-----------------------------------------------------------------------------
(* Semaphores, conditions, futures, processes and joins.                   *)

(* The queues of the objects that are no mailboxes are their lists.        *)
LEMMA WaitableQueues ==
    ASSUME TypeOK
    PROVE  /\ \A o \in Waitables : o \in Objects /\ QueueOf(o) = waitq[o]
           /\ UNCHANGED <<mboxq, hasData>> =>
                 /\ \A m \in Mailboxes : QueueOf(m)' = QueueOf(m)
                 /\ \A o \in Waitables : QueueOf(o)' = waitq'[o]
  BY ObjectsDiffer DEF QueueOf, IsWaiting, Objects

(* Some of the waiters of o are made ready.                                *)
LEMMA WokenQueues ==
    ASSUME QueuesInvariant, NEW o \in Waitables,
           NEW q \in Seq(Threads), NEW W \in SUBSET InLineFor(o), IsQueueOf(q, W),
           NEW r, IsQueueOf(r, InLineFor(o) \ W),
           state' = StateReadied(q), blocked' = BlockedReadied(q),
           runq' = runq \o q, waitq' = [waitq EXCEPT ![o] = r],
           UNCHANGED <<suspend, mboxq, hasData, timers, current>>
    PROVE  SlotsAgree' /\ QueuesAgree'
<1> USE DEF QueuesInvariant
<1>1. o # Zero /\ o # TimeEvent /\ Zero # TimeEvent /\ o \in Objects
  BY ObjectsDiffer DEF Objects
<1>2. \A x \in W : /\ x \in Threads /\ Queued(x) /\ blocked[x] = o
                   /\ \A w : w # o => x \notin InLineFor(w)
  BY DEF InLineFor
<1>3. /\ state' = [x \in Threads |-> IF x \in W THEN "WAITING" ELSE state[x]]
      /\ blocked' = [x \in Threads |-> IF x \in W THEN Zero ELSE blocked[x]]
      /\ runq' = runq \o q
  BY DEF StateReadied, BlockedReadied, IsQueueOf
<1>4. \A w : InLineFor(w)' = IF w = Zero THEN InLineFor(Zero) \cup W
                             ELSE InLineFor(w) \ W
  BY <1>1, <1>2, <1>3 DEF InLineFor, Queued, RecordTypeOK
<1>5. IsQueueOf(runq, InLineFor(Zero))'
  <2>1. InLineFor(Zero) \cap W = {}
    BY <1>1, <1>2
  <2>2. IsQueueOf(runq \o q, InLineFor(Zero) \cup W)
    BY <2>1, ConcatQueue DEF QueuesAgree, KernelTypeOK
  <2> QED  BY <1>3, <1>4, <2>2
<1>6. timers' = InLineFor(TimeEvent)'
  BY <1>1, <1>2, <1>4 DEF QueuesAgree
<1>7. ASSUME NEW x \in Objects
      PROVE  IsQueueOf(QueueOf(x), InLineFor(x))'
  <2>1. CASE x = o
    <3>1. QueueOf(o)' = r
      BY WaitableQueues DEF ObjectTypeOK
    <3>2. InLineFor(o)' = InLineFor(o) \ W
      BY <1>1, <1>4
    <3> QED  BY <2>1, <3>1, <3>2
  <2>2. CASE x # o
    <3>1. QueueOf(x)' = QueueOf(x)
      BY <2>2, WaitableQueues DEF ObjectTypeOK, Objects
    <3>2. InLineFor(x)' = InLineFor(x)
      BY <1>2, <1>4, <2>2, ObjectsDiffer
    <3> QED  BY <3>1, <3>2 DEF QueuesAgree
  <2> QED  BY <2>1, <2>2
<1>8. SlotsAgree'
  BY <1>1, <1>2, <1>3, ObjectsDiffer DEF SlotsAgree, Queued, RecordTypeOK
<1> QED  BY <1>5, <1>6, <1>7, <1>8 DEF QueuesAgree

(* The current thread joins the waiters of o.                              *)
LEMMA BlockQueues ==
    ASSUME QueuesInvariant, Running, NEW o \in Waitables, o # current,
           NEW k, Block(o, "BLOCKED", k),
           NEW r, IsQueueOf(r, InLineFor(o) \cup {current}),
           waitq' = [waitq EXCEPT ![o] = r],
           UNCHANGED <<suspend, runq, mboxq, hasData, timers>>
    PROVE  SlotsAgree' /\ QueuesAgree'
<1> USE DEF QueuesInvariant
<1>1. /\ current \in Threads
      /\ blocked[current] = Zero /\ suspend[current] = 0
      /\ \A w : current \notin InLineFor(w)
  BY RunningSlots
<1>2. current' = Zero /\ \A t \in Threads : t # current'
  BY ObjectsDiffer DEF Block, SwitchOut
<1>3. o # Zero /\ o # TimeEvent /\ o \in Objects
  BY ObjectsDiffer DEF Objects
<1>4. \A w : InLineFor(w)' = IF w = o THEN InLineFor(o) \cup {current} ELSE InLineFor(w)
  BY <1>1, <1>2, <1>3 DEF Block, InLineFor, Queued, RecordTypeOK
<1>5. ASSUME NEW x \in Objects
      PROVE  IsQueueOf(QueueOf(x), InLineFor(x))'
  <2>1. CASE x = o
    BY <1>4, <2>1, WaitableQueues DEF ObjectTypeOK
  <2>2. CASE x # o
    <3>1. QueueOf(x)' = QueueOf(x)
      BY <2>2, WaitableQueues DEF ObjectTypeOK, Objects
    <3> QED  BY <1>4, <2>2, <3>1 DEF QueuesAgree
  <2> QED  BY <2>1, <2>2
<1>6. SlotsAgree'
  BY <1>1, <1>2, <1>3, ObjectsDiffer DEF Block, SlotsAgree, RecordTypeOK
<1> QED  BY <1>3, <1>4, <1>5, <1>6, ObjectsDiffer DEF QueuesAgree

(* What semaphore-signal pops, and what it leaves.                         *)
LEMMA SignalledQueues ==
    ASSUME QueuesInvariant, NEW s \in Semaphores
    PROVE  LET W == Range(Signalled(s)) IN
           /\ Signalled(s) \in Seq(Threads) /\ IsQueueOf(Signalled(s), W)
           /\ W \subseteq InLineFor(s)
           /\ WaitersLeft(s) \in Seq(Threads)
           /\ IsQueueOf(WaitersLeft(s), InLineFor(s) \ W)
<1> USE DEF QueuesInvariant
<1>1. s \in Waitables /\ waitq[s] \in Seq(Threads)
  BY ObjectsDiffer DEF ObjectTypeOK
<1>2. IsQueueOf(waitq[s], InLineFor(s))
  BY <1>1, WaitableQueues DEF QueuesAgree
<1>3. CASE PopsWaiter(s)
  <2>1. waitq[s] # <<>>
    BY <1>3 DEF PopsWaiter
  <2>2. /\ Head(waitq[s]) \in Range(waitq[s]) /\ Head(waitq[s]) \in Threads
        /\ Tail(waitq[s]) \in Seq(Threads)
        /\ IsQueueOf(Tail(waitq[s]), Range(waitq[s]) \ {Head(waitq[s])})
    BY <1>1, <1>2, <2>1, TailQueue, HeadTailProperties DEF IsQueueOf
  <2>3. IsQueueOf(<<Head(waitq[s])>>, {Head(waitq[s])})
    BY <2>2, SingleQueue
  <2> QED  BY <1>2, <1>3, <2>2, <2>3 DEF Signalled, WaitersLeft, IsQueueOf
<1>4. CASE ~PopsWaiter(s)
  BY <1>1, <1>2, <1>4, EmptyQueue, EmptySeq DEF Signalled, WaitersLeft, IsQueueOf
<1> QED  BY <1>3, <1>4

LEMMA SemaphoreQueues ==
    ASSUME QueuesInvariant, NEW s \in Semaphores,
           SemaphoreSignal(s) \/ SemaphoreWait(s)
    PROVE  SlotsAgree' /\ QueuesAgree'
<1> USE DEF QueuesInvariant
<1>1. s \in Waitables /\ s \notin Threads
  BY DistinctAssumption DEF Waitables
<1>2. CASE SemaphoreSignal(s)
  BY <1>1, <1>2, SignalledQueues, WokenQueues DEF SemaphoreSignal, MakeReady
<1>3. CASE SemaphoreWait(s) /\ count[s] - 1 < 0
  <2>1. /\ current \in Threads /\ current \notin InLineFor(s)
    BY <1>3, RunningSlots DEF SemaphoreWait
  <2>2. IsQueueOf(Append(waitq[s], current), InLineFor(s) \cup {current})
    BY <1>1, <2>1, WaitableQueues, AppendQueue DEF QueuesAgree, ObjectTypeOK
  <2>3. /\ Running /\ Block(s, "BLOCKED", "plain")
        /\ waitq' = [waitq EXCEPT ![s] = Append(waitq[s], current)]
        /\ UNCHANGED <<suspend, runq, mboxq, hasData, timers>>
    BY <1>3 DEF SemaphoreWait
  <2>4. s # current
    BY <1>1, <2>1
  <2> QED  BY <1>1, <2>2, <2>3, <2>4, BlockQueues
<1>4. CASE SemaphoreWait(s) /\ ~(count[s] - 1 < 0)
  <2>1. /\ UNCHANGED <<runq, timers, mboxq, hasData, waitq>>
        /\ UNCHANGED <<state, suspend, blocked, current>>
    BY <1>4 DEF SemaphoreWait
  <2>2. SlotsAgree' /\ \A w : InLineFor(w)' = InLineFor(w)
    BY <2>1, SlotsAlone
  <2> QED  BY <2>1, <2>2, ObjectsAlone DEF QueuesAgree
<1> QED  BY <1>2, <1>3, <1>4

LEMMA ConditionWaitQueues ==
    ASSUME QueuesInvariant, NEW s \in Semaphores, NEW c \in Conditions,
           ConditionWait(s, c)
    PROVE  SlotsAgree' /\ QueuesAgree'
<1> USE DEF QueuesInvariant
<1> DEFINE q == Signalled(s)
           W == Range(q)
<1>1. /\ s \in Objects /\ c \in Objects /\ s # c /\ c # Zero /\ c # TimeEvent
      /\ s # Zero /\ s # TimeEvent /\ c \notin Threads /\ Zero # TimeEvent
      /\ c \notin Mailboxes \cup Processes
      /\ s \in Waitables /\ c \in Waitables
  BY DistinctAssumption DEF Objects, Waitables
<1>2. /\ current \in Threads
      /\ blocked[current] = Zero /\ suspend[current] = 0
      /\ \A w : current \notin InLineFor(w)
  BY RunningSlots DEF ConditionWait, Free
<1>3. current' = Zero /\ \A t \in Threads : t # current'
  BY ObjectsDiffer DEF ConditionWait, SwitchOut
<1>4. /\ q \in Seq(Threads) /\ IsQueueOf(q, W) /\ W \subseteq InLineFor(s)
      /\ IsQueueOf(WaitersLeft(s), InLineFor(s) \ W)
  BY SignalledQueues
<1>5. /\ state' = [x \in Threads |-> IF x = current THEN "BLOCKED"
                                     ELSE IF x \in W THEN "WAITING" ELSE state[x]]
      /\ blocked' = [x \in Threads |-> IF x = current THEN c
                                       ELSE IF x \in W THEN Zero ELSE blocked[x]]
      /\ runq' = runq \o q
      /\ waitq' = [waitq EXCEPT ![s] = WaitersLeft(s), ![c] = Append(waitq[c], current)]
      /\ UNCHANGED <<suspend, mboxq, hasData, timers>>
  BY <1>1, <1>2 DEF ConditionWait, StateReadied, BlockedReadied, ObjectTypeOK
<1> HIDE DEF q, W
<1>6. \A x \in W : /\ x \in Threads /\ Queued(x) /\ blocked[x] = s /\ x # current
                   /\ \A w : w # s => x \notin InLineFor(w)
  BY <1>2, <1>4 DEF InLineFor
<1>7. ASSUME NEW w
      PROVE  InLineFor(w)' = IF w = Zero THEN InLineFor(Zero) \cup W
                             ELSE IF w = s THEN InLineFor(s) \ W
                             ELSE IF w = c THEN InLineFor(c) \cup {current}
                             ELSE InLineFor(w)
  BY <1>1, <1>2, <1>3, <1>5, <1>6 DEF InLineFor, Queued, RecordTypeOK
<1>8. IsQueueOf(runq, InLineFor(Zero))'
  <2>1. InLineFor(Zero) \cap W = {}
    BY <1>1, <1>6
  <2>2. IsQueueOf(runq \o q, InLineFor(Zero) \cup W)
    BY <1>4, <2>1, ConcatQueue DEF QueuesAgree, KernelTypeOK
  <2> QED  BY <1>5, <1>7, <2>2
<1>9. timers' = InLineFor(TimeEvent)'
  BY <1>1, <1>5, <1>7 DEF QueuesAgree
<1>10. ASSUME NEW x \in Objects
       PROVE  IsQueueOf(QueueOf(x), InLineFor(x))'
  <2>1. x # Zero
    BY ObjectsDiffer
  <2>2. CASE x = s
    <3>1. QueueOf(s)' = WaitersLeft(s)
      BY <1>1, <1>5, WaitableQueues DEF ObjectTypeOK
    <3> QED  BY <1>4, <1>7, <2>1, <2>2, <3>1
  <2>3. CASE x = c
    <3>1. QueueOf(c)' = Append(waitq[c], current)
      BY <1>1, <1>5, WaitableQueues DEF ObjectTypeOK
    <3>2. IsQueueOf(Append(waitq[c], current), InLineFor(c) \cup {current})
      BY <1>1, <1>2, WaitableQueues, AppendQueue DEF QueuesAgree, ObjectTypeOK
    <3> QED  BY <1>1, <1>7, <2>1, <2>3, <3>1, <3>2
  <2>4. CASE x # s /\ x # c
    <3>1. QueueOf(x)' = QueueOf(x)
      BY <1>5, <2>4, WaitableQueues DEF ObjectTypeOK, Objects
    <3> QED  BY <1>7, <2>1, <2>4, <3>1 DEF QueuesAgree
  <2> QED  BY <2>2, <2>3, <2>4
<1>11. SlotsAgree'
  BY <1>1, <1>2, <1>3, <1>5, <1>6, ObjectsDiffer DEF SlotsAgree, Queued, RecordTypeOK
<1> QED  BY <1>8, <1>9, <1>10, <1>11 DEF QueuesAgree

(* A condition, a future: every waiter is made ready.                      *)
LEMMA AllWokenQueues ==
    ASSUME QueuesInvariant, NEW o \in Waitables,
           waitq' = [waitq EXCEPT ![o] = <<>>], MakeReady(waitq[o]),
           UNCHANGED <<suspend, mboxq, hasData, timers, current>>
    PROVE  SlotsAgree' /\ QueuesAgree'
<1> USE DEF QueuesInvariant
<1>1. waitq[o] \in Seq(Threads) /\ IsQueueOf(waitq[o], InLineFor(o))
  BY WaitableQueues DEF QueuesAgree, ObjectTypeOK
<1>2. IsQueueOf(<<>>, InLineFor(o) \ InLineFor(o))
  BY EmptyQueue
<1> QED  BY <1>1, <1>2, WokenQueues DEF MakeReady

(* A future that is not set, a process that runs, a thread to be joined:   *)
(* the current thread is put in front of the list.                         *)
LEMMA AwaitQueues ==
    ASSUME QueuesInvariant, Free, NEW o \in Waitables, o # current, NEW k,
           waitq' = [waitq EXCEPT ![o] = <<current>> \o @],
           Block(o, "BLOCKED", k),
           UNCHANGED <<suspend, runq, mboxq, hasData, timers>>
    PROVE  SlotsAgree' /\ QueuesAgree'
<1> USE DEF QueuesInvariant
<1>1. current \in Threads /\ current \notin InLineFor(o)
  BY RunningSlots DEF Free
<1>2. IsQueueOf(<<current>> \o waitq[o], InLineFor(o) \cup {current})
  BY <1>1, WaitableQueues, PrependQueue DEF QueuesAgree, ObjectTypeOK
<1> QED  BY <1>2, BlockQueues DEF Free

LEMMA ChildExitedQueues ==
    ASSUME QueuesInvariant, NEW p \in Processes, ChildExited(p)
    PROVE  SlotsAgree' /\ QueuesAgree'
<1> USE DEF QueuesInvariant
<1>1. p \in Waitables
  BY DEF Waitables
<1>2. waitq[p] \in Seq(Threads) /\ IsQueueOf(waitq[p], InLineFor(p))
  BY <1>1, WaitableQueues DEF QueuesAgree, ObjectTypeOK
<1>3. Range(waitq[p]) = InLineFor(p) /\ \A t \in InLineFor(p) : suspend[t] = 0
  BY <1>2 DEF IsQueueOf, InLineFor, SlotsAgree
<1>4. PICK woken \in EligibleOnly(waitq[p]) :
         state' = StateReadied(woken) /\ runq' = runq \o woken
  BY DEF ChildExited
<1>5. woken \in Seq(Threads) /\ IsQueueOf(woken, InLineFor(p))
  <2>1. IsQueueOf(woken, {t \in Range(waitq[p]) : suspend[t] = 0})
    BY <1>2, EligibleQueue DEF IsQueueOf
  <2>2. {t \in Range(waitq[p]) : suspend[t] = 0} = InLineFor(p)
    BY <1>3
  <2> QED  BY <1>2, <2>1, <2>2, EligibleOnlyType
<1>6. blocked' = BlockedReadied(woken)
  BY <1>3, <1>5 DEF ChildExited, BlockedReadied, IsQueueOf
<1>7. /\ waitq' = [waitq EXCEPT ![p] = <<>>]
      /\ UNCHANGED <<suspend, mboxq, hasData, timers, current>>
  BY DEF ChildExited
<1>8. IsQueueOf(<<>>, InLineFor(p) \ InLineFor(p))
  BY EmptyQueue
<1> QED  BY <1>1, <1>4, <1>5, <1>6, <1>7, <1>8, WokenQueues

(* The end of a thread: its joiners are made ready, and it is complete.    *)
LEMMA ExitQueues ==
    ASSUME QueuesInvariant, Exit
    PROVE  SlotsAgree' /\ QueuesAgree'
<1> USE DEF QueuesInvariant
<1>0. PICK u \in Threads : u = current
  BY RunningSlots DEF Exit, Free
<1> DEFINE W == InLineFor(u)
           q == waitq[u]
<1>1. /\ u \in Waitables
      /\ blocked[u] = Zero /\ suspend[u] = 0
      /\ \A w : u \notin InLineFor(w)
  BY <1>0, RunningSlots, ObjectsDiffer DEF Exit, Free
<1>2. current' = Zero /\ \A t \in Threads : t # current'
  BY ObjectsDiffer DEF Exit, SwitchOut
<1>3. q \in Seq(Threads) /\ IsQueueOf(q, W)
  BY <1>1, WaitableQueues DEF QueuesAgree, ObjectTypeOK
<1>4. /\ state' = [x \in Threads |-> IF x = u THEN "COMPLETE"
                                     ELSE IF x \in W THEN "WAITING" ELSE state[x]]
      /\ blocked' = [x \in Threads |-> IF x = u THEN Zero
                                       ELSE IF x \in W THEN Zero ELSE blocked[x]]
      /\ runq' = runq \o q
      /\ waitq' = [waitq EXCEPT ![u] = <<>>]
      /\ UNCHANGED <<suspend, mboxq, hasData, timers>>
  BY <1>0, <1>1, <1>3 DEF Exit, StateReadied, BlockedReadied, IsQueueOf
<1>5. u # Zero /\ u # TimeEvent /\ Zero # TimeEvent /\ u \in Objects
  BY <1>1, ObjectsDiffer DEF Objects
<1>6. \A x \in W : /\ x \in Threads /\ Queued(x) /\ blocked[x] = u /\ x # u
                   /\ \A w : w # u => x \notin InLineFor(w)
  BY <1>1 DEF InLineFor
<1> HIDE DEF W, q
<1>7. \A w : InLineFor(w)' = IF w = Zero THEN InLineFor(Zero) \cup W
                             ELSE InLineFor(w) \ W
  BY <1>0, <1>1, <1>2, <1>4, <1>5, <1>6 DEF InLineFor, Queued, RecordTypeOK
<1>8. IsQueueOf(runq, InLineFor(Zero))'
  <2>1. InLineFor(Zero) \cap W = {}
    BY <1>5, <1>6
  <2>2. IsQueueOf(runq \o q, InLineFor(Zero) \cup W)
    BY <1>3, <2>1, ConcatQueue DEF QueuesAgree, KernelTypeOK
  <2> QED  BY <1>4, <1>7, <2>2
<1>9. timers' = InLineFor(TimeEvent)'
  BY <1>4, <1>5, <1>6, <1>7 DEF QueuesAgree
<1>10. ASSUME NEW x \in Objects
       PROVE  IsQueueOf(QueueOf(x), InLineFor(x))'
  <2>1. CASE x = u
    <3>1. QueueOf(u)' = <<>>
      BY <1>1, <1>4, WaitableQueues DEF ObjectTypeOK
    <3>2. InLineFor(u)' = {}
      BY <1>5, <1>7 DEF W
    <3> QED  BY <2>1, <3>1, <3>2, EmptyQueue
  <2>2. CASE x # u
    <3>1. QueueOf(x)' = QueueOf(x)
      BY <1>4, <2>2, WaitableQueues DEF ObjectTypeOK, Objects
    <3>2. InLineFor(x)' = InLineFor(x)
      BY <1>6, <1>7, <2>2, ObjectsDiffer
    <3> QED  BY <3>1, <3>2 DEF QueuesAgree
  <2> QED  BY <2>1, <2>2
<1>11. SlotsAgree'
  BY <1>0, <1>1, <1>2, <1>4, <1>5, <1>6, ObjectsDiffer DEF SlotsAgree, Queued, RecordTypeOK
<1> QED  BY <1>8, <1>9, <1>10, <1>11 DEF QueuesAgree

LEMMA SyncStepQueues ==
    ASSUME QueuesInvariant, SyncNext
    PROVE  SlotsAgree' /\ QueuesAgree'
<1>1. ASSUME NEW s \in Semaphores, NEW c \in Conditions, ConditionWait(s, c)
      PROVE  SlotsAgree' /\ QueuesAgree'
  BY <1>1, ConditionWaitQueues
<1>2. ASSUME NEW s \in Semaphores, SemaphoreSignal(s) \/ SemaphoreWait(s)
      PROVE  SlotsAgree' /\ QueuesAgree'
  BY <1>2, SemaphoreQueues
<1>3. ASSUME NEW c \in Conditions, ConditionSignal(c)
      PROVE  SlotsAgree' /\ QueuesAgree'
  BY <1>3, AllWokenQueues DEF ConditionSignal, Waitables
<1>4. ASSUME NEW f \in Futures, SetFuture(f)
      PROVE  SlotsAgree' /\ QueuesAgree'
  BY <1>4, AllWokenQueues DEF SetFuture, Waitables
<1>5. ASSUME NEW o \in Futures \cup Processes, Await(o)
      PROVE  SlotsAgree' /\ QueuesAgree'
  <2>1. o \in Waitables /\ o \notin Threads
    BY DistinctAssumption DEF Waitables
  <2>2. current \in Threads
    BY <1>5, RunningSlots DEF Await, Free, QueuesInvariant
  <2> QED  BY <1>5, <2>1, <2>2, AwaitQueues DEF Await
<1>6. ASSUME NEW u \in Threads, Join(u)
      PROVE  SlotsAgree' /\ QueuesAgree'
  BY <1>6, AwaitQueues DEF Join, Waitables
<1>7. ASSUME NEW p \in Processes, ChildExited(p)
      PROVE  SlotsAgree' /\ QueuesAgree'
  BY <1>7, ChildExitedQueues
<1> QED  BY <1>1, <1>2, <1>3, <1>4, <1>5, <1>6, <1>7, ExitQueues DEF SyncNext

-----------------------------------------------------------------------------
(* Suspension and resumption.                                              *)

LEMMA SuspendQueues ==
    ASSUME QueuesInvariant, Disciplined, NEW u \in Threads, Suspend(u)
    PROVE  SlotsAgree' /\ QueuesAgree'
<1> USE DEF QueuesInvariant
<1>1. u # current /\ blocked[u] \notin Processes
  BY ObjectsDiffer DEF Disciplined, Suspend, SuspendAllowed
<1>2. /\ suspend' = [suspend EXCEPT ![u] = IF @ < 0 THEN @ - 1 ELSE @ + 1]
      /\ state' = IF suspend[u] = 0 THEN [state EXCEPT ![u] = "SUSPEND"] ELSE state
      /\ UNCHANGED <<blocked, runq, waitq, mboxq, hasData, timers, current>>
      /\ state[u] # "COMPLETE" /\ suspend[u] \in Int
  BY DEF Suspend, objectVars, RecordTypeOK
<1>3. \A w : InLineFor(w)' = InLineFor(w)
  BY <1>2 DEF InLineFor, Queued, RecordTypeOK
<1>4. \A o \in Objects : IsQueueOf(QueueOf(o), InLineFor(o))'
  BY <1>2, <1>3, ObjectsAlone
<1>5. SlotsAgree'
  BY <1>1, <1>2 DEF SlotsAgree, RecordTypeOK
<1> QED  BY <1>2, <1>3, <1>4, <1>5 DEF QueuesAgree

(* A thread in nobody's line that is resumed and blocked on nothing.       *)
LEMMA BecomesReady ==
    ASSUME QueuesInvariant, NEW u \in Threads, u # current, suspend[u] = -1,
           suspend' = [suspend EXCEPT ![u] = 0],
           state' = [state EXCEPT ![u] = "WAITING"],
           blocked' = [blocked EXCEPT ![u] = Zero],
           runq' = Append(runq, u), UNCHANGED <<timers, current>>,
           \A o \in Objects : QueueOf(o)' = QueueOf(o)
    PROVE  SlotsAgree' /\ QueuesAgree'
<1> USE DEF QueuesInvariant
<1>1. \A w : u \notin InLineFor(w)
  BY DEF InLineFor, Queued
<1>2. \A w : InLineFor(w)' = IF w = Zero THEN InLineFor(Zero) \cup {u} ELSE InLineFor(w)
  BY <1>1, ObjectsDiffer DEF InLineFor, Queued, RecordTypeOK
<1>3. IsQueueOf(Append(runq, u), InLineFor(Zero) \cup {u})
  BY <1>1, AppendQueue DEF QueuesAgree, KernelTypeOK
<1>4. SlotsAgree'
  BY ObjectsDiffer DEF SlotsAgree, RecordTypeOK
<1> QED  BY <1>2, <1>3, <1>4, ObjectsDiffer DEF QueuesAgree

LEMMA ResumeQueues ==
    ASSUME QueuesInvariant, NEW u \in Threads, Resume(u)
    PROVE  SlotsAgree' /\ QueuesAgree'
<1> USE DEF QueuesInvariant
<1>1. /\ u # current /\ suspend[u] \in Int /\ state[u] # "COMPLETE"
      /\ suspend[u] # 0
      /\ suspend' = [suspend EXCEPT ![u] = Nearer(@)]
      /\ UNCHANGED <<waitq, timers, current>>
  BY DEF Resume, SlotsAgree, RecordTypeOK
<1>2. CASE ResumeOnce(u) \/ ResumeQueued(u)
  <2>1. /\ UNCHANGED <<blocked, runq, mboxq, hasData>>
        /\ \A t \in Threads : t # u => state'[t] = state[t] /\ suspend'[t] = suspend[t]
        /\ suspend'[u] \in Int /\ (suspend'[u] >= 0 <=> suspend[u] >= 0)
        /\ state'[u] # "COMPLETE"
        /\ state'[u] = state[u] \/ (suspend'[u] = 0 /\ blocked[u] = TimeEvent)
    BY <1>1, <1>2 DEF ResumeOnce, ResumeQueued, Nearer, RecordTypeOK
  <2>2. \A w : InLineFor(w)' = InLineFor(w)
    BY <1>1, <2>1 DEF InLineFor, Queued
  <2>3. \A o \in Objects : IsQueueOf(QueueOf(o), InLineFor(o))'
    BY <1>1, <2>1, <2>2, ObjectsAlone
  <2>4. SlotsAgree'
    BY <1>1, <2>1, ObjectsDiffer DEF SlotsAgree
  <2> QED  BY <1>1, <2>1, <2>2, <2>3, <2>4 DEF QueuesAgree
<1>3. CASE ResumeReady(u)
  <2>1. /\ suspend[u] = -1 /\ suspend' = [suspend EXCEPT ![u] = 0]
        /\ state' = [state EXCEPT ![u] = "WAITING"]
        /\ blocked' = [blocked EXCEPT ![u] = Zero]
        /\ runq' = Append(runq, u)
    BY <1>1, <1>3 DEF ResumeReady, Nearer, RecordTypeOK
  <2>2. \A o \in Objects : QueueOf(o)' = QueueOf(o)
    BY <1>1, <1>3 DEF ResumeReady, QueueOf, IsWaiting
  <2> QED  BY <1>1, <2>1, <2>2, BecomesReady
<1>4. CASE ResumeRequeued(u)
  <2>1. suspend[u] = -1 /\ suspend' = [suspend EXCEPT ![u] = 0]
    BY <1>1, <1>4 DEF ResumeRequeued, Nearer
  <2>2. PICK m \in Mailboxes : blocked[u] = m
    BY <1>4, <2>1 DEF ResumeRequeued, SlotsAgree
  <2>3. Requeue(u, m) /\ m \in Objects /\ m # Zero /\ m # TimeEvent
    BY <1>4, <2>2, ObjectsDiffer DEF ResumeRequeued, Objects
  <2>4. CASE ~IsWaiting(m) /\ mboxq[m] # <<>>
    <3>1. /\ state' = [state EXCEPT ![u] = "WAITING"]
          /\ blocked' = [blocked EXCEPT ![u] = Zero]
          /\ runq' = Append(runq, u)
      BY <2>3, <2>4 DEF Requeue
    <3>2. \A o \in Objects : QueueOf(o)' = QueueOf(o)
      BY <1>1, <2>3, <2>4 DEF Requeue, QueueOf, IsWaiting, MailboxTypeOK
    <3> QED  BY <1>1, <2>1, <3>1, <3>2, BecomesReady
  <2>5. CASE ~(~IsWaiting(m) /\ mboxq[m] # <<>>)
    <3>1. /\ state' = [state EXCEPT ![u] = "BLOCKED"]
          /\ mboxq' = [mboxq EXCEPT ![m] = Append(mboxq[m], u)]
          /\ hasData' = [hasData EXCEPT ![m] = "waiters"]
          /\ UNCHANGED <<blocked, runq>>
      BY <2>3, <2>5 DEF Requeue
    <3>2. \A w : u \notin InLineFor(w)
      BY <2>1 DEF InLineFor, Queued
    <3>3. \A w : InLineFor(w)' = IF w = m THEN InLineFor(m) \cup {u} ELSE InLineFor(w)
      BY <1>1, <2>1, <2>2, <3>1, <3>2 DEF InLineFor, Queued, RecordTypeOK
    <3>4. /\ QueueOf(m)' = Append(QueueOf(m), u)
          /\ \A o \in Objects \ {m} : QueueOf(o)' = QueueOf(o)
      <4>1. QueueOf(m) = mboxq[m]
        BY <2>5 DEF QueueOf
      <4> QED  BY <1>1, <3>1, <4>1, OtherQueues
    <3>5. IsQueueOf(Append(QueueOf(m), u), InLineFor(m) \cup {u})
      BY <2>3, <3>2, QueueOfType, AppendQueue DEF QueuesAgree
    <3>6. \A o \in Objects : IsQueueOf(QueueOf(o), InLineFor(o))'
      BY <3>3, <3>4, <3>5 DEF QueuesAgree
    <3>7. SlotsAgree'
      BY <1>1, <2>1, <2>2, <2>3, <3>1, ObjectsDiffer DEF SlotsAgree, RecordTypeOK
    <3> QED  BY <1>1, <2>3, <3>1, <3>3, <3>6, <3>7, ObjectsDiffer DEF QueuesAgree
  <2> QED  BY <2>4, <2>5
<1> QED  BY <1>2, <1>3, <1>4 DEF Resume

-----------------------------------------------------------------------------
(* Halts and signals.                                                      *)

(* What kthread_unqueue_suspend takes for a queued thread is one, and      *)
(* nothing else is.                                                        *)
LEMMA UnqueueFacts ==
    ASSUME QueuesInvariant, Disciplined, NEW u \in Threads, u # current,
           state[u] # "COMPLETE", UnqueueAllowed(u)
    PROVE  /\ TakenFromQueue(u) <=> Queued(u)
           /\ Queued(u) /\ blocked[u] = Zero => state[u] = "WAITING"
           /\ SuspendUnqueued(u) \in Int /\ SuspendUnqueued(u) < 0
           /\ ~NoQueueCase(u)
<1> USE DEF QueuesInvariant
<1>1. suspend[u] \in Int
  BY DEF RecordTypeOK
<1>2. ~NoQueueCase(u)
  BY DEF Disciplined, UnqueueAllowed, NoQueueCase
<1>3. /\ suspend[u] < 0 => blocked[u] = Zero /\ state[u] # "WAITING"
      /\ blocked[u] = Zero /\ state[u] = "SUSPEND" => suspend[u] < 0
  <2>1. "halt suspended" \notin Liberties /\ "halt unqueued" \notin Liberties
    BY DEF Disciplined
  <2>2. ~(suspend[u] < 0 /\ (blocked[u] # Zero \/ state[u] = "WAITING"))
    BY <2>1 DEF UnqueueAllowed
  <2>3. ~(blocked[u] = Zero /\ state[u] = "SUSPEND" /\ suspend[u] >= 0)
    BY <2>1 DEF UnqueueAllowed
  <2> QED  BY <1>1, <2>2, <2>3
<1>4. blocked[u] = Zero => state[u] \in {"WAITING", "SUSPEND"}
  BY DEF SlotsAgree
<1>5. TakenFromQueue(u) <=> suspend[u] >= 0
  BY <1>1, <1>3, <1>4 DEF TakenFromQueue
<1>6. Queued(u) <=> suspend[u] >= 0
  BY DEF Queued
<1> QED  BY <1>1, <1>2, <1>3, <1>4, <1>5, <1>6 DEF SuspendUnqueued

(* A run queue without u.                                                  *)
LEMMA RunqWithoutQueue ==
    ASSUME NEW q \in Seq(Threads), NEW R, IsQueueOf(q, R), NEW u \in Threads,
           u \in R => blocked[u] = Zero /\ state[u] = "WAITING"
    PROVE  IsQueueOf(RunqWithout(q, u), R \ {u}) /\ RunqWithout(q, u) \in Seq(Threads)
<1>1. CASE blocked[u] = Zero /\ state[u] = "WAITING"
  BY <1>1, WithoutQueue, WithoutType DEF RunqWithout
<1>2. CASE ~(blocked[u] = Zero /\ state[u] = "WAITING")
  <2>1. R \ {u} = R
    BY <1>2
  <2> QED  BY <1>2, <2>1 DEF RunqWithout
<1> QED  BY <1>1, <1>2

(* The queues of the objects without u.                                    *)
LEMMA LeaveObjectsQueues ==
    ASSUME QueuesInvariant, NEW u \in Threads, TakenFromQueue(u) <=> Queued(u),
           LeaveObjects(u)
    PROVE  /\ \A m \in Mailboxes : IsQueueOf(QueueOf(m)', InLineFor(m) \ {u})
           /\ \A o \in Waitables : IsQueueOf(WaitqWithout(u)[o], InLineFor(o) \ {u})
           /\ timers' = InLineFor(TimeEvent) \ {u}
<1> USE DEF QueuesInvariant
<1>1. timers' = InLineFor(TimeEvent) \ {u}
  BY DEF LeaveObjects, QueuesAgree
<1>2. ASSUME NEW o \in Waitables
      PROVE  IsQueueOf(WaitqWithout(u)[o], InLineFor(o) \ {u})
  <2>1. IsQueueOf(waitq[o], InLineFor(o)) /\ waitq[o] \in Seq(Threads)
    BY WaitableQueues DEF QueuesAgree, ObjectTypeOK
  <2>2. CASE blocked[u] = o
    BY <2>1, <2>2, WithoutQueue DEF WaitqWithout
  <2>3. CASE blocked[u] # o
    <3>1. InLineFor(o) \ {u} = InLineFor(o)
      BY <2>3 DEF InLineFor
    <3> QED  BY <2>1, <2>3, <3>1 DEF WaitqWithout
  <2> QED  BY <2>2, <2>3
<1>3. ASSUME NEW m \in Mailboxes
      PROVE  IsQueueOf(QueueOf(m)', InLineFor(m) \ {u})
  <2>1. IsQueueOf(QueueOf(m), InLineFor(m)) /\ QueueOf(m) \in Seq(Threads)
    BY QueueOfType DEF QueuesAgree, Objects
  <2>2. CASE blocked[u] = m
    <3>1. m # Zero /\ u \in InLineFor(m)
      BY <2>2, ObjectsDiffer DEF TakenFromQueue, InLineFor
    <3>2. IsWaiting(m)
      <4> SUFFICES ASSUME ~IsWaiting(m)  PROVE FALSE
        OBVIOUS
      <4>1. QueueOf(m) = <<>>
        BY DEF QueueOf
      <4> QED  BY <2>1, <3>1, <4>1, EmptyQueue DEF IsQueueOf
    <3>3. QueueOf(m)' = Without(mboxq[m], u)
      BY <2>2, <3>2 DEF LeaveObjects, MboxqWithout, HasDataWithout, QueueOf, IsWaiting
    <3> QED  BY <2>1, <3>2, <3>3, WithoutQueue DEF QueueOf
  <2>3. CASE blocked[u] # m
    <3>1. QueueOf(m)' = QueueOf(m)
      BY <2>3 DEF LeaveObjects, MboxqWithout, HasDataWithout, QueueOf, IsWaiting
    <3>2. InLineFor(m) \ {u} = InLineFor(m)
      BY <2>3 DEF InLineFor
    <3> QED  BY <2>1, <3>1, <3>2
  <2> QED  BY <2>2, <2>3
<1> QED  BY <1>1, <1>2, <1>3

LEMMA HaltQueues ==
    ASSUME QueuesInvariant, Disciplined, NEW u \in Threads, Halt(u)
    PROVE  SlotsAgree' /\ QueuesAgree'
<1> USE DEF QueuesInvariant
<1> DEFINE W == InLineFor(u)
           q == waitq[u]
<1>1. /\ u # current /\ state[u] # "COMPLETE" /\ UnqueueAllowed(u)
      /\ current' = current
  BY DEF Halt
<1>2. /\ TakenFromQueue(u) <=> Queued(u)
      /\ Queued(u) /\ blocked[u] = Zero => state[u] = "WAITING"
      /\ SuspendUnqueued(u) \in Int /\ SuspendUnqueued(u) < 0
      /\ HaltUnqueued(u)
  BY <1>1, UnqueueFacts DEF Halt
<1>3. u \in Waitables /\ u \in Objects /\ u # Zero /\ u # TimeEvent /\ Zero # TimeEvent
  BY ObjectsDiffer DEF Objects
<1>4. q \in Seq(Threads) /\ IsQueueOf(q, W)
  BY <1>3, WaitableQueues DEF QueuesAgree, ObjectTypeOK
<1>5. /\ state' = [x \in Threads |-> IF x = u THEN "COMPLETE"
                                     ELSE IF x \in W THEN "WAITING" ELSE state[x]]
      /\ blocked' = [x \in Threads |-> IF x = u THEN Zero
                                       ELSE IF x \in W THEN Zero ELSE blocked[x]]
      /\ suspend' = [suspend EXCEPT ![u] = SuspendUnqueued(u)]
      /\ runq' = RunqWithout(runq \o q, u)
      /\ waitq' = [WaitqWithout(u) EXCEPT ![u] = <<>>]
  BY <1>2, <1>4 DEF HaltUnqueued, StateReadied, BlockedReadied, IsQueueOf
<1>6. /\ \A m \in Mailboxes : IsQueueOf(QueueOf(m)', InLineFor(m) \ {u})
      /\ \A o \in Waitables : IsQueueOf(WaitqWithout(u)[o], InLineFor(o) \ {u})
      /\ timers' = InLineFor(TimeEvent) \ {u}
  BY <1>2, LeaveObjectsQueues DEF HaltUnqueued
<1>7. \A x \in W : /\ x \in Threads /\ Queued(x) /\ blocked[x] = u /\ x # u
                   /\ \A w : w # u => x \notin InLineFor(w)
  BY <1>3 DEF InLineFor, SlotsAgree
<1> HIDE DEF W, q
<1>8. \A w : InLineFor(w)' = IF w = Zero THEN (InLineFor(Zero) \cup W) \ {u}
                             ELSE InLineFor(w) \ (W \cup {u})
  BY <1>1, <1>2, <1>3, <1>5, <1>7 DEF InLineFor, Queued, RecordTypeOK
<1>9. IsQueueOf(runq, InLineFor(Zero))'
  <2>1. InLineFor(Zero) \cap W = {}
    BY <1>3, <1>7
  <2>2. IsQueueOf(runq \o q, InLineFor(Zero) \cup W) /\ runq \o q \in Seq(Threads)
    BY <1>4, <2>1, ConcatQueue, ConcatProperties DEF QueuesAgree, KernelTypeOK
  <2>3. u \in InLineFor(Zero) \cup W => blocked[u] = Zero /\ state[u] = "WAITING"
    BY <1>2, <1>7 DEF InLineFor
  <2>4. IsQueueOf(RunqWithout(runq \o q, u), (InLineFor(Zero) \cup W) \ {u})
    BY <2>2, <2>3, RunqWithoutQueue
  <2> QED  BY <1>5, <1>8, <2>4
<1>10. timers' = InLineFor(TimeEvent)'
  BY <1>3, <1>6, <1>7, <1>8
<1>11. ASSUME NEW x \in Objects
       PROVE  IsQueueOf(QueueOf(x), InLineFor(x))'
  <2>1. x # Zero
    BY ObjectsDiffer
  <2>2. WaitqWithout(u) \in [Waitables -> Seq(Threads)]
    BY UnqueuedTypes
  <2>3. CASE x = u
    <3>1. QueueOf(u)' = <<>>
      BY <1>3, <1>5, <2>2, ObjectsDiffer DEF QueueOf
    <3>2. InLineFor(u)' = {}
      BY <1>3, <1>8 DEF W
    <3> QED  BY <2>3, <3>1, <3>2, EmptyQueue
  <2>4. CASE x # u
    <3>1. InLineFor(x)' = InLineFor(x) \ {u}
      BY <1>7, <1>8, <2>1, <2>4
    <3>2. x \in Waitables => QueueOf(x)' = WaitqWithout(u)[x]
      BY <1>5, <2>2, <2>4, ObjectsDiffer DEF QueueOf
    <3> QED  BY <1>6, <3>1, <3>2 DEF Objects
  <2> QED  BY <2>3, <2>4
<1>12. SlotsAgree'
  BY <1>1, <1>2, <1>3, <1>5, <1>7, ObjectsDiffer DEF SlotsAgree, Queued, RecordTypeOK
<1> QED  BY <1>9, <1>10, <1>11, <1>12 DEF QueuesAgree

LEMMA DeliverSignalQueues ==
    ASSUME QueuesInvariant, Disciplined, NEW u \in Threads, DeliverSignal(u)
    PROVE  SlotsAgree' /\ QueuesAgree'
<1> USE DEF QueuesInvariant
<1>1. /\ u # current /\ state[u] # "COMPLETE" /\ UnqueueAllowed(u)
      /\ current' = current
  BY DEF DeliverSignal
<1>2. /\ TakenFromQueue(u) <=> Queued(u)
      /\ Queued(u) /\ blocked[u] = Zero => state[u] = "WAITING"
      /\ SuspendUnqueued(u) \in Int /\ SuspendUnqueued(u) < 0
      /\ SignalUnqueued(u)
  BY <1>1, UnqueueFacts DEF DeliverSignal
<1> DEFINE c == Nearer(SuspendUnqueued(u))
           ready == SuspendUnqueued(u) = -1
<1>3. c \in Int /\ c <= 0 /\ (ready <=> c = 0)
  BY <1>2 DEF Nearer
<1>4. /\ blocked' = [blocked EXCEPT ![u] = Zero]
      /\ suspend' = [suspend EXCEPT ![u] = c]
      /\ waitq' = WaitqWithout(u)
      /\ state' = [state EXCEPT ![u] = IF ready THEN "WAITING" ELSE "SUSPEND"]
      /\ runq' = IF ready THEN Append(RunqWithout(runq, u), u) ELSE RunqWithout(runq, u)
  BY <1>2 DEF SignalUnqueued
<1>5. /\ \A m \in Mailboxes : IsQueueOf(QueueOf(m)', InLineFor(m) \ {u})
      /\ \A o \in Waitables : IsQueueOf(WaitqWithout(u)[o], InLineFor(o) \ {u})
      /\ timers' = InLineFor(TimeEvent) \ {u}
  BY <1>2, LeaveObjectsQueues DEF SignalUnqueued
<1> HIDE DEF c, ready
<1>6. \A w : InLineFor(w)' = IF w = Zero /\ ready THEN InLineFor(Zero) \cup {u}
                             ELSE InLineFor(w) \ {u}
  BY <1>1, <1>3, <1>4 DEF InLineFor, Queued, RecordTypeOK
<1>7. IsQueueOf(runq, InLineFor(Zero))'
  <2>1. u \in InLineFor(Zero) => blocked[u] = Zero /\ state[u] = "WAITING"
    BY <1>2 DEF InLineFor
  <2>2. /\ IsQueueOf(RunqWithout(runq, u), InLineFor(Zero) \ {u})
        /\ RunqWithout(runq, u) \in Seq(Threads)
    BY <2>1, RunqWithoutQueue DEF QueuesAgree, KernelTypeOK
  <2>3. IsQueueOf(Append(RunqWithout(runq, u), u), (InLineFor(Zero) \ {u}) \cup {u})
    BY <2>2, AppendQueue
  <2>4. (InLineFor(Zero) \ {u}) \cup {u} = InLineFor(Zero) \cup {u}
    OBVIOUS
  <2> QED  BY <1>4, <1>6, <2>2, <2>3, <2>4
<1>8. timers' = InLineFor(TimeEvent)'
  BY <1>5, <1>6, ObjectsDiffer
<1>9. ASSUME NEW x \in Objects
      PROVE  IsQueueOf(QueueOf(x), InLineFor(x))'
  <2>1. InLineFor(x)' = InLineFor(x) \ {u}
    BY <1>6, ObjectsDiffer
  <2>2. x \in Waitables => QueueOf(x)' = WaitqWithout(u)[x]
    BY <1>4, ObjectsDiffer DEF QueueOf
  <2> QED  BY <1>5, <2>1, <2>2 DEF Objects
<1>10. SlotsAgree'
  BY <1>1, <1>3, <1>4, ObjectsDiffer DEF SlotsAgree, RecordTypeOK
<1> QED  BY <1>7, <1>8, <1>9, <1>10 DEF QueuesAgree

-----------------------------------------------------------------------------
(* The theorems.                                                           *)

LEMMA QueuesInitially == Init => QueuesInvariant
<1> SUFFICES ASSUME Init  PROVE QueuesInvariant
  OBVIOUS
<1>1. PICK first \in Threads :
        /\ state = [t \in Threads |-> IF t = first THEN "WAITING" ELSE "SUSPEND"]
        /\ suspend = [t \in Threads |-> IF t = first THEN 0 ELSE -1]
        /\ runq = <<first>>
  BY DEF Init
<1>2. TypeOK
  BY TypeInitially
<1>3. \A w : InLineFor(w) = IF w = Zero THEN {first} ELSE {}
  BY <1>1, ObjectsDiffer DEF Init, InLineFor, Queued
<1>4. IsQueueOf(runq, InLineFor(Zero))
  BY <1>1, <1>3, SingleQueue
<1>5. \A o \in Objects : IsQueueOf(QueueOf(o), InLineFor(o))
  <2>1. \A o \in Objects : QueueOf(o) = <<>>
    BY DEF Init, QueueOf, IsWaiting, Objects
  <2> QED  BY <1>3, <2>1, EmptyQueue, ObjectsDiffer
<1>6. SlotsAgree
  BY <1>1, ObjectsDiffer DEF Init, SlotsAgree
<1>7. timers = InLineFor(TimeEvent)
  BY <1>3, ObjectsDiffer DEF Init
<1> QED  BY <1>2, <1>4, <1>5, <1>6, <1>7 DEF QueuesInvariant, QueuesAgree

LEMMA QueuesKept ==
    ASSUME QueuesInvariant, Disciplined, [Next]_vars
    PROVE  QueuesInvariant'
<1>1. TypeOK'
  BY TypeKept DEF QueuesInvariant
<1>2. CASE KernelNext
  BY <1>1, <1>2, KernelStepQueues DEF QueuesInvariant
<1>3. CASE MailboxNext
  BY <1>1, <1>3, MailboxStepQueues DEF QueuesInvariant
<1>4. CASE SyncNext
  BY <1>1, <1>4, SyncStepQueues DEF QueuesInvariant
<1>5. CASE ControlNext
  <2>1. SlotsAgree' /\ QueuesAgree'
    BY <1>5, SuspendQueues, ResumeQueues, HaltQueues, DeliverSignalQueues DEF ControlNext
  <2> QED  BY <1>1, <2>1 DEF QueuesInvariant
<1>6. CASE UNCHANGED vars
  <2>1. /\ UNCHANGED <<runq, timers, mboxq, hasData, waitq>>
        /\ UNCHANGED <<state, suspend, blocked, current>>
    BY <1>6 DEF vars, threadVars, objectVars
  <2>2. SlotsAgree' /\ \A w : InLineFor(w)' = InLineFor(w)
    BY <2>1, SlotsAlone DEF QueuesInvariant
  <2> QED  BY <1>1, <2>1, <2>2, ObjectsAlone DEF QueuesInvariant, QueuesAgree
<1> QED  BY <1>2, <1>3, <1>4, <1>5, <1>6 DEF Next

(* The inductive invariant holds.                                          *)
THEOREM QueuesCorrect ==
    ASSUME Disciplined
    PROVE  Spec => []QueuesInvariant
<1>1. Init => QueuesInvariant
  BY QueuesInitially
<1>2. QueuesInvariant /\ [Next]_vars => QueuesInvariant'
  BY QueuesKept
<1> QED  BY <1>1, <1>2, PTL DEF Spec

(* The sign of the suspend count tells the truth: whatever threads do to   *)
(* one another, a thread is in the queue of what it is blocked on if and   *)
(* only if its count is not negative, and in no other queue                *)
(* (class.scm:45-49).                                                      *)
THEOREM SignTellsTruth ==
    ASSUME Disciplined
    PROVE  Spec => []QueuedWhereBlocked
<1>1. QueuesInvariant => QueuedWhereBlocked
  BY QueuesByMembers DEF QueuesInvariant
<1> QED  BY <1>1, QueuesCorrect, PTL

(* Nobody is queued twice, neither in the line for the processor nor at an *)
(* object, whoever requeues, resumes or signals whom (the dequeues of      *)
(* class.scm; kthread_unqueue_suspend in synch.c takes out one occurrence  *)
(* and no more).                                                           *)
THEOREM NobodyQueuedTwice ==
    ASSUME Disciplined
    PROVE  Spec => []QueuedOnce
<1>1. QueuesInvariant => QueuedOnce
  BY QueuesByMembers DEF QueuesInvariant
<1> QED  BY <1>1, QueuesCorrect, PTL

(* The slots of a record agree: a thread that is blocked on anything but a *)
(* mailbox has not left its queue, one that nothing blocks is ready,       *)
(* suspended, running or complete, and none waits for itself.  Nothing     *)
(* that is done to a thread while it is blocked breaks that                *)
(* (class.scm:45-49, the uses of UNBLOCK_THREAD and mark_thread_ready).    *)
THEOREM SlotsTellTruth ==
    ASSUME Disciplined
    PROVE  Spec => []SlotsAgree
<1>1. QueuesInvariant => SlotsAgree
  BY DEF QueuesInvariant
<1> QED  BY <1>1, QueuesCorrect, PTL
=============================================================================
