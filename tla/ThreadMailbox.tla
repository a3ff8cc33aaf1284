--------------------------- MODULE ThreadMailbox ----------------------------
(***************************************************************************)
(* Mailboxes: one dequeue that holds messages, or the threads that wait    *)
(* for one, as has-data? says (mailbox.scm, do_mailbox_send and            *)
(* close_mailbox in synch.c).  A suspended thread may be in the dequeue:   *)
(* whoever pops it passes it over, and its resumption asks the mailbox     *)
(* again (Requeue).                                                        *)
(***************************************************************************)
EXTENDS ThreadKernel

(* Mutated: the first waiter, suspended or not.                            *)
FirstEligible_any(q, i) == i = 1 /\ q # <<>>

(* Mutated: the waiter that came last.                                     *)
FirstEligible_last(q, i) ==
    i \in DOMAIN q /\ suspend[q[i]] = 0 /\ \A j \in (i + 1)..Len(q) : suspend[q[j]] # 0

(* The waiter a message goes to: the first that is not suspended.          *)
FirstEligible(q, i) ==
    i \in DOMAIN q /\ suspend[q[i]] = 0 /\ \A j \in 1..(i - 1) : suspend[q[j]] # 0

NoneEligible(q) == \A i \in DOMAIN q : suspend[q[i]] # 0

(* Mutated: the count of a thread that was passed over is not negated.     *)
PassOver_silent(S) == suspend' = suspend

(* did_remove_from_queue on each thread of S, passed over in a dequeue.    *)
PassOver(S) ==
    suspend' = [t \in Threads |-> IF t \in S THEN 0 - suspend[t] ELSE suspend[t]]

PassOverFaults(S) == Unless(\A t \in S : suspend[t] >= 0, "dispatch.c:142")

(* Mutated: has-data? is not set after the suspended waiters were popped.  *)
Enqueue_keepsState(m, x, front, q) ==
    /\ mboxq' = [mboxq EXCEPT ![m] = IF front THEN <<x>> \o q ELSE Append(q, x)]
    /\ hasData' = hasData

(* The mailbox takes the message itself.                                   *)
Enqueue(m, x, front, q) ==
    /\ mboxq' = [mboxq EXCEPT ![m] = IF front THEN <<x>> \o q ELSE Append(q, x)]
    /\ hasData' = [hasData EXCEPT ![m] = "data"]

(* Mutated: a closed mailbox takes messages, too.                          *)
SendToQueue_closed(m, front) ==
    /\ ~IsWaiting(m)
    /\ Enqueue(m, sent + 1, front, mboxq[m])
    /\ UNCHANGED <<threadVars, runq, failed>>

(* do_mailbox_send with a mailbox that holds messages.                     *)
SendToQueue(m, front) ==
    /\ hasData[m] = "data"
    /\ Enqueue(m, sent + 1, front, mboxq[m])
    /\ UNCHANGED <<threadVars, runq, failed>>

(* do_mailbox_send with waiters, one of which can take the message: the    *)
(* suspended ones before it leave the dequeue.  has-data? becomes #t with  *)
(* the last of them.                                                       *)
SendToWaiter(m) ==
    /\ IsWaiting(m)
    /\ \E i \in DOMAIN mboxq[m] :
          LET q == mboxq[m]
              passed == {q[j] : j \in 1..(i - 1)}
              rest == SubSeq(q, i + 1, Len(q))
          IN  /\ FirstEligible(q, i)
              /\ PassOver(passed)
              /\ mboxq' = [mboxq EXCEPT ![m] = rest]
              /\ hasData' = IF rest = <<>> THEN [hasData EXCEPT ![m] = "data"]
                                           ELSE hasData
              /\ state' = StateReadied(<<q[i]>>)
              /\ blocked' = BlockedReadied(<<q[i]>>)
              /\ got' = [got EXCEPT ![q[i]] = sent + 1]
              /\ runq' = Append(runq, q[i])
              /\ failed' = failed \cup PassOverFaults(passed)
                                  \cup ReadyFaults(<<q[i]>>)
    /\ UNCHANGED <<frame, relock>>

(* do_mailbox_send with waiters that are all suspended: all leave the      *)
(* dequeue, and the send starts again with an empty mailbox.               *)
SendPastWaiters(m, front) ==
    /\ IsWaiting(m)
    /\ NoneEligible(mboxq[m])
    /\ PassOver(Range(mboxq[m]))
    /\ failed' = failed \cup PassOverFaults(Range(mboxq[m]))
    /\ Enqueue(m, sent + 1, front, <<>>)
    /\ UNCHANGED <<state, blocked, frame, got, relock, runq>>

(* send-message! and, at the front, send-message/prepend!.  A closed       *)
(* mailbox refuses the message and nothing changes.                        *)
SendMessage(m, front) ==
    /\ Free
    /\ sent < MaxSends
    /\ \/ SendToQueue(m, front)
       \/ SendToWaiter(m)
       \/ SendPastWaiters(m, front)
    /\ sent' = sent + 1
    /\ UNCHANGED <<waitq, count, settled, timers, current, kernel>>

(* Mutated: the message is popped from the other end.                      *)
ReceiveNow_popBack(m) ==
    /\ Free
    /\ ~IsWaiting(m)
    /\ mboxq[m] # <<>>
    /\ mboxq' = [mboxq EXCEPT ![m] = Front(@)]
    /\ UNCHANGED <<threadVars, runq, hasData, waitq, count, settled, sent,
                   timers, current, kernel, failed>>

(* receive-message! and receive-message-if-present! with a message there   *)
(* (closed or not): the caller keeps the processor.                        *)
ReceiveNow(m) ==
    /\ Free
    /\ ~IsWaiting(m)
    /\ mboxq[m] # <<>>
    /\ mboxq' = [mboxq EXCEPT ![m] = Tail(@)]
    /\ UNCHANGED <<threadVars, runq, hasData, waitq, count, settled, sent,
                   timers, current, kernel, failed>>

(* receive-message! with none there and the mailbox not closed.            *)
ReceiveBlocks(m) ==
    /\ Free
    /\ \/ IsWaiting(m)
       \/ hasData[m] = "data" /\ mboxq[m] = <<>>
    /\ hasData' = [hasData EXCEPT ![m] = "waiters"]
    /\ mboxq' = [mboxq EXCEPT ![m] = Append(@, current)]
    /\ Block(m, "BLOCKED", "receive")
    /\ UNCHANGED <<suspend, got, relock, runq, waitq, count, settled, sent,
                   timers, failed>>

(* close-mailbox.  The waiters that are not suspended get NoValue, in      *)
(* order; the suspended ones leave the dequeue and stay blocked.  Messages *)
(* already in the dequeue stay there.                                      *)
CloseMailbox(m) ==
    /\ Free
    /\ hasData[m] # "closed"
    /\ hasData' = [hasData EXCEPT ![m] = "closed"]
    /\ IF IsWaiting(m)
         THEN LET q == mboxq[m]
                  passed == {t \in Range(q) : suspend[t] # 0}
              IN  \E woken \in EligibleOnly(q) :
                    /\ state' = StateReadied(woken)
                    /\ blocked' = BlockedReadied(woken)
                    /\ got' = [t \in Threads |->
                                 IF t \in Range(woken) THEN NoValue ELSE got[t]]
                    /\ runq' = runq \o woken
                    /\ failed' = failed \cup PassOverFaults(passed)
                                        \cup ReadyFaults(woken)
                    /\ PassOver(passed)
                    /\ mboxq' = [mboxq EXCEPT ![m] = <<>>]
         ELSE UNCHANGED <<state, blocked, got, runq, failed, suspend, mboxq>>
    /\ UNCHANGED <<frame, relock, waitq, count, settled, sent, timers,
                   current, kernel>>

(* Mutated: the message is taken out and not stored in the frame.          *)
Requeue_dropsValue(t, m) ==
    IF ~IsWaiting(m) /\ mboxq[m] # <<>>
      THEN /\ mboxq' = [mboxq EXCEPT ![m] = Tail(@)]
           /\ hasData' = IF Tail(mboxq[m]) = <<>>
                           THEN [hasData EXCEPT ![m] = "data"] ELSE hasData
           /\ state' = [state EXCEPT ![t] = "WAITING"]
           /\ blocked' = [blocked EXCEPT ![t] = Zero]
           /\ runq' = Append(runq, t)
           /\ UNCHANGED got
      ELSE /\ mboxq' = [mboxq EXCEPT ![m] = Append(@, t)]
           /\ hasData' = [hasData EXCEPT ![m] = "waiters"]
           /\ state' = [state EXCEPT ![t] = "BLOCKED"]
           /\ UNCHANGED <<blocked, got, runq>>

(* requeue, for a thread that was taken off the dequeue of m while it was  *)
(* suspended: it takes a message if there is one, else it waits again.     *)
(* Either way a closed mailbox may be left open.                           *)
Requeue(t, m) ==
    IF ~IsWaiting(m) /\ mboxq[m] # <<>>
      THEN /\ mboxq' = [mboxq EXCEPT ![m] = Tail(@)]
           /\ hasData' = IF Tail(mboxq[m]) = <<>>
                           THEN [hasData EXCEPT ![m] = "data"] ELSE hasData
           /\ state' = [state EXCEPT ![t] = "WAITING"]
           /\ blocked' = [blocked EXCEPT ![t] = Zero]
           /\ got' = [got EXCEPT ![t] = Head(mboxq[m])]
           /\ runq' = Append(runq, t)
      ELSE /\ mboxq' = [mboxq EXCEPT ![m] = Append(@, t)]
           /\ hasData' = [hasData EXCEPT ![m] = "waiters"]
           /\ state' = [state EXCEPT ![t] = "BLOCKED"]
           /\ UNCHANGED <<blocked, got, runq>>

MailboxNext ==
    \E m \in Mailboxes :
        \/ \E front \in BOOLEAN : SendMessage(m, front)
        \/ ReceiveNow(m)
        \/ ReceiveBlocks(m)
        \/ CloseMailbox(m)
=============================================================================
