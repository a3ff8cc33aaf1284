---------------------------- MODULE QueuedOutput ----------------------------
(***************************************************************************)
(* Queued output ports (packages/threads/manager/output.c, outport.scm):   *)
(* bytes wait in a buffer, then in a queue of pending writes, where the    *)
(* threads that wait for a flush wait too; a write event is registered     *)
(* with the dispatcher while something is pending.                         *)
(*                                                                         *)
(* The bytes of a port are numbered as they are written.  A descriptor     *)
(* takes room[p] bytes before a write would block.  One action is one      *)
(* primitive, or a stretch of Scheme code between two safe points.         *)
(***************************************************************************)
EXTENDS Integers, Sequences, FiniteSets, SequencesExt

CONSTANTS
  Thread, Port,
  BlockSize,      \* block-size, the size of a buffer
  Room,           \* how much a descriptor may take at once
  Vectors,        \* what clients write: the lengths of the items of a vector
  FlushLines,     \* the ports with flush-lines?
  HasErrorProc,   \* the ports with an error-proc
  Owner,          \* the ports that own their descriptor
  MaxBytes,       \* bound of the model: bytes that are written to a port
  Risks           \* what clients do, see Undisturbed

CREATE_EVENT_THRESHOLD == BlockSize \div 2

ASSUME OutputAssumption ==
  /\ IsFiniteSet(Thread) /\ IsFiniteSet(Port)
  /\ BlockSize \in Nat /\ BlockSize > 1
  /\ Room \in Nat \ {0} /\ MaxBytes \in Nat
  /\ Vectors \subseteq Seq(Nat \ {0})
  /\ FlushLines \subseteq Port /\ HasErrorProc \subseteq Port /\ Owner \subseteq Port

VARIABLES
  buffer,     \* buffer[p]: bytes that are not queued, or Closed
  pending,    \* pending[p]: the queue of pending writes and waiting threads
  writeList,  \* the ports with a write event, newest first
  hasFd,      \* ports whose fd slot is not -1
  owner,      \* ports whose owner? slot is not #f
  openFd,     \* ports whose descriptor is open
  room, broken,  \* the descriptors
  task,       \* what each thread is doing
  accepted,   \* history: how many bytes clients have written
  sent,       \* history: the bytes that were written to the descriptor
  discarded,  \* history: bytes that were given up because of an error
  flushed     \* history: up to where a flush has returned without an error

outVars == <<buffer, pending, writeList, hasFd, owner, openFd, room, broken,
             accepted, sent, discarded, flushed>>

Closed == <<0>>  \* $closed-buffer: no byte has this number
Idle == [at |-> "idle"]
DataItem(bytes) == [kind |-> "data", bytes |-> bytes]
ThreadItem(t) == [kind |-> "thread", bytes |-> <<>>, thread |-> t]

IsOpen(p) == buffer[p] # Closed

Total(lens) ==
  LET sum[i \in 0 .. Len(lens)] == IF i = 0 THEN 0 ELSE sum[i - 1] + lens[i]
  IN sum[Len(lens)]

\* What a list keeps when everything else is taken out of it.
Those(list, S) ==
  LET kept[i \in 0 .. Len(list)] ==
        IF i = 0 THEN <<>>
        ELSE IF list[i] \in S THEN Append(kept[i - 1], list[i]) ELSE kept[i - 1]
  IN kept[Len(list)]

-----------------------------------------------------------------------------
(* The output cursor: a port while a primitive works on it *)

Cursor(p) ==
  [buf |-> buffer[p], lim |-> BlockSize, queue |-> pending[p],
   event |-> p \in ToSet(writeList), room |-> room[p], count |-> accepted[p],
   sent |-> sent[p], woken |-> {}, failed |-> {}, discarded |-> discarded[p]]

\* do_write, to a descriptor that works: how much of so many bytes is taken
Taken(c, len) == IF len < c.room THEN len ELSE c.room
Rest(bytes, n) == SubSeq(bytes, n + 1, Len(bytes))
AfterWrite(c, bytes, n) ==
  [c EXCEPT !.sent = @ \o SubSeq(bytes, 1, n), !.room = @ - n]

enq_wr(c, bytes) == [c EXCEPT !.queue = Append(@, DataItem(bytes))]
new_buffer(c) == [c EXCEPT !.buf = <<>>, !.lim = BlockSize - 1]
mk_event(c) == [c EXCEPT !.event = TRUE]

\* Mutated: what was written is queued once more.
write_to_flush_again(c, must) ==
  LET n == Taken(c, Len(c.buf))
      d == AfterWrite(c, c.buf, n)
  IN IF n = Len(c.buf) THEN [d EXCEPT !.buf = <<>>]
     ELSE IF Len(c.buf) - n >= CREATE_EVENT_THRESHOLD \/ must
     THEN new_buffer(enq_wr(mk_event(d), c.buf))
     ELSE [d EXCEPT !.buf = Rest(c.buf, n)]

write_to_flush(c, must) ==
  LET n == Taken(c, Len(c.buf))
      left == Rest(c.buf, n)
      d == AfterWrite(c, c.buf, n)
  IN IF left = <<>> THEN [d EXCEPT !.buf = <<>>]
     ELSE IF Len(left) >= CREATE_EVENT_THRESHOLD \/ must
     THEN new_buffer(enq_wr(mk_event(d), left))
     ELSE [d EXCEPT !.buf = left]

flush_buffer(c, must) ==
  IF c.buf = <<>> THEN c
  ELSE IF c.event THEN new_buffer(enq_wr(c, c.buf))
  ELSE write_to_flush(c, must)

\* Mutated: the rest of a large string is queued without an event.
WriteDirectly_noEvent(c, bytes) ==
  LET d == flush_buffer(c, TRUE)
      n == Taken(d, Len(bytes))
      e == AfterWrite(d, bytes, n)
  IN IF d.event THEN enq_wr(d, bytes)
     ELSE IF n < Len(bytes) THEN enq_wr(e, Rest(bytes, n)) ELSE e

\* write_bytes_ov, for strings that are not smaller than a block ...
WriteDirectly(c, bytes) ==
  LET d == flush_buffer(c, TRUE)
      n == Taken(d, Len(bytes))
      left == Rest(bytes, n)
      e == AfterWrite(d, bytes, n)
  IN IF d.event THEN enq_wr(d, bytes)
     ELSE IF Len(left) >= CREATE_EVENT_THRESHOLD THEN enq_wr(mk_event(e), left)
     ELSE [e EXCEPT !.buf = @ \o left]

\* ... and its loop for those that are, one turn at a time: two are enough for a
\* string that is smaller than a block
Turn(s) ==
  LET m == s.cursor.lim - Len(s.cursor.buf)
  IN IF Len(s.rest) <= m THEN s
     ELSE [cursor |-> flush_buffer([s.cursor EXCEPT !.buf = @ \o SubSeq(s.rest, 1, m)],
                                   FALSE),
           rest |-> Rest(s.rest, m)]

FillBuffers(c, bytes) ==
  LET s == Turn(Turn([cursor |-> c, rest |-> bytes]))
  IN [s.cursor EXCEPT !.buf = @ \o s.rest]

write_bytes(c, len) ==
  LET bytes == [i \in 1 .. len |-> c.count + i]
      d == [c EXCEPT !.count = @ + len]
  IN IF Len(c.buf) + len > c.lim /\ len >= BlockSize THEN WriteDirectly(d, bytes)
     ELSE FillBuffers(d, bytes)

c_writev(c, lens) ==
  LET after[i \in 0 .. Len(lens)] ==
        IF i = 0 THEN c ELSE write_bytes(after[i - 1], lens[i])
  IN after[Len(lens)]

\* Mutated: a small rest is left in the buffer.
FlushAll_most(c) ==
  IF ~c.event THEN write_to_flush(c, FALSE)
  ELSE IF c.buf = <<>> THEN c
  ELSE [enq_wr(c, c.buf) EXCEPT !.buf = <<>>]

\* qout_flush, before it enqueues the thread: that happens if there is an event
FlushAll(c) ==
  IF ~c.event THEN write_to_flush(c, TRUE)
  ELSE IF c.buf = <<>> THEN c
  ELSE [enq_wr(c, c.buf) EXCEPT !.buf = <<>>]

-----------------------------------------------------------------------------
(* Primitives *)

\* free_write_event and make_write_event keep the list
Registered(p, c) ==
  IF c.event /\ p \notin ToSet(writeList) THEN <<p>> \o writeList
  ELSE IF ~c.event THEN Those(writeList, Port \ {p}) ELSE writeList

CloseCursor(p, c) ==
  /\ pending' = [pending EXCEPT ![p] = c.queue]
  /\ writeList' = Registered(p, c)
  /\ room' = [room EXCEPT ![p] = c.room]
  /\ accepted' = [accepted EXCEPT ![p] = c.count]
  /\ sent' = [sent EXCEPT ![p] = c.sent]

\* Clients leave a port alone once one of them has begun to close it.
Undisturbed(p) ==
  \/ "write while closing" \in Risks
  \/ \A t \in Thread : ~("closing" \in DOMAIN task[t] /\ task[t].port = p
                         /\ task[t].closing)

\* Nor do they close a descriptor that is selected: select() would fail for everybody.
Selected(e) ==
  \E t \in Thread : task[t].at = "selecting" /\ e \in task[t].set.r \cup task[t].set.w

\* A write that must be tried at once and fails is an error (os_error) before
\* anything is changed: such calls are no steps.
Fails(p, len) ==
  broken[p] /\ p \notin ToSet(writeList) /\ Len(buffer[p]) + len > BlockSize

\* what is done with a cursor in the end: a thread that must wait is enqueued
Finish(t, p, c, flush, closing) ==
  LET d == IF flush THEN FlushAll(c) ELSE c
      wait == flush /\ d.event
      e == IF wait THEN [d EXCEPT !.queue = Append(@, ThreadItem(t))] ELSE d
  IN /\ CloseCursor(p, e)
     /\ buffer' = [buffer EXCEPT ![p] = IF closing /\ ~wait THEN Closed ELSE e.buf]
     /\ task' = [task EXCEPT ![t] =
          IF wait THEN [at |-> "flushing", port |-> p, upto |-> c.count,
                        closing |-> closing]
          ELSE IF closing THEN [at |-> "closing", port |-> p, closing |-> TRUE]
          ELSE Idle]
     /\ flushed' = [flushed EXCEPT ![p] = IF flush /\ ~wait THEN c.count ELSE @]
     /\ UNCHANGED <<hasFd, owner, openFd, broken, discarded>>

\* qout-write-vec and qout-write-bytes
Write(t, p, lens, nl) ==
  /\ task[t] = Idle /\ IsOpen(p) /\ Undisturbed(p)
  /\ nl => p \in FlushLines
  /\ c_writev(Cursor(p), lens).count <= MaxBytes
  /\ ~Fails(p, Total(lens))
  /\ nl /\ broken[p] => p \in ToSet(writeList)
  /\ Finish(t, p, c_writev(Cursor(p), lens), nl, FALSE)

\* ... when the flush that ends a line fails: the bytes stay in the buffer
WriteLineFails(t, p, lens) ==
  /\ task[t] = Idle /\ IsOpen(p) /\ Undisturbed(p)
  /\ p \in FlushLines
  /\ c_writev(Cursor(p), lens).count <= MaxBytes
  /\ broken[p] /\ p \notin ToSet(writeList) /\ ~Fails(p, Total(lens))
  /\ Finish(t, p, c_writev(Cursor(p), lens), FALSE, FALSE)

\* qout-flush, called by flush-output-port and close-output-port
Flush(t, p, closing) ==
  /\ task[t] = Idle /\ IsOpen(p) /\ Undisturbed(p) /\ (closing => ~Selected(p))
  /\ ~(broken[p] /\ p \notin ToSet(writeList) /\ buffer[p] # <<>>)
  /\ Finish(t, p, Cursor(p), TRUE, closing)

\* close-output-port goes on when its flush has failed
CloseAnyway(t, p) ==
  /\ task[t] = Idle /\ IsOpen(p) /\ Undisturbed(p) /\ ~Selected(p)
  /\ broken[p] /\ p \notin ToSet(writeList) /\ buffer[p] # <<>>
  /\ task' = [task EXCEPT ![t] = [at |-> "closing", port |-> p, closing |-> TRUE]]
  /\ UNCHANGED outVars

\* qout_did_flush, qout_did_write_vec: a thread goes on after its flush
Resume(t) ==
  /\ task[t].at = "woken"
  /\ LET p == task[t].port
     IN /\ buffer' = IF task[t].closing /\ task[t].ok
                     THEN [buffer EXCEPT ![p] = Closed] ELSE buffer
        /\ task' = [task EXCEPT ![t] =
             IF task[t].closing THEN [at |-> "closing", port |-> p, closing |-> TRUE]
             ELSE Idle]
  /\ UNCHANGED <<pending, writeList, hasFd, owner, openFd, room, broken, accepted,
                 sent, discarded, flushed>>

\* close!, up to the return from fd-close, and the rest of it
CloseFd(t) ==
  /\ task[t].at = "closing"
  /\ LET p == task[t].port
     IN /\ openFd' = openFd \ ({p} \cap owner)
        /\ owner' = owner \ {p}
        /\ task' = [task EXCEPT ![t].at = "closed"]
  /\ UNCHANGED <<buffer, pending, writeList, hasFd, room, broken, accepted, sent,
                 discarded, flushed>>

CloseDone(t) ==
  /\ task[t].at = "closed"
  /\ LET p == task[t].port
     IN /\ hasFd' = hasFd \ {p}
        /\ buffer' = [buffer EXCEPT ![p] = Closed]
        /\ discarded' = [discarded EXCEPT ![p] =
             IF broken[p] /\ IsOpen(p) THEN @ \cup ToSet(buffer[p]) ELSE @]
  /\ task' = [task EXCEPT ![t] = Idle]
  /\ UNCHANGED <<pending, writeList, owner, openFd, room, broken, accepted, sent,
                 flushed>>

\* kthread_unqueue_suspend of a thread that waits for a flush
HaltFlusher(t) ==
  /\ task[t].at = "flushing" /\ "halt" \in Risks
  /\ LET p == task[t].port
     IN \E k \in 1 .. Len(pending[p]) :
          /\ pending[p][k] = ThreadItem(t)
          /\ pending' = [pending EXCEPT ![p] = RemoveAt(@, k)]
  /\ task' = [task EXCEPT ![t] = [at |-> "halted"]]
  /\ UNCHANGED <<buffer, writeList, hasFd, owner, openFd, room, broken, accepted,
                 sent, discarded, flushed>>

-----------------------------------------------------------------------------
(* The dispatcher *)

Threads(queue) == {t \in Thread : ThreadItem(t) \in ToSet(queue)}

\* The bytes of the first items of a queue, and of all of them.
BytesUpTo(queue) ==
  LET bytes[k \in 0 .. Len(queue)] ==
        IF k = 0 THEN <<>> ELSE bytes[k - 1] \o queue[k].bytes
  IN bytes
AllBytes(queue) == BytesUpTo(queue)[Len(queue)]

\* How many items of a queue can be dealt with if so many bytes are taken.
Cost(queue, k) == Len(BytesUpTo(queue)[k])

\* Mutated: an item that is written exactly to its end stays.
DoneItems_less(queue, n) ==
  CHOOSE k \in 0 .. Len(queue) :
    /\ k = 0 \/ Cost(queue, k) < n
    /\ \A j \in (k + 1) .. Len(queue) : Cost(queue, j) >= n

DoneItems(queue, n) ==
  CHOOSE k \in 0 .. Len(queue) :
    Cost(queue, k) <= n /\ \A j \in (k + 1) .. Len(queue) : Cost(queue, j) > n

\* Mutated: the threads are dropped together with the bytes.
WriteError_discard(p, c) ==
  [c EXCEPT !.event = FALSE, !.queue = <<>>,
            !.discarded = @ \cup ToSet(AllBytes(c.queue))]

\* dispatch_write_error; an error-proc gets the error instead
WriteError(p, c) ==
  IF p \in HasErrorProc THEN [c EXCEPT !.event = FALSE]
  ELSE [c EXCEPT !.event = FALSE, !.queue = <<>>, !.failed = Threads(c.queue),
                 !.discarded = @ \cup ToSet(AllBytes(c.queue))]

\* handle_std_write_event: the bytes in front of the queue are written, and the
\* threads behind them woken, up to a write that is not complete
handle_std_write_event(p, c) ==
  LET fails == broken[p] \/ p \notin hasFd
      n == IF fails THEN 0 ELSE Taken(c, Len(AllBytes(c.queue)))
      done == DoneItems(c.queue, n)
      left == Rest(c.queue, done)
      d == [AfterWrite(c, AllBytes(c.queue), n) EXCEPT
              !.woken = Threads(SubSeq(c.queue, 1, done))]
  IN IF left = <<>> THEN [d EXCEPT !.queue = <<>>, !.event = FALSE]
     ELSE IF fails THEN WriteError(p, [d EXCEPT !.queue = left])
     ELSE [d EXCEPT !.queue =
             <<DataItem(Rest(left[1].bytes, n - Cost(c.queue, done)))>> \o Tail(left)]

\* The events of some ports are handled in one poll, and some threads are told that
\* their select() is over.
WritesHandled(ports, over) ==
  LET after == [p \in Port |-> IF p \in ports THEN handle_std_write_event(p, Cursor(p))
                               ELSE Cursor(p)]
      woken == UNION {after[p].woken : p \in Port}
      failed == UNION {after[p].failed : p \in Port}
  IN /\ pending' = [p \in Port |-> after[p].queue]
     /\ writeList' = Those(writeList, {p \in Port : after[p].event})
     /\ room' = [p \in Port |-> after[p].room]
     /\ sent' = [p \in Port |-> after[p].sent]
     /\ discarded' = [p \in Port |-> after[p].discarded]
     /\ flushed' = [p \in Port |->
          Max({flushed[p]} \cup {task[t].upto : t \in after[p].woken})]
     /\ task' = [t \in Thread |->
          IF t \in woken \cup failed
          THEN [at |-> "woken", port |-> task[t].port, closing |-> task[t].closing,
                ok |-> t \in woken]
          ELSE IF t \in over THEN Idle ELSE task[t]]
     /\ UNCHANGED <<buffer, hasFd, owner, openFd, broken, accepted>>

\* Whoever reads from the descriptor makes room, or closes the other end.
MakeRoom(p) ==
  /\ ~broken[p]
  /\ \E n \in (room[p] + 1) .. Room : room' = [room EXCEPT ![p] = n]
  /\ UNCHANGED <<buffer, pending, writeList, hasFd, owner, openFd, broken, task,
                 accepted, sent, discarded, flushed>>

Break(p) ==
  /\ ~broken[p]
  /\ broken' = [broken EXCEPT ![p] = TRUE]
  /\ room' = [room EXCEPT ![p] = 0]
  /\ UNCHANGED <<buffer, pending, writeList, hasFd, owner, openFd, task, accepted,
                 sent, discarded, flushed>>

-----------------------------------------------------------------------------
InitOutput ==
  /\ buffer = [p \in Port |-> <<>>] /\ pending = [p \in Port |-> <<>>]
  /\ writeList = <<>>
  /\ hasFd = Port /\ owner = Owner /\ openFd = Port
  /\ room \in [Port -> 0 .. Room] /\ broken = [p \in Port |-> FALSE]
  /\ task = [t \in Thread |-> Idle]
  /\ accepted = [p \in Port |-> 0] /\ sent = [p \in Port |-> <<>>]
  /\ discarded = [p \in Port |-> {}] /\ flushed = [p \in Port |-> 0]

OutputStep ==
  \/ \E t \in Thread, p \in Port :
       \/ \E lens \in Vectors, nl \in BOOLEAN : Write(t, p, lens, nl)
       \/ \E lens \in Vectors : WriteLineFails(t, p, lens)
       \/ \E closing \in BOOLEAN : Flush(t, p, closing)
       \/ CloseAnyway(t, p)
  \/ \E t \in Thread : Resume(t) \/ CloseFd(t) \/ CloseDone(t) \/ HaltFlusher(t)

=============================================================================
