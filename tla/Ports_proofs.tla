---------------------------- MODULE Ports_proofs ----------------------------
(***************************************************************************)
(* That queued output ports keep their bytes in order, have a write event  *)
(* as long as something is pending, and keep the promise of a flush, and the*)
(* types of all variables of EventPoll, for any numbers of threads and ports,*)
(* any vectors of strings and any sizes.                                   *)
(***************************************************************************)
EXTENDS OutputCursor_proofs

-----------------------------------------------------------------------------
(* The states                                                              *)

\* The types of EventPoll in terms of OutputCursor_proofs.
LEMMA ByteSeqs == ByteSeq = Seq(Bytes(MaxBytes)) /\ Item = ItemOf(Bytes(MaxBytes))
                  /\ MaxBytes \in Nat
  BY OutputAssumption DEF ByteSeq, Item, ItemOf, Bytes

\* No buffer of bytes is taken for the closed buffer.
LEMMA NeverClosed == ASSUME NEW n \in Nat, NEW b \in Seq(Bytes(n))  PROVE b # Closed
<1>1. SUFFICES ASSUME b = Closed  PROVE FALSE
  OBVIOUS
<1>2. Len(b) = 1 /\ b[1] = 0
  BY <1>1 DEF Closed
<1>3. 1 \in 1 .. Len(b)
  BY <1>2
<1>4. b[1] \in Bytes(n)
  BY <1>3, ElementOfSeq
<1> QED  BY <1>2, <1>4 DEF Bytes

\* The fields of tasks.
LEMMA TaskFacts ==
  ASSUME NEW x \in Task
  PROVE  /\ x.at = "flushing" => /\ x.port \in Port /\ x.upto \in 0 .. MaxBytes
                                 /\ x.closing \in BOOLEAN /\ "closing" \in DOMAIN x
         /\ x.at = "woken" => /\ x.port \in Port /\ x.closing \in BOOLEAN /\ x.ok \in BOOLEAN
                              /\ "closing" \in DOMAIN x
         /\ x.at \in {"closing", "closed"} => /\ x.port \in Port /\ x.closing = TRUE
                                              /\ "closing" \in DOMAIN x
         /\ x.at \in {"reading", "closing input"} => x.from \in InPort
         /\ x.at = "selecting" => x.set \in Selects
         /\ "closing" \in DOMAIN x => x.at \in {"flushing", "woken", "closing", "closed"}
         /\ x.at = "closing" => [x EXCEPT !.at = "closed"]
                                  = [at |-> "closed", port |-> x.port, closing |-> TRUE]
<1>1. CASE x \in [at : {"idle", "halted"}]
  <2>1. DOMAIN x = {"at"} /\ x.at \in {"idle", "halted"}
    BY <1>1
  <2> QED  BY <2>1
<1>2. CASE x \in [at : {"flushing"}, port : Port, upto : 0 .. MaxBytes, closing : BOOLEAN]
  <2>1. /\ DOMAIN x = {"at", "port", "upto", "closing"} /\ x.at = "flushing"
        /\ x.port \in Port /\ x.upto \in 0 .. MaxBytes /\ x.closing \in BOOLEAN
    BY <1>2
  <2> QED  BY <2>1
<1>3. CASE x \in [at : {"woken"}, port : Port, closing : BOOLEAN, ok : BOOLEAN]
  <2>1. /\ DOMAIN x = {"at", "port", "closing", "ok"} /\ x.at = "woken"
        /\ x.port \in Port /\ x.closing \in BOOLEAN /\ x.ok \in BOOLEAN
    BY <1>3
  <2> QED  BY <2>1
<1>4. CASE x \in [at : {"closing", "closed"}, port : Port, closing : {TRUE}]
  <2>1. /\ DOMAIN x = {"at", "port", "closing"} /\ x.at \in {"closing", "closed"}
        /\ x.port \in Port /\ x.closing = TRUE
    BY <1>4
  <2>2. [x EXCEPT !.at = "closed"] = [at |-> "closed", port |-> x.port, closing |-> x.closing]
    BY <1>4
  <2>3. [x EXCEPT !.at = "closed"] = [at |-> "closed", port |-> x.port, closing |-> TRUE]
    BY <2>1, <2>2
  <2> QED  BY <2>1, <2>3
<1>5. CASE x \in [at : {"reading", "closing input"}, from : InPort]
  <2>1. DOMAIN x = {"at", "from"} /\ x.at \in {"reading", "closing input"} /\ x.from \in InPort
    BY <1>5
  <2> QED  BY <2>1
<1>6. CASE x \in [at : {"selecting"}, set : Selects]
  <2>1. DOMAIN x = {"at", "set"} /\ x.at = "selecting" /\ x.set \in Selects
    BY <1>6
  <2> QED  BY <2>1
<1> QED  BY <1>1, <1>2, <1>3, <1>4, <1>5, <1>6 DEF Task

\* The tasks that the steps make.
LEMMA TasksMade ==
  /\ Idle \in Task /\ Idle.at = "idle" /\ [at |-> "halted"] \in Task
  /\ \A p \in Port, b \in BOOLEAN, n \in 0 .. MaxBytes :
       [at |-> "flushing", port |-> p, upto |-> n, closing |-> b] \in Task
  /\ \A p \in Port, b \in BOOLEAN, k \in BOOLEAN :
       [at |-> "woken", port |-> p, closing |-> b, ok |-> k] \in Task
  /\ \A p \in Port : /\ [at |-> "closing", port |-> p, closing |-> TRUE] \in Task
                     /\ [at |-> "closed", port |-> p, closing |-> TRUE] \in Task
  /\ \A i \in InPort : /\ [at |-> "reading", from |-> i] \in Task
                       /\ [at |-> "closing input", from |-> i] \in Task
  /\ \A s \in Selects : [at |-> "selecting", set |-> s] \in Task
  BY DEF Task, Idle

\* A thread that waits in the queue of a port is waiting for its flush.
Waiting ==
  \A p \in Port :
    /\ Once(pending[p])
    /\ \A t \in Threads(pending[p]) :
         task[t].at = "flushing" /\ task[t].port = p /\ task[t].upto <= accepted[p]

\* A thread in the list of select events is selecting.
Selecting == \A t \in ToSet(selectList) : task[t].at = "selecting"

\* The inductive invariant of the types.
TypeInv == TypeOK /\ Waiting /\ Selecting

\* The types of the variables of one port.
LEMMA PortTypes ==
  ASSUME TypeOK, NEW p \in Port
  PROVE  /\ buffer[p] \in {Closed} \cup Seq(Bytes(MaxBytes))
         /\ pending[p] \in Seq(ItemOf(Bytes(MaxBytes))) /\ room[p] \in 0 .. Room
         /\ accepted[p] \in 0 .. MaxBytes /\ accepted[p] \in Nat
         /\ sent[p] \in Seq(Bytes(MaxBytes)) /\ discarded[p] \in SUBSET Bytes(MaxBytes)
         /\ flushed[p] \in Nat /\ flushed[p] <= accepted[p] /\ Len(buffer[p]) <= BlockSize
         /\ IsOpen(p) => buffer[p] \in Seq(Bytes(MaxBytes))
         /\ broken[p] \in BOOLEAN
  BY ByteSeqs DEF TypeOK, IsOpen, Bytes

\* The fields of the cursor of a port ...
LEMMA CursorIs ==
  ASSUME NEW p \in Port
  PROVE  /\ Cursor(p).buf = buffer[p] /\ Cursor(p).lim = BlockSize
         /\ Cursor(p).queue = pending[p] /\ Cursor(p).event = (p \in ToSet(writeList))
         /\ Cursor(p).room = room[p] /\ Cursor(p).count = accepted[p]
         /\ Cursor(p).sent = sent[p] /\ Cursor(p).woken = {} /\ Cursor(p).failed = {}
         /\ Cursor(p).discarded = discarded[p]
  BY DEF Cursor

\* ... and their types.
LEMMA CursorTyped ==
  ASSUME TypeOK, NEW p \in Port
  PROVE  /\ Cursor(p) \in Cursors(MaxBytes)
         /\ IsOpen(p) => Cursor(p) \in OpenCursors(MaxBytes) /\ Fits(Cursor(p))
<1>1. /\ buffer[p] \in {Closed} \cup Seq(Bytes(MaxBytes))
      /\ pending[p] \in Seq(ItemOf(Bytes(MaxBytes))) /\ room[p] \in 0 .. Room
      /\ accepted[p] \in 0 .. MaxBytes /\ sent[p] \in Seq(Bytes(MaxBytes))
      /\ discarded[p] \in SUBSET Bytes(MaxBytes) /\ Len(buffer[p]) <= BlockSize
      /\ IsOpen(p) => buffer[p] \in Seq(Bytes(MaxBytes))
  BY PortTypes
<1>2. (p \in ToSet(writeList)) \in BOOLEAN
  OBVIOUS
<1> DEFINE v == p \in ToSet(writeList)
<1>3. v \in BOOLEAN
  OBVIOUS
<1>4. Cursor(p) = [buf |-> buffer[p], lim |-> BlockSize, queue |-> pending[p], event |-> v,
                   room |-> room[p], count |-> accepted[p], sent |-> sent[p], woken |-> {},
                   failed |-> {}, discarded |-> discarded[p]]
  BY DEF Cursor
<1> HIDE DEF v
<1>5. Cursor(p) \in Cursors(MaxBytes)
  BY <1>1, <1>3, <1>4 DEF Cursors
<1>6. Cursor(p).buf = buffer[p] /\ Cursor(p).lim = BlockSize
  BY CursorIs
<1> QED  BY <1>1, <1>5, <1>6 DEF OpenCursors, Fits

\* A list with a new first entry.
LEMMA ListWith ==
  ASSUME NEW X, NEW list \in Seq(X), NEW x \in X
  PROVE  <<x>> \o list \in Seq(X) /\ ToSet(<<x>> \o list) = ToSet(list) \cup {x}
<1> DEFINE a == <<x>>
<1>1. a \in Seq(X) /\ ToSet(a) = {x}
  <2>1. DOMAIN a = 1 .. 1 /\ a[1] = x
    OBVIOUS
  <2>2. 1 .. 1 = {1}
    OBVIOUS
  <2>3. ToSet(a) = {x}
    BY <2>1, <2>2 DEF ToSet
  <2> QED  BY <2>3
<1> HIDE DEF a
<1>2. a \o list \in Seq(X) /\ ToSet(a \o list) = ToSet(a) \cup ToSet(list)
  BY <1>1, ConcatAre
<1> QED  BY <1>1, <1>2 DEF a

\* The entries of a list.
LEMMA MembersOf == ASSUME NEW X, NEW list \in Seq(X)  PROVE ToSet(list) \subseteq X
<1>1. DOMAIN list = 1 .. Len(list) /\ \A i \in 1 .. Len(list) : list[i] \in X
  BY LenProperties, ElementOfSeq
<1> QED  BY <1>1 DEF ToSet

\* A primitive registers or frees the event of its own port alone.
LEMMA RegisteredIs ==
  ASSUME NEW p \in Port, NEW c, c.event \in BOOLEAN, writeList \in Seq(Port)
  PROVE  /\ Registered(p, c) \in Seq(Port)
         /\ p \in ToSet(Registered(p, c)) <=> c.event
         /\ \A o \in Port \ {p} : o \in ToSet(Registered(p, c)) <=> o \in ToSet(writeList)
<1>1. /\ <<p>> \o writeList \in Seq(Port)
      /\ ToSet(<<p>> \o writeList) = ToSet(writeList) \cup {p}
  BY ListWith
<1>2. /\ Those(writeList, Port \ {p}) \in Seq(Port)
      /\ ToSet(Those(writeList, Port \ {p})) = ToSet(writeList) \cap (Port \ {p})
  BY ThoseAre
<1>3. ToSet(writeList) \subseteq Port
  BY MembersOf
<1> DEFINE w == <<p>> \o writeList  o == Those(writeList, Port \ {p})
<1>4. Registered(p, c) = IF c.event /\ p \notin ToSet(writeList) THEN w
                         ELSE IF ~c.event THEN o ELSE writeList
  BY DEF Registered
<1>5. /\ w \in Seq(Port) /\ ToSet(w) = ToSet(writeList) \cup {p}
      /\ o \in Seq(Port) /\ ToSet(o) = ToSet(writeList) \cap (Port \ {p})
  BY <1>1, <1>2
<1> HIDE DEF w, o
<1> QED  BY <1>3, <1>4, <1>5

-----------------------------------------------------------------------------
(* The types of what each step of a thread changes.                        *)

\* The cursor when a write is finished, and whether the thread must wait for its flush.
FlushedIf(c, flush) == IF flush THEN FlushAll(c) ELSE c
Waits(c, flush) == flush /\ FlushedIf(c, flush).event

\* What Finish does to the variables, in terms of this cursor.
FinishedAs(t, p, c, d, wait, flush, closing) ==
  /\ pending' = [pending EXCEPT ![p] = IF wait THEN Enter(d.queue, t) ELSE d.queue]
  /\ writeList' = Registered(p, d)
  /\ room' = [room EXCEPT ![p] = d.room]
  /\ accepted' = [accepted EXCEPT ![p] = d.count]
  /\ sent' = [sent EXCEPT ![p] = d.sent]
  /\ buffer' = [buffer EXCEPT ![p] = IF closing /\ ~wait THEN Closed ELSE d.buf]
  /\ task' = [task EXCEPT ![t] =
       IF wait THEN [at |-> "flushing", port |-> p, upto |-> d.count, closing |-> closing]
       ELSE IF closing THEN [at |-> "closing", port |-> p, closing |-> TRUE]
       ELSE Idle]
  /\ flushed' = [flushed EXCEPT ![p] = IF flush /\ ~wait THEN d.count ELSE @]
  /\ UNCHANGED <<hasFd, owner, openFd, broken, discarded>>

\* Finish says this: the buffer is written, and the thread waits if an event is left.
LEMMA FinishIs ==
  ASSUME NEW t \in Thread, NEW p \in Port, NEW c \in OpenCursors(MaxBytes), Fits(c),
         NEW flush \in BOOLEAN, NEW closing \in BOOLEAN, Finish(t, p, c, flush, closing),
         NEW d, d = FlushedIf(c, flush), NEW wait, wait = Waits(c, flush)
  PROVE  /\ FinishedAs(t, p, c, d, wait, flush, closing)
         /\ Passes(MaxBytes, c, d) /\ Len(d.buf) <= BlockSize /\ wait \in BOOLEAN
         /\ (wait <=> flush /\ d.event) /\ (flush => d.buf = <<>>) /\ d.count = c.count
<1>1. Passes(MaxBytes, c, d) /\ Len(d.buf) <= BlockSize /\ (flush => d.buf = <<>>)
  <2>1. MaxBytes \in Nat
    BY ByteSeqs
  <2>2. CASE flush
    <3>1. d = FlushAll(c)
      BY <2>2 DEF FlushedIf
    <3>2. Passes(MaxBytes, c, d) /\ d.buf = <<>>
      BY <2>1, <3>1, AllFlushed
    <3>3. Len(d.buf) = 0
      BY <3>2, NoBytes
    <3> QED  BY <3>2, <3>3, Threshold
  <2>3. CASE ~flush
    <3>1. d = c
      BY <2>3 DEF FlushedIf
    <3>2. Kept(c, c)
      BY <2>1, WritesNothing DEF WritesTo
    <3>3. c.lim <= BlockSize /\ Len(c.buf) <= c.lim /\ Len(c.buf) \in Nat /\ c.lim \in Nat
      BY <2>1, LimitIs, CursorTypes DEF Fits
    <3> QED  BY <2>3, <3>1, <3>2, <3>3, Threshold DEF Passes
  <2> QED  BY <2>2, <2>3
<1>2. d.count = c.count /\ d \in OpenCursors(MaxBytes)
  BY <1>1 DEF Passes
<1>3. wait \in BOOLEAN /\ (wait <=> flush /\ d.event)
  <2>1. d.event \in BOOLEAN
    BY <1>2, ByteSeqs, CursorTypes
  <2> QED  BY <2>1 DEF Waits
<1> DEFINE e == IF wait THEN [d EXCEPT !.queue = Append(@, ThreadItem(t))] ELSE d
<1>4. /\ e.queue = IF wait THEN Enter(d.queue, t) ELSE d.queue
      /\ e.event = d.event /\ e.room = d.room /\ e.count = d.count /\ e.sent = d.sent
      /\ e.buf = d.buf
  BY <1>2 DEF OpenCursors, Cursors, Enter
<1>6. /\ CloseCursor(p, e)
      /\ buffer' = [buffer EXCEPT ![p] = IF closing /\ ~wait THEN Closed ELSE e.buf]
      /\ task' = [task EXCEPT ![t] =
           IF wait THEN [at |-> "flushing", port |-> p, upto |-> c.count,
                         closing |-> closing]
           ELSE IF closing THEN [at |-> "closing", port |-> p, closing |-> TRUE]
           ELSE Idle]
      /\ flushed' = [flushed EXCEPT ![p] = IF flush /\ ~wait THEN c.count ELSE @]
      /\ UNCHANGED <<hasFd, owner, openFd, broken, discarded>>
  <2> DEFINE d0 == FlushedIf(c, flush)
             w0 == Waits(c, flush)
             e0 == IF w0 THEN [d0 EXCEPT !.queue = Append(@, ThreadItem(t))] ELSE d0
  <2>1. /\ CloseCursor(p, e0)
        /\ buffer' = [buffer EXCEPT ![p] = IF closing /\ ~w0 THEN Closed ELSE e0.buf]
        /\ task' = [task EXCEPT ![t] =
             IF w0 THEN [at |-> "flushing", port |-> p, upto |-> c.count,
                         closing |-> closing]
             ELSE IF closing THEN [at |-> "closing", port |-> p, closing |-> TRUE]
             ELSE Idle]
        /\ flushed' = [flushed EXCEPT ![p] = IF flush /\ ~w0 THEN c.count ELSE @]
        /\ UNCHANGED <<hasFd, owner, openFd, broken, discarded>>
    BY Zenon DEF Finish, FlushedIf, Waits
  <2>2. d0 = d /\ w0 = wait
    OBVIOUS
  <2> HIDE DEF d0, w0
  <2> QED  BY <2>1, <2>2
<1>7. Registered(p, e) = Registered(p, d)
  BY <1>4 DEF Registered
<1> HIDE DEF e
<1>8. FinishedAs(t, p, c, d, wait, flush, closing)
  BY <1>2, <1>4, <1>6, <1>7 DEF FinishedAs, CloseCursor
<1> QED  BY <1>1, <1>2, <1>3, <1>8

\* A thread that does something else waits nowhere.
LEMMA NotQueued ==
  ASSUME TypeInv, NEW t \in Thread
  PROVE  /\ task[t].at # "flushing" => \A o \in Port : t \notin Threads(pending[o])
         /\ task[t].at # "selecting" => t \notin ToSet(selectList)
  BY DEF TypeInv, Waiting, Selecting

\* The types of what a step of a thread that writes can change, port by port.
PortTyped(b, q, r, a, s, f) ==
  /\ b \in {Closed} \cup Seq(Bytes(MaxBytes)) /\ Len(b) <= BlockSize
  /\ q \in Seq(ItemOf(Bytes(MaxBytes))) /\ r \in 0 .. Room /\ a \in 0 .. MaxBytes
  /\ s \in Seq(Bytes(MaxBytes)) /\ f \in Nat /\ f <= a

\* The end of every write.
LEMMA FinishTypes ==
  ASSUME TypeInv, NEW t \in Thread, NEW p \in Port, task[t] = Idle, IsOpen(p),
         NEW c, WritesTo(MaxBytes, Cursor(p), c), NEW flush \in BOOLEAN, NEW closing \in BOOLEAN,
         Finish(t, p, c, flush, closing), UNCHANGED inVars
  PROVE  TypeInv'
<1>0. MaxBytes \in Nat /\ TypeOK /\ Waiting /\ Selecting
  BY ByteSeqs DEF TypeInv
<1>1. /\ c \in OpenCursors(MaxBytes) /\ Fits(c) /\ Longer(pending[p], c.queue)
      /\ accepted[p] <= c.count
  BY CursorIs DEF WritesTo, Kept
<1> DEFINE d == FlushedIf(c, flush)
           wait == Waits(c, flush)
           q == IF wait THEN Enter(d.queue, t) ELSE d.queue
           b == IF closing /\ ~wait THEN Closed ELSE d.buf
           f == IF flush /\ ~wait THEN d.count ELSE flushed[p]
<1>2. /\ FinishedAs(t, p, c, d, wait, flush, closing)
      /\ Passes(MaxBytes, c, d) /\ Len(d.buf) <= BlockSize /\ wait \in BOOLEAN
      /\ (wait <=> flush /\ d.event) /\ d.count = c.count
  BY <1>1, FinishIs
<1> HIDE DEF d, wait
<1>3. /\ d \in OpenCursors(MaxBytes) /\ Longer(c.queue, d.queue)
  BY <1>2 DEF Passes, Kept
<1>4. /\ d.buf \in Seq(Bytes(MaxBytes)) /\ d.queue \in Seq(ItemOf(Bytes(MaxBytes)))
      /\ d.event \in BOOLEAN /\ d.room \in 0 .. Room /\ d.count \in 0 .. MaxBytes
      /\ d.sent \in Seq(Bytes(MaxBytes)) /\ c.queue \in Seq(ItemOf(Bytes(MaxBytes)))
  BY <1>0, <1>1, <1>3, CursorTypes
<1>5. /\ pending[p] \in Seq(ItemOf(Bytes(MaxBytes))) /\ flushed[p] \in Nat
      /\ flushed[p] <= accepted[p] /\ accepted[p] \in Nat
  BY <1>0, PortTypes
<1>6. Longer(pending[p], d.queue)
  BY <1>1, <1>3, <1>4, <1>5, LongerMore
<1>7. Threads(d.queue) = Threads(pending[p]) /\ Once(d.queue)
  <2>1. Once(pending[p])
    BY <1>0 DEF Waiting
  <2> QED  BY <1>4, <1>5, <1>6, <2>1, ThreadsLonger
<1>8. t \notin ToSet(selectList) /\ \A o \in Port : t \notin Threads(pending[o])
  <2>1. task[t].at # "flushing" /\ task[t].at # "selecting"
    BY DEF Idle
  <2> QED  BY <2>1, NotQueued
<1>9. /\ q \in Seq(ItemOf(Bytes(MaxBytes))) /\ Once(q)
      /\ Threads(q) = IF wait THEN Threads(pending[p]) \cup {t} ELSE Threads(pending[p])
  <2>1. t \notin Threads(d.queue)
    BY <1>7, <1>8
  <2>2. /\ Enter(d.queue, t) \in Seq(ItemOf(Bytes(MaxBytes))) /\ Once(Enter(d.queue, t))
        /\ Threads(Enter(d.queue, t)) = Threads(d.queue) \cup {t}
    BY <1>4, <1>7, <2>1, ThreadEnters
  <2> QED  BY <1>4, <1>7, <2>2
<1>10. Len(Closed) <= BlockSize
  <2>1. Len(Closed) = 1
    BY DEF Closed
  <2> QED  BY <2>1, OutputAssumption
<1>11. PortTyped(b, q, d.room, d.count, d.sent, f)
  <2>1. b \in {Closed} \cup Seq(Bytes(MaxBytes)) /\ Len(b) <= BlockSize
    BY <1>2, <1>4, <1>10
  <2>2. f \in Nat /\ f <= d.count
    BY <1>0, <1>1, <1>2, <1>4, <1>5
  <2> HIDE DEF b, q, f
  <2> QED  BY <1>4, <1>9, <2>1, <2>2 DEF PortTyped
<1>12. /\ pending' = [pending EXCEPT ![p] = q] /\ writeList' = Registered(p, d)
       /\ room' = [room EXCEPT ![p] = d.room] /\ accepted' = [accepted EXCEPT ![p] = d.count]
       /\ sent' = [sent EXCEPT ![p] = d.sent] /\ buffer' = [buffer EXCEPT ![p] = b]
       /\ flushed' = [flushed EXCEPT ![p] = f]
       /\ UNCHANGED <<hasFd, owner, openFd, broken, discarded, inVars>>
  BY <1>2 DEF FinishedAs
<1> DEFINE x == IF wait THEN [at |-> "flushing", port |-> p, upto |-> d.count, closing |-> closing]
                ELSE IF closing THEN [at |-> "closing", port |-> p, closing |-> TRUE]
                ELSE Idle
<1>13. task' = [task EXCEPT ![t] = x]
  BY <1>2 DEF FinishedAs
<1>14. x \in Task /\ (wait => x.at = "flushing" /\ x.port = p /\ x.upto = d.count)
  BY <1>4, TasksMade
<1>15. Registered(p, d) \in Seq(Port)
  BY <1>0, <1>4, RegisteredIs DEF TypeOK
<1> HIDE DEF b, q, f, x
<1>16. TypeOK'
  BY <1>0, <1>11, <1>12, <1>13, <1>14, <1>15, ByteSeqs DEF TypeOK, PortTyped, inVars, Bytes
<1>17. Waiting'
  <2> SUFFICES ASSUME NEW o \in Port
               PROVE  /\ Once(pending'[o])
                      /\ \A u \in Threads(pending'[o]) :
                           task'[u].at = "flushing" /\ task'[u].port = o
                             /\ task'[u].upto <= accepted'[o]
    BY DEF Waiting, Threads
  <2>1. \A u \in Thread : u # t => task'[u] = task[u]
    BY <1>0, <1>13 DEF TypeOK
  <2>2. task'[t] = x
    BY <1>0, <1>13 DEF TypeOK
  <2>3. CASE o # p
    <3>1. pending'[o] = pending[o] /\ accepted'[o] = accepted[o]
      BY <1>0, <1>12, <2>3 DEF TypeOK
    <3>2. \A u \in Threads(pending[o]) : u \in Thread /\ u # t
      BY <1>8, ThreadsAre
    <3> QED  BY <1>0, <2>1, <3>1, <3>2 DEF Waiting
  <2>4. CASE o = p
    <3>1. pending'[p] = q /\ accepted'[p] = d.count
      BY <1>0, <1>12 DEF TypeOK
    <3>2. \A u \in Threads(pending[p]) : u \in Thread /\ u # t
      BY <1>8, ThreadsAre
    <3>3. SUFFICES ASSUME NEW u \in Threads(q)
                   PROVE  /\ task'[u].at = "flushing" /\ task'[u].port = p
                          /\ task'[u].upto <= d.count
      BY <1>9, <2>4, <3>1
    <3>4. CASE u \in Threads(pending[p])
      <4>1. task'[u] = task[u] /\ task[u].at = "flushing" /\ task[u].port = p
            /\ task[u].upto <= accepted[p]
        BY <1>0, <2>1, <3>2, <3>4 DEF Waiting
      <4>2. task[u].upto \in 0 .. MaxBytes
        BY <1>0, <3>2, <3>4, <4>1, TaskFacts DEF TypeOK
      <4>3. accepted[p] <= d.count
        BY <1>1, <1>2
      <4> QED  BY <1>4, <1>5, <4>1, <4>2, <4>3
    <3>5. CASE u = t /\ wait
      BY <1>4, <1>14, <2>2, <3>5
    <3> QED  BY <1>9, <3>4, <3>5
  <2> QED  BY <2>3, <2>4
<1>18. Selecting'
  <2>1. selectList' = selectList /\ ToSet(selectList) \subseteq Thread
    BY <1>0, <1>12, MembersOf DEF inVars, TypeOK
  <2> QED  BY <1>0, <1>8, <1>13, <2>1 DEF Selecting, TypeOK
<1> QED  BY <1>16, <1>17, <1>18 DEF TypeInv

\* Nothing, or a vector, is written to an open port.
LEMMA CursorWrites ==
  ASSUME TypeInv, NEW p \in Port, IsOpen(p)
  PROVE  /\ WritesTo(MaxBytes, Cursor(p), Cursor(p))
         /\ \A lens \in Vectors : c_writev(Cursor(p), lens).count <= MaxBytes =>
              WritesTo(MaxBytes, Cursor(p), c_writev(Cursor(p), lens))
<1>1. MaxBytes \in Nat /\ Cursor(p) \in OpenCursors(MaxBytes) /\ Fits(Cursor(p))
  BY ByteSeqs, CursorTyped DEF TypeInv
<1>2. \A lens \in Vectors : lens \in Seq(Nat \ {0})
  BY OutputAssumption
<1> QED  BY <1>1, <1>2, WritesNothing, VectorWritten

\* A thread writes to a port that nobody closes, and finishes.
Finishes(t, p, c, flush, closing) ==
  /\ (closing => flush) /\ task[t] = Idle /\ IsOpen(p) /\ Undisturbed(p)
  /\ WritesTo(MaxBytes, Cursor(p), c) /\ Finish(t, p, c, flush, closing)

\* A write, a write that fails to end its line and a flush all finish so.
LEMMA WriteStep ==
  ASSUME TypeInv, NEW t \in Thread, NEW p \in Port, UNCHANGED inVars,
         \/ \E lens \in Vectors, nl \in BOOLEAN : Write(t, p, lens, nl)
         \/ \E lens \in Vectors : WriteLineFails(t, p, lens)
         \/ \E closing \in BOOLEAN : Flush(t, p, closing)
  PROVE  \E c : \E flush \in BOOLEAN, closing \in BOOLEAN : Finishes(t, p, c, flush, closing)
<1> DEFINE off == FALSE
           on == TRUE
<1>1. off \in BOOLEAN /\ on \in BOOLEAN /\ ~off /\ on
  OBVIOUS
<1>2. CASE \E lens \in Vectors, nl \in BOOLEAN : Write(t, p, lens, nl)
  <2>1. PICK lens \in Vectors, nl \in BOOLEAN : Write(t, p, lens, nl)
    BY <1>2
  <2>2. /\ task[t] = Idle /\ IsOpen(p) /\ Undisturbed(p)
        /\ c_writev(Cursor(p), lens).count <= MaxBytes
        /\ Finish(t, p, c_writev(Cursor(p), lens), nl, off)
    BY <2>1, Zenon DEF Write
  <2>3. WritesTo(MaxBytes, Cursor(p), c_writev(Cursor(p), lens))
    BY <2>2, CursorWrites
  <2> HIDE DEF off
  <2>4. Finishes(t, p, c_writev(Cursor(p), lens), nl, off)
    BY <1>1, <2>2, <2>3 DEF Finishes
  <2> QED  BY <1>1, <2>4
<1>3. CASE \E lens \in Vectors : WriteLineFails(t, p, lens)
  <2>1. PICK lens \in Vectors : WriteLineFails(t, p, lens)
    BY <1>3
  <2>2. /\ task[t] = Idle /\ IsOpen(p) /\ Undisturbed(p)
        /\ c_writev(Cursor(p), lens).count <= MaxBytes
        /\ Finish(t, p, c_writev(Cursor(p), lens), off, off)
    BY <2>1, Zenon DEF WriteLineFails
  <2>3. WritesTo(MaxBytes, Cursor(p), c_writev(Cursor(p), lens))
    BY <2>2, CursorWrites
  <2> HIDE DEF off
  <2>4. Finishes(t, p, c_writev(Cursor(p), lens), off, off)
    BY <1>1, <2>2, <2>3 DEF Finishes
  <2> QED  BY <1>1, <2>4
<1>4. CASE \E closing \in BOOLEAN : Flush(t, p, closing)
  <2>1. PICK closing \in BOOLEAN : Flush(t, p, closing)
    BY <1>4
  <2>2. /\ task[t] = Idle /\ IsOpen(p) /\ Undisturbed(p)
        /\ Finish(t, p, Cursor(p), on, closing)
    BY <2>1, Zenon DEF Flush
  <2>3. WritesTo(MaxBytes, Cursor(p), Cursor(p))
    BY <2>2, CursorWrites
  <2> HIDE DEF on
  <2>4. Finishes(t, p, Cursor(p), on, closing)
    BY <1>1, <2>2, <2>3 DEF Finishes
  <2> QED  BY <1>1, <2>4
<1> QED  BY <1>2, <1>3, <1>4

\* A thread that waits nowhere goes on to something else.
LEMMA TaskChanges ==
  ASSUME TypeInv, NEW t \in Thread, task[t].at # "flushing", NEW x \in Task,
         task' = [task EXCEPT ![t] = x], UNCHANGED <<pending, accepted, selectList>>,
         task[t].at # "selecting"
  PROVE  Waiting' /\ Selecting' /\ task' \in [Thread -> Task]
<1>0. TypeOK /\ Waiting /\ Selecting
  BY DEF TypeInv
<1>1. t \notin ToSet(selectList) /\ \A o \in Port : t \notin Threads(pending[o])
  BY NotQueued
<1>2. \A u \in Thread : u # t => task'[u] = task[u]
  BY <1>0 DEF TypeOK
<1>3. task' \in [Thread -> Task]
  BY <1>0 DEF TypeOK
<1>4. \A o \in Port : \A u \in Threads(pending[o]) : task'[u] = task[u]
  BY <1>1, <1>2, ThreadsAre
<1>5. Waiting'
  BY <1>0, <1>4 DEF Waiting, Threads
<1>6. Selecting'
  <2>1. ToSet(selectList) \subseteq Thread
    BY <1>0, MembersOf DEF TypeOK
  <2> QED  BY <1>0, <1>1, <1>2, <2>1 DEF Selecting
<1> QED  BY <1>3, <1>5, <1>6

\* The closed buffer is as small as a buffer.
LEMMA ClosedFits == Len(Closed) <= BlockSize
<1>1. Len(Closed) = 1
  BY DEF Closed
<1> QED  BY <1>1, OutputAssumption

\* A client closes a port whose flush has failed.
LEMMA CloseAnywayTypes ==
  ASSUME TypeInv, NEW t \in Thread, NEW p \in Port, CloseAnyway(t, p), UNCHANGED inVars
  PROVE  TypeInv'
<1> DEFINE x == [at |-> "closing", port |-> p, closing |-> TRUE]
<1>1. /\ task[t].at # "flushing" /\ task[t].at # "selecting" /\ x \in Task
      /\ task' = [task EXCEPT ![t] = x] /\ UNCHANGED <<outVars, inVars>>
  BY TasksMade DEF CloseAnyway, Idle
<1> HIDE DEF x
<1>2. Waiting' /\ Selecting' /\ task' \in [Thread -> Task]
  BY <1>1, TaskChanges DEF outVars, inVars
<1> QED  BY <1>1, <1>2 DEF TypeInv, TypeOK, outVars, inVars

\* A thread goes on after its flush.
LEMMA ResumeTypes ==
  ASSUME TypeInv, NEW t \in Thread, Resume(t), UNCHANGED inVars
  PROVE  TypeInv'
<1> DEFINE p == task[t].port
           x == IF task[t].closing THEN [at |-> "closing", port |-> p, closing |-> TRUE]
                ELSE Idle
<1>1. task[t].at = "woken" /\ task[t] \in Task
  BY DEF Resume, TypeInv, TypeOK
<1>2. p \in Port
  BY <1>1, TaskFacts
<1>3. x \in Task
  BY <1>2, TasksMade
<1>4. /\ task' = [task EXCEPT ![t] = x]
      /\ buffer' = [buffer EXCEPT ![p] = Closed] \/ buffer' = buffer
      /\ UNCHANGED <<pending, writeList, hasFd, owner, openFd, room, broken, accepted,
                     sent, discarded, flushed, inVars>>
  BY DEF Resume
<1> HIDE DEF x, p
<1>5. Waiting' /\ Selecting' /\ task' \in [Thread -> Task]
  BY <1>1, <1>3, <1>4, TaskChanges DEF inVars
<1>6. /\ buffer' \in [Port -> {Closed} \cup ByteSeq]
      /\ \A o \in Port : Len(buffer'[o]) <= BlockSize
  BY <1>2, <1>4, ClosedFits DEF TypeInv, TypeOK
<1> QED  BY <1>4, <1>5, <1>6 DEF TypeInv, TypeOK, inVars

\* The descriptor of a port is closed ...
LEMMA CloseFdTypes ==
  ASSUME TypeInv, NEW t \in Thread, CloseFd(t), UNCHANGED inVars
  PROVE  TypeInv'
<1> DEFINE x == [task[t] EXCEPT !.at = "closed"]
<1>1. task[t].at = "closing" /\ task[t] \in Task
  BY DEF CloseFd, TypeInv, TypeOK
<1>2. x \in Task
  <2>1. task[t].port \in Port
        /\ x = [at |-> "closed", port |-> task[t].port, closing |-> TRUE]
    BY <1>1, TaskFacts
  <2> HIDE DEF x
  <2> QED  BY <2>1, TasksMade
<1>3. /\ task' = [task EXCEPT ![t] = x] /\ openFd' \subseteq openFd /\ owner' \subseteq owner
      /\ UNCHANGED <<buffer, pending, writeList, hasFd, room, broken, accepted, sent,
                     discarded, flushed, inVars>>
  BY DEF CloseFd
<1> HIDE DEF x
<1>4. Waiting' /\ Selecting' /\ task' \in [Thread -> Task]
  BY <1>1, <1>2, <1>3, TaskChanges DEF inVars
<1> QED  BY <1>3, <1>4 DEF TypeInv, TypeOK, inVars

\* ... and the port with it.
LEMMA CloseDoneTypes ==
  ASSUME TypeInv, NEW t \in Thread, CloseDone(t), UNCHANGED inVars
  PROVE  TypeInv'
<1> DEFINE p == task[t].port
           g == IF broken[p] /\ IsOpen(p) THEN discarded[p] \cup ToSet(buffer[p])
                ELSE discarded[p]
<1>1. task[t].at = "closed" /\ task[t] \in Task /\ TypeOK
  BY DEF CloseDone, TypeInv, TypeOK
<1>2. p \in Port /\ Idle \in Task
  BY <1>1, TaskFacts, TasksMade
<1>3. /\ task' = [task EXCEPT ![t] = Idle] /\ buffer' = [buffer EXCEPT ![p] = Closed]
      /\ hasFd' \subseteq hasFd /\ discarded' = [discarded EXCEPT ![p] = g]
      /\ UNCHANGED <<pending, writeList, owner, openFd, room, broken, accepted, sent,
                     flushed, inVars>>
  BY DEF CloseDone
<1>4. g \in SUBSET (1 .. MaxBytes)
  <2>1. IsOpen(p) => buffer[p] \in Seq(Bytes(MaxBytes))
    BY <1>1, <1>2, PortTypes
  <2>2. IsOpen(p) => ToSet(buffer[p]) \subseteq Bytes(MaxBytes)
    BY <2>1, MembersOf
  <2>3. discarded[p] \in SUBSET Bytes(MaxBytes)
    BY <1>1, <1>2, PortTypes
  <2> QED  BY <2>2, <2>3 DEF Bytes
<1> HIDE DEF p, g
<1>5. Waiting' /\ Selecting' /\ task' \in [Thread -> Task]
  BY <1>1, <1>2, <1>3, TaskChanges DEF inVars
<1> QED  BY <1>2, <1>3, <1>4, <1>5, ClosedFits DEF TypeInv, TypeOK, inVars

-----------------------------------------------------------------------------
(* The types of what the input ports, the selects and the polls change.    *)

\* A thread that waits for a flush is halted.
LEMMA HaltTypes ==
  ASSUME TypeInv, NEW t \in Thread, HaltFlusher(t), UNCHANGED inVars
  PROVE  TypeInv'
<1>0. TypeOK /\ Waiting /\ Selecting
  BY DEF TypeInv
<1> DEFINE p == task[t].port
           x == [at |-> "halted"]
<1>1. task[t].at = "flushing" /\ task[t] \in Task
  BY <1>0 DEF HaltFlusher, TypeOK
<1>2. p \in Port /\ x \in Task
  BY <1>1, TaskFacts, TasksMade
<1>3. PICK k \in 1 .. Len(pending[p]) :
        pending[p][k] = ThreadItem(t) /\ pending' = [pending EXCEPT ![p] = Without(@, k)]
  BY DEF HaltFlusher, Without
<1>4. /\ task' = [task EXCEPT ![t] = x]
      /\ UNCHANGED <<buffer, writeList, hasFd, owner, openFd, room, broken, accepted,
                     sent, discarded, flushed, inVars>>
  BY DEF HaltFlusher
<1> HIDE DEF p, x
<1> DEFINE q == Without(pending[p], k)
<1>5. pending[p] \in Seq(ItemOf(Bytes(MaxBytes))) /\ Once(pending[p])
  BY <1>0, <1>2, PortTypes DEF Waiting
<1>6. q \in Seq(ItemOf(Bytes(MaxBytes))) /\ Once(q) /\ Threads(q) = Threads(pending[p]) \ {t}
  BY <1>2, <1>3, <1>5, ThreadLeaves
<1>7. pending' = [pending EXCEPT ![p] = q]
  BY <1>3
<1> HIDE DEF q
<1>8. TypeOK'
  BY <1>0, <1>2, <1>4, <1>6, <1>7, ByteSeqs DEF TypeOK, inVars
<1>9. t \in Threads(pending[p])
  BY <1>3, <1>5, ThreadsIn
<1>10. \A o \in Port : o # p => t \notin Threads(pending[o])
  <2>1. \A o \in Port : t \in Threads(pending[o]) => task[t].port = o
    BY <1>0 DEF Waiting
  <2> QED  BY <2>1 DEF p
<1>11. Waiting'
  <2>1. \A u \in Thread : u # t => task'[u] = task[u]
    BY <1>0, <1>4 DEF TypeOK
  <2>2. \A o \in Port : /\ Once(pending'[o])
                        /\ \A u \in Threads(pending'[o]) : u \in Threads(pending[o]) /\ u # t
    BY <1>0, <1>2, <1>6, <1>7, <1>10 DEF Waiting, TypeOK
  <2>3. \A o \in Port : \A u \in Threads(pending'[o]) : task'[u] = task[u]
    BY <2>1, <2>2, ThreadsAre
  <2> QED  BY <1>0, <1>4, <2>2, <2>3 DEF Waiting, Threads
<1>12. Selecting'
  <2>1. t \notin ToSet(selectList) /\ ToSet(selectList) \subseteq Thread
    BY <1>0, <1>1, NotQueued, MembersOf DEF TypeOK
  <2> QED  BY <1>0, <1>4, <2>1 DEF Selecting, TypeOK, inVars
<1> QED  BY <1>8, <1>11, <1>12 DEF TypeInv

\* A read event is put at the front of the list, or taken out of it.
LEMMA ReadListTypes ==
  ASSUME readList \in Seq(InPort), NEW i \in InPort
  PROVE  WithRead(i) \in Seq(InPort) /\ WithoutRead(i) \in Seq(InPort)
<1>1. <<i>> \o readList \in Seq(InPort)
  BY ListWith
<1>2. Those(readList, InPort \ {i}) \in Seq(InPort)
  BY ThoseAre
<1> QED  BY <1>1, <1>2 DEF WithRead, WithoutRead

\* A thread calls for input.
LEMMA ReadMoreTypes ==
  ASSUME TypeInv, NEW t \in Thread, NEW i \in InPort, ReadMore(t, i)
  PROVE  TypeInv'
<1> DEFINE x == [at |-> "reading", from |-> i]
<1>1. /\ task[t].at # "flushing" /\ task[t].at # "selecting" /\ x \in Task
      /\ task' = [task EXCEPT ![t] = x] /\ readList' = WithRead(i)
      /\ UNCHANGED <<outVars, selectList, inHasFd, inOpen, mbox, arrived, ended, taken, got>>
  BY TasksMade DEF ReadMore, Idle, refresh_read_event
<1> HIDE DEF x
<1>2. Waiting' /\ Selecting' /\ task' \in [Thread -> Task]
  BY <1>1, TaskChanges DEF outVars
<1>3. readList' \in Seq(InPort)
  BY <1>1, ReadListTypes DEF TypeInv, TypeOK
<1> QED  BY <1>1, <1>2, <1>3 DEF TypeInv, TypeOK, outVars

\* An input port is closed ...
LEMMA CloseInputTypes ==
  ASSUME TypeInv, NEW t \in Thread, NEW i \in InPort, CloseInput(t, i)
  PROVE  TypeInv'
<1> DEFINE x == [at |-> "closing input", from |-> i]
<1>1. /\ task[t].at # "flushing" /\ task[t].at # "selecting" /\ x \in Task
      /\ task' = [task EXCEPT ![t] = x] /\ inOpen' \subseteq inOpen
      /\ UNCHANGED <<outVars, readList, selectList, inHasFd, mbox, arrived, ended, taken, got>>
  BY TasksMade DEF CloseInput, Idle
<1> HIDE DEF x
<1>2. Waiting' /\ Selecting' /\ task' \in [Thread -> Task]
  BY <1>1, TaskChanges DEF outVars
<1> QED  BY <1>1, <1>2 DEF TypeInv, TypeOK, outVars

\* A thread gets its input.
LEMMA ReceiveTypes ==
  ASSUME TypeInv, NEW t \in Thread, Receive(t)
  PROVE  TypeInv'
<1>1. /\ task[t].at # "flushing" /\ task[t].at # "selecting" /\ Idle \in Task
      /\ task' = [task EXCEPT ![t] = Idle]
      /\ UNCHANGED <<outVars, readList, selectList, inHasFd, inOpen, arrived, ended, taken>>
  BY TasksMade DEF Receive
<1>2. Waiting' /\ Selecting' /\ task' \in [Thread -> Task]
  BY <1>1, TaskChanges DEF outVars
<1> QED  BY <1>1, <1>2 DEF TypeInv, TypeOK, outVars

\* ... and its descriptor with it.
LEMMA CloseInputDoneTypes ==
  ASSUME TypeInv, NEW t \in Thread, CloseInputDone(t)
  PROVE  TypeInv'
<1>1. /\ task[t].at = "closing input" /\ Idle \in Task
      /\ task' = [task EXCEPT ![t] = Idle]
      /\ readList' = WithoutRead(task[t].from) /\ inHasFd' \subseteq inHasFd
      /\ UNCHANGED <<outVars, selectList, inOpen, mbox, arrived, ended, taken, got>>
  BY TasksMade DEF CloseInputDone
<1>2. Waiting' /\ Selecting' /\ task' \in [Thread -> Task]
  BY <1>1, TaskChanges DEF outVars
<1>3. task[t].from \in InPort
  BY <1>1, TaskFacts DEF TypeInv, TypeOK
<1>4. readList' \in Seq(InPort)
  BY <1>1, <1>3, ReadListTypes DEF TypeInv, TypeOK
<1> QED  BY <1>1, <1>2, <1>4 DEF TypeInv, TypeOK, outVars

\* A thread selects.
LEMMA SelectTypes ==
  ASSUME TypeInv, NEW t \in Thread, NEW s \in Selects, Select(t, s)
  PROVE  TypeInv'
<1>0. TypeOK /\ Waiting /\ Selecting
  BY DEF TypeInv
<1> DEFINE x == [at |-> "selecting", set |-> s]
<1>1. /\ task[t] = Idle /\ x \in Task /\ x.at = "selecting"
      /\ task' = [task EXCEPT ![t] = x] /\ selectList' = <<t>> \o selectList
      /\ UNCHANGED <<outVars, readList, inHasFd, inOpen, mbox, arrived, ended, taken, got>>
  BY TasksMade DEF Select
<1> HIDE DEF x
<1>2. task[t].at # "flushing"
  BY <1>1 DEF Idle
<1>3. selectList' \in Seq(Thread) /\ ToSet(selectList') = ToSet(selectList) \cup {t}
  BY <1>0, <1>1, ListWith DEF TypeOK
<1>4. TypeOK'
  BY <1>0, <1>1, <1>3 DEF TypeOK, outVars
<1>5. Waiting'
  <2>1. \A o \in Port : \A u \in Threads(pending[o]) : u \in Thread /\ u # t
    BY <1>2, NotQueued, ThreadsAre
  <2>2. \A o \in Port : \A u \in Threads(pending[o]) : task'[u] = task[u]
    BY <1>0, <1>1, <2>1 DEF TypeOK
  <2> QED  BY <1>0, <1>1, <2>2 DEF Waiting, outVars, Threads
<1>6. Selecting'
  BY <1>0, <1>1, <1>3, MembersOf DEF Selecting, TypeOK
<1> QED  BY <1>4, <1>5, <1>6 DEF TypeInv

\* The other ends of the descriptors leave the queues alone.
LEMMA OtherEndTypes ==
  ASSUME TypeInv, OtherEnd
  PROVE  TypeInv'
<1>0. TypeOK /\ Waiting /\ Selecting
  BY DEF TypeInv
<1>1. UNCHANGED <<pending, task, accepted, selectList>>
  BY DEF OtherEnd, MakeRoom, Break, Arrive, End, outVars, inVars
<1>2. Waiting' /\ Selecting'
  BY <1>0, <1>1 DEF Waiting, Selecting, Threads
<1>3. CASE \E p \in Port : MakeRoom(p) /\ UNCHANGED inVars
  <2>1. PICK p \in Port : MakeRoom(p) /\ UNCHANGED inVars
    BY <1>3
  <2>2. PICK n \in (room[p] + 1) .. Room : room' = [room EXCEPT ![p] = n]
    BY <2>1 DEF MakeRoom
  <2>3. n \in 0 .. Room
    BY <1>0, PortTypes, OutputAssumption
  <2>4. room' \in [Port -> 0 .. Room]
    BY <1>0, <2>2, <2>3 DEF TypeOK
  <2>5. TypeOK'
    BY <1>0, <2>1, <2>4 DEF TypeOK, MakeRoom, inVars
  <2> QED  BY <1>2, <2>5 DEF TypeInv
<1>4. CASE \E p \in Port : Break(p) /\ UNCHANGED inVars
  <2>1. PICK p \in Port : Break(p) /\ UNCHANGED inVars
    BY <1>4
  <2>2. room' \in [Port -> 0 .. Room] /\ broken' \in [Port -> BOOLEAN]
    BY <1>0, <2>1, OutputAssumption DEF TypeOK, Break
  <2>3. TypeOK'
    BY <1>0, <2>1, <2>2 DEF TypeOK, Break, inVars
  <2> QED  BY <1>2, <2>3 DEF TypeInv
<1>5. CASE \E i \in InPort : Arrive(i)
  <2>1. PICK i \in InPort : Arrive(i)
    BY <1>5
  <2>2. /\ arrived' = [arrived EXCEPT ![i] = @ + 1] /\ arrived[i] < MaxChunks
        /\ arrived[i] \in 0 .. MaxChunks /\ taken[i] \in Nat /\ taken[i] <= arrived[i]
    BY <1>0, <2>1 DEF Arrive, TypeOK
  <2>3. /\ arrived' \in [InPort -> 0 .. MaxChunks]
        /\ \A o \in InPort : taken[o] <= arrived'[o]
    BY <1>0, <2>2, PollAssumption DEF TypeOK
  <2>4. TypeOK'
    BY <1>0, <2>1, <2>3 DEF TypeOK, Arrive, outVars
  <2> QED  BY <1>2, <2>4 DEF TypeInv
<1>6. CASE \E i \in InPort : End(i)
  BY <1>0, <1>2, <1>6 DEF TypeInv, TypeOK, End, outVars
<1> QED  BY <1>3, <1>4, <1>5, <1>6 DEF OtherEnd

\* The cursor of a port after a poll, and the threads it has woken.
After(p, ports) == IF p \in ports THEN handle_std_write_event(p, Cursor(p)) ELSE Cursor(p)
Woken(ports) == UNION {After(p, ports).woken : p \in Port}
Failed(ports) == UNION {After(p, ports).failed : p \in Port}
WokenTask(t, k) ==
  [at |-> "woken", port |-> task[t].port, closing |-> task[t].closing, ok |-> k]
Flushes(p, ports) == {flushed[p]} \cup {task[t].upto : t \in After(p, ports).woken}

\* What the write events of a poll do, in these terms.
LEMMA WritesHandledAre ==
  ASSUME NEW ports, NEW over, WritesHandled(ports, over)
  PROVE  /\ pending' = [p \in Port |-> After(p, ports).queue]
         /\ writeList' = Those(writeList, {p \in Port : After(p, ports).event})
         /\ room' = [p \in Port |-> After(p, ports).room]
         /\ sent' = [p \in Port |-> After(p, ports).sent]
         /\ discarded' = [p \in Port |-> After(p, ports).discarded]
         /\ flushed' = [p \in Port |-> Max(Flushes(p, ports))]
         /\ task' = [t \in Thread |->
              IF t \in Woken(ports) \cup Failed(ports) THEN WokenTask(t, t \in Woken(ports))
              ELSE IF t \in over THEN Idle ELSE task[t]]
         /\ UNCHANGED <<buffer, hasFd, owner, openFd, broken, accepted>>
<1> DEFINE after == [p \in Port |-> IF p \in ports THEN handle_std_write_event(p, Cursor(p))
                                    ELSE Cursor(p)]
           woken == UNION {after[p].woken : p \in Port}
           failed == UNION {after[p].failed : p \in Port}
<1>1. /\ pending' = [p \in Port |-> after[p].queue]
      /\ writeList' = Those(writeList, {p \in Port : after[p].event})
      /\ room' = [p \in Port |-> after[p].room]
      /\ sent' = [p \in Port |-> after[p].sent]
      /\ discarded' = [p \in Port |-> after[p].discarded]
      /\ flushed' = [p \in Port |->
           Max({flushed[p]} \cup {task[t].upto : t \in after[p].woken})]
      /\ task' = [t \in Thread |->
           IF t \in woken \cup failed
           THEN [at |-> "woken", port |-> task[t].port, closing |-> task[t].closing,
                 ok |-> t \in woken]
           ELSE IF t \in over THEN Idle ELSE task[t]]
      /\ UNCHANGED <<buffer, hasFd, owner, openFd, broken, accepted>>
  BY Zenon DEF WritesHandled
<1>2. \A p \in Port : after[p] = After(p, ports)
  BY DEF After
<1> HIDE DEF after
<1>3. woken = Woken(ports) /\ failed = Failed(ports)
  BY <1>2 DEF Woken, Failed
<1> HIDE DEF woken, failed
<1>4. \A p \in Port : Flushes(p, ports) = {flushed[p]} \cup {task[t].upto : t \in after[p].woken}
  BY <1>2 DEF Flushes
<1>5. pending' = [p \in Port |-> After(p, ports).queue]
  BY <1>1, <1>2
<1>6. {p \in Port : after[p].event} = {p \in Port : After(p, ports).event}
  BY <1>2
<1>7. room' = [p \in Port |-> After(p, ports).room]
  BY <1>1, <1>2
<1>8. sent' = [p \in Port |-> After(p, ports).sent]
  BY <1>1, <1>2
<1>9. discarded' = [p \in Port |-> After(p, ports).discarded]
  BY <1>1, <1>2
<1>10. flushed' = [p \in Port |-> Max(Flushes(p, ports))]
  BY <1>1, <1>4
<1>11. task' = [t \in Thread |->
              IF t \in Woken(ports) \cup Failed(ports) THEN WokenTask(t, t \in Woken(ports))
              ELSE IF t \in over THEN Idle ELSE task[t]]
  BY <1>1, <1>3, Zenon DEF WokenTask
<1> QED  BY <1>1, <1>5, <1>6, <1>7, <1>8, <1>9, <1>10, <1>11

\* The types after a poll, port by port: who is woken has left the queue.
LEMMA AfterIs ==
  ASSUME TypeInv, NEW p \in Port, NEW ports, NEW e, e = After(p, ports)
  PROVE  /\ e \in Cursors(MaxBytes) /\ Once(e.queue)
         /\ Threads(e.queue) \subseteq Threads(pending[p])
         /\ e.woken \cup e.failed \subseteq Threads(pending[p])
         /\ Threads(e.queue) \cap (e.woken \cup e.failed) = {}
<1> DEFINE c == Cursor(p)
<1>1. /\ c \in Cursors(MaxBytes) /\ c.failed = {} /\ c.woken = {} /\ c.queue = pending[p]
      /\ Once(c.queue) /\ MaxBytes \in Nat /\ c.queue \in Seq(ItemOf(Bytes(MaxBytes)))
  <2>1. TypeOK /\ Waiting
    BY DEF TypeInv
  <2>2. Once(pending[p]) /\ pending[p] \in Seq(ItemOf(Bytes(MaxBytes)))
    BY <2>1, PortTypes DEF Waiting
  <2> QED  BY <2>1, <2>2, CursorTyped, CursorIs, ByteSeqs
<1> HIDE DEF c
<1>2. CASE p \notin ports
  BY <1>1, <1>2 DEF After, c
<1>3. CASE p \in ports
  <2> DEFINE k == Done(p, c)
  <2>1. e = handle_std_write_event(p, c)
    BY <1>3 DEF After, c
  <2>2. /\ e \in Cursors(MaxBytes) /\ e.woken = Threads(First(c.queue, k))
        /\ \/ e.queue = <<>> /\ e.failed \subseteq Threads(Rest(c.queue, k))
           \/ Remains(c.queue, e.queue, k) /\ e.failed = {}
    BY <1>1, <2>1, QueueHandled
  <2>3. k \in 0 .. Len(c.queue)
    BY <1>1, WriteBounds
  <2>4. e.queue \in Seq(ItemOf(Bytes(MaxBytes)))
    BY <2>2 DEF Cursors
  <2> HIDE DEF k
  <2>5. /\ Threads(First(c.queue, k)) \subseteq Threads(c.queue)
        /\ Threads(Rest(c.queue, k)) \subseteq Threads(c.queue)
    BY <1>1, <2>3, ThreadsSplit
  <2>6. CASE e.queue = <<>> /\ e.failed \subseteq Threads(Rest(c.queue, k))
    <3>1. Threads(e.queue) = {} /\ Once(e.queue)
      BY <2>6, NoBytes DEF Threads, Once
    <3> QED  BY <1>1, <2>2, <2>5, <2>6, <3>1
  <2>7. CASE Remains(c.queue, e.queue, k) /\ e.failed = {}
    <3>1. /\ Threads(e.queue) \subseteq Threads(c.queue) /\ Once(e.queue)
          /\ Threads(e.queue) \cap Threads(First(c.queue, k)) = {}
      BY <1>1, <2>3, <2>4, <2>7, ThreadsRemain
    <3> QED  BY <1>1, <2>2, <2>5, <2>7, <3>1
  <2> QED  BY <2>2, <2>6, <2>7
<1> QED  BY <1>2, <1>3

\* The greatest of finitely many numbers is one of them.
LEMMA Greatest ==
  ASSUME NEW n \in Nat, NEW T, T \subseteq 0 .. n, T # {}
  PROVE  Max(T) \in T
<1>1. \E m \in T : \A k \in T : k <= m
  BY GreatestMember
<1>2. \E m \in T : \A k \in T : m >= k
  BY <1>1
<1> QED  BY <1>2 DEF Max

\* Who is woken by a poll, or told of an error, waited in a queue of the port, and is
\* in none afterwards.
LEMMA WokenAre ==
  ASSUME TypeInv, NEW ports, NEW t \in Woken(ports) \cup Failed(ports)
  PROVE  /\ t \in Thread /\ task[t].at = "flushing"
         /\ \A p \in Port : t \notin Threads(After(p, ports).queue)
         /\ \A p \in Port : t \in After(p, ports).woken => task[t].port = p
<1>1. \A p \in Port : /\ Threads(After(p, ports).queue) \subseteq Threads(pending[p])
                      /\ After(p, ports).woken \cup After(p, ports).failed \subseteq Threads(pending[p])
                      /\ Threads(After(p, ports).queue)
                           \cap (After(p, ports).woken \cup After(p, ports).failed) = {}
  BY AfterIs
<1>2. PICK p \in Port : t \in After(p, ports).woken \cup After(p, ports).failed
  BY DEF Woken, Failed
<1>3. \A o \in Port : t \in Threads(pending[o]) =>
        t \in Thread /\ task[t].at = "flushing" /\ task[t].port = o
  BY ThreadsAre DEF TypeInv, Waiting
<1> QED  BY <1>1, <1>2, <1>3

\* What is known as flushed was written before.
LEMMA FlushesAre ==
  ASSUME TypeInv, NEW p \in Port, NEW ports
  PROVE  Max(Flushes(p, ports)) \in Flushes(p, ports) /\ Flushes(p, ports) \subseteq 0 .. accepted[p]
<1>1. /\ flushed[p] \in Nat /\ accepted[p] \in Nat /\ flushed[p] <= accepted[p]
  BY PortTypes DEF TypeInv
<1>2. \A t \in After(p, ports).woken : task[t].upto \in 0 .. accepted[p]
  <2>1. SUFFICES ASSUME NEW t \in After(p, ports).woken  PROVE task[t].upto \in 0 .. accepted[p]
    OBVIOUS
  <2>2. t \in Threads(pending[p])
    BY AfterIs
  <2>3. task[t].at = "flushing" /\ task[t].upto <= accepted[p] /\ t \in Thread
    BY <2>2, ThreadsAre DEF TypeInv, Waiting
  <2>4. task[t].upto \in 0 .. MaxBytes
    BY <2>3, TaskFacts DEF TypeInv, TypeOK
  <2> QED  BY <1>1, <2>3, <2>4
<1>3. Flushes(p, ports) \subseteq 0 .. accepted[p] /\ Flushes(p, ports) # {}
  BY <1>1, <1>2 DEF Flushes
<1> QED  BY <1>1, <1>3, Greatest

\* The types of the output ports alone.
OutTypes ==
  /\ buffer \in [Port -> {Closed} \cup ByteSeq]
  /\ pending \in [Port -> Seq(Item)]
  /\ writeList \in Seq(Port)
  /\ hasFd \subseteq Port /\ owner \subseteq Owner /\ openFd \subseteq Port
  /\ room \in [Port -> 0 .. Room] /\ broken \in [Port -> BOOLEAN]
  /\ task \in [Thread -> Task]
  /\ accepted \in [Port -> 0 .. MaxBytes] /\ sent \in [Port -> ByteSeq]
  /\ discarded \in [Port -> SUBSET (1 .. MaxBytes)] /\ flushed \in [Port -> Nat]
  /\ \A p \in Port : Len(buffer[p]) <= BlockSize /\ flushed[p] <= accepted[p]

\* The write events of a poll.
LEMMA WritesTypes ==
  ASSUME TypeInv, NEW ports, NEW over, over \subseteq ToSet(selectList), WritesHandled(ports, over)
  PROVE  /\ OutTypes' /\ Waiting'
         /\ \A t \in ToSet(selectList) : t \notin over => task'[t] = task[t]
<1>0. TypeOK /\ Waiting /\ Selecting /\ ToSet(selectList) \subseteq Thread
  BY MembersOf DEF TypeInv, TypeOK
<1> DEFINE gone == Woken(ports) \cup Failed(ports)
<1>1. /\ pending' = [p \in Port |-> After(p, ports).queue]
      /\ writeList' = Those(writeList, {p \in Port : After(p, ports).event})
      /\ room' = [p \in Port |-> After(p, ports).room]
      /\ sent' = [p \in Port |-> After(p, ports).sent]
      /\ discarded' = [p \in Port |-> After(p, ports).discarded]
      /\ flushed' = [p \in Port |-> Max(Flushes(p, ports))]
      /\ task' = [t \in Thread |->
           IF t \in gone THEN WokenTask(t, t \in Woken(ports))
           ELSE IF t \in over THEN Idle ELSE task[t]]
      /\ UNCHANGED <<buffer, hasFd, owner, openFd, broken, accepted>>
  BY WritesHandledAre
<1>2. \A t \in gone : /\ t \in Thread /\ task[t].at = "flushing"
                      /\ \A p \in Port : t \notin Threads(After(p, ports).queue)
  BY WokenAre
<1> HIDE DEF gone
<1>3. \A p \in Port : /\ After(p, ports) \in Cursors(MaxBytes) /\ Once(After(p, ports).queue)
                      /\ Threads(After(p, ports).queue) \subseteq Threads(pending[p])
  BY AfterIs
<1>4. \A p \in Port : /\ After(p, ports).queue \in Seq(Item) /\ After(p, ports).room \in 0 .. Room
                      /\ After(p, ports).sent \in ByteSeq
                      /\ After(p, ports).discarded \in SUBSET (1 .. MaxBytes)
  BY <1>3, ByteSeqs DEF Cursors, Bytes
<1>5. \A t \in Thread : t \in gone => WokenTask(t, t \in Woken(ports)) \in Task
  <2>1. SUFFICES ASSUME NEW t \in Thread, t \in gone
                 PROVE  WokenTask(t, t \in Woken(ports)) \in Task
    OBVIOUS
  <2>2. task[t].port \in Port /\ task[t].closing \in BOOLEAN
    BY <1>0, <1>2, <2>1, TaskFacts DEF TypeOK
  <2> DEFINE k == t \in Woken(ports)
  <2>3. k \in BOOLEAN
    OBVIOUS
  <2> HIDE DEF k
  <2>4. WokenTask(t, k) \in Task
    BY <2>2, <2>3, TasksMade DEF WokenTask
  <2> QED  BY <2>4 DEF k
<1>6. task' \in [Thread -> Task]
  BY <1>0, <1>1, <1>5, TasksMade DEF TypeOK
<1>7. \A p \in Port : Max(Flushes(p, ports)) \in Nat /\ Max(Flushes(p, ports)) <= accepted[p]
  <2>1. \A p \in Port : Max(Flushes(p, ports)) \in 0 .. accepted[p] /\ accepted[p] \in Nat
    BY <1>0, FlushesAre, PortTypes
  <2> QED  BY <2>1
<1>8. writeList' \in Seq(Port)
  BY <1>0, <1>1, ThoseAre DEF TypeOK
<1>9. OutTypes'
  BY <1>0, <1>1, <1>4, <1>6, <1>7, <1>8 DEF TypeOK, OutTypes
<1>10. \A t \in Thread : t \notin gone /\ t \notin over => task'[t] = task[t]
  BY <1>1
<1>11. \A t \in ToSet(selectList) : t \notin over => task'[t] = task[t]
  BY <1>0, <1>2, <1>10 DEF Selecting
<1>12. Waiting'
  <2> SUFFICES ASSUME NEW p \in Port
               PROVE  /\ Once(pending'[p])
                      /\ \A t \in Threads(pending'[p]) :
                           task'[t].at = "flushing" /\ task'[t].port = p
                             /\ task'[t].upto <= accepted'[p]
    BY DEF Waiting, Threads
  <2>1. pending'[p] = After(p, ports).queue
    BY <1>1
  <2>2. SUFFICES ASSUME NEW t \in Threads(After(p, ports).queue)
                 PROVE  task'[t].at = "flushing" /\ task'[t].port = p
                          /\ task'[t].upto <= accepted'[p]
    BY <1>3, <2>1
  <2>3. /\ t \in Threads(pending[p]) /\ t \in Thread /\ task[t].at = "flushing"
        /\ task[t].port = p /\ task[t].upto <= accepted[p]
    BY <1>0, <1>3, ThreadsAre DEF Waiting
  <2>4. t \notin gone /\ t \notin over
    BY <1>0, <1>2, <2>3 DEF Selecting
  <2> QED  BY <1>1, <1>10, <2>3, <2>4
<1> QED  BY <1>9, <1>11, <1>12

\* A finite set in some order is a list of its members.
LEMMA SetListed ==
  ASSUME NEW S, IsFiniteSet(S)
  PROVE  SetToSeq(S) \in Seq(S)
<1>1. Cardinality(S) \in Nat /\ ExistsBijection(1 .. Cardinality(S), S)
  BY FS_CardinalityType
<1>2. \E f \in [1 .. Cardinality(S) -> S] : IsInjective(f)
  BY <1>1 DEF ExistsBijection, Bijection, Injection
<1>3. SetToSeq(S) \in [1 .. Cardinality(S) -> S]
  BY <1>2 DEF SetToSeq
<1> QED  BY <1>1, <1>3

\* The initial state.
LEMMA InitTypes == Init => TypeInv
<1> SUFFICES ASSUME Init  PROVE TypeInv
  OBVIOUS
<1>1. InitOutput /\ readList = SetToSeq(InPort) /\ selectList = <<>>
      /\ inHasFd = InPort /\ inOpen = InPort
      /\ arrived = [i \in InPort |-> 0] /\ taken = arrived
  BY DEF Init
<1>2. readList \in Seq(InPort)
  BY <1>1, SetListed, PollAssumption
<1>3. \A p \in Port : buffer[p] = <<>> /\ pending[p] = <<>> /\ flushed[p] = 0 /\ accepted[p] = 0
  BY <1>1 DEF InitOutput
<1>4. OutTypes
  <2>1. <<>> \in ByteSeq /\ <<>> \in Seq(Item) /\ Idle \in Task /\ Len(<<>>) = 0 /\ 0 <= BlockSize
    <3>1. Idle \in Task
      BY TasksMade
    <3>2. 0 <= BlockSize
      BY OutputAssumption
    <3> QED  BY <3>1, <3>2 DEF ByteSeq
  <2>2. \A p \in Port : Len(buffer[p]) <= BlockSize /\ flushed[p] <= accepted[p]
    BY <1>3, <2>1
  <2>3. /\ buffer \in [Port -> {Closed} \cup ByteSeq] /\ pending \in [Port -> Seq(Item)]
        /\ sent \in [Port -> ByteSeq] /\ task \in [Thread -> Task] /\ writeList \in Seq(Port)
    BY <1>1, <2>1 DEF InitOutput
  <2>4. /\ hasFd \subseteq Port /\ owner \subseteq Owner /\ openFd \subseteq Port
        /\ room \in [Port -> 0 .. Room] /\ broken \in [Port -> BOOLEAN]
    BY <1>1, OutputAssumption DEF InitOutput
  <2>5. /\ accepted \in [Port -> 0 .. MaxBytes] /\ flushed \in [Port -> Nat]
        /\ discarded \in [Port -> SUBSET (1 .. MaxBytes)]
    BY <1>1, OutputAssumption DEF InitOutput
  <2> QED  BY <2>2, <2>3, <2>4, <2>5 DEF OutTypes
<1>5. TypeOK
  <2>1. /\ selectList \in Seq(Thread) /\ inHasFd \subseteq InPort /\ inOpen \subseteq InPort
        /\ arrived \in [InPort -> 0 .. MaxChunks] /\ taken \in [InPort -> Nat]
        /\ \A i \in InPort : taken[i] <= arrived[i]
    BY <1>1, PollAssumption
  <2> QED  BY <1>2, <1>4, <2>1 DEF TypeOK, OutTypes
<1>6. Waiting
  <2>1. Once(<<>>) /\ Threads(<<>>) = {}
    BY NoBytes DEF Once, Threads
  <2> QED  BY <1>3, <2>1 DEF Waiting
<1>7. Selecting
  BY <1>1, NoBytes DEF Selecting
<1> QED  BY <1>5, <1>6, <1>7 DEF TypeInv

\* The read events of a poll.
LEMMA ReadsTypes ==
  ASSUME TypeOK, NEW ports, ReadsHandled(ports)
  PROVE  /\ readList' \in Seq(InPort) /\ arrived' = arrived /\ taken' \in [InPort -> Nat]
         /\ \A i \in InPort : taken'[i] <= arrived[i]
<1>1. /\ readList \in Seq(InPort) /\ \A i \in InPort : arrived[i] \in Nat /\ taken[i] \in Nat
      /\ \A i \in InPort : taken[i] <= arrived[i]
  BY PollAssumption DEF TypeOK
<1> DEFINE chunk == {i \in ports : taken[i] < arrived[i]}
<1>2. /\ taken' = [i \in InPort |-> IF i \in chunk THEN taken[i] + 1 ELSE taken[i]]
      /\ readList' = Those(readList, InPort \ (ports \ chunk)) /\ arrived' = arrived
  BY DEF ReadsHandled
<1>3. readList' \in Seq(InPort)
  BY <1>1, <1>2, ThoseAre
<1>4. \A i \in chunk : taken[i] < arrived[i]
  OBVIOUS
<1> HIDE DEF chunk
<1>5. taken' \in [InPort -> Nat] /\ \A i \in InPort : taken'[i] <= arrived[i]
  BY <1>1, <1>2, <1>4
<1> QED  BY <1>2, <1>3, <1>5

\* check_for_events, with its read, write and select events.
LEMMA PollTypes ==
  ASSUME TypeInv, Poll
  PROVE  TypeInv'
<1>0. TypeOK /\ Waiting /\ Selecting
  BY DEF TypeInv
<1>1. PICK late \in SUBSET Timed :
        (BadFds # {} /\ HandleBadFd(late)) \/ (BadFds = {} /\ HandleEvents(late))
  BY DEF Poll
<1>2. late \subseteq ToSet(selectList) /\ inHasFd' = inHasFd /\ inOpen' = inOpen
  BY DEF Timed, Poll
<1>3. Answered \subseteq ToSet(selectList)
  <2>1. selectList # <<>> => selectList[1] \in ToSet(selectList)
    BY <1>0 DEF TypeOK, ToSet
  <2> QED  BY <2>1 DEF Answered
<1>4. ASSUME NEW ports, NEW over, over \subseteq ToSet(selectList), WritesHandled(ports, over),
             selectList' = Those(selectList, Thread \ over)
      PROVE  OutTypes' /\ Waiting' /\ Selecting' /\ selectList' \in Seq(Thread)
  <2>1. /\ OutTypes' /\ Waiting'
        /\ \A t \in ToSet(selectList) : t \notin over => task'[t] = task[t]
    BY <1>4, WritesTypes
  <2>2. selectList' \in Seq(Thread) /\ ToSet(selectList') = ToSet(selectList) \cap (Thread \ over)
    BY <1>0, <1>4, ThoseAre DEF TypeOK
  <2>3. Selecting'
    BY <1>0, <2>1, <2>2 DEF Selecting
  <2> QED  BY <2>1, <2>2, <2>3
<1>5. CASE BadFds # {} /\ HandleBadFd(late)
  <2>1. OutTypes' /\ Waiting' /\ Selecting' /\ selectList' \in Seq(Thread)
    BY <1>2, <1>4, <1>5 DEF HandleBadFd
  <2>2. find_and_notify_bad_fd
    BY <1>5 DEF HandleBadFd
  <2> DEFINE bad == Those(readList, InPort \ inOpen)
  <2>3. bad \in Seq(InPort) /\ readList \in Seq(InPort)
    BY <1>0, ThoseAre DEF TypeOK
  <2>4. /\ readList' = IF bad = <<>> THEN readList ELSE WithoutRead(bad[1])
        /\ arrived' = arrived /\ taken' = taken
    BY <2>2 DEF find_and_notify_bad_fd
  <2> HIDE DEF bad
  <2>5. bad # <<>> => bad[1] \in InPort
    BY <2>3
  <2>6. readList' \in Seq(InPort)
    BY <2>3, <2>4, <2>5, ReadListTypes
  <2>7. TypeOK'
    BY <1>0, <1>2, <2>1, <2>4, <2>6 DEF TypeOK, OutTypes
  <2> QED  BY <2>1, <2>7 DEF TypeInv
<1>6. CASE BadFds = {} /\ HandleEvents(late)
  <2>1. OutTypes' /\ Waiting' /\ Selecting' /\ selectList' \in Seq(Thread)
    BY <1>2, <1>3, <1>4, <1>6 DEF HandleEvents
  <2>2. /\ readList' \in Seq(InPort) /\ arrived' = arrived /\ taken' \in [InPort -> Nat]
        /\ \A i \in InPort : taken'[i] <= arrived[i]
    BY <1>0, <1>6, ReadsTypes DEF HandleEvents
  <2>3. TypeOK'
    BY <1>0, <1>2, <2>1, <2>2 DEF TypeOK, OutTypes
  <2> QED  BY <2>1, <2>3 DEF TypeInv
<1> QED  BY <1>1, <1>5, <1>6

\* No step leaves the types.
LEMMA NextTypes == TypeInv /\ [Next]_vars => TypeInv'
<1> SUFFICES ASSUME TypeInv, [Next]_vars  PROVE TypeInv'
  OBVIOUS
<1>1. CASE UNCHANGED vars
  BY <1>1 DEF TypeInv, TypeOK, Waiting, Selecting, Threads, vars, outVars, inVars
<1>2. CASE OutputStep /\ UNCHANGED inVars
  <2>1. ASSUME NEW t \in Thread, NEW p \in Port,
               \/ \E lens \in Vectors, nl \in BOOLEAN : Write(t, p, lens, nl)
               \/ \E lens \in Vectors : WriteLineFails(t, p, lens)
               \/ \E closing \in BOOLEAN : Flush(t, p, closing)
        PROVE  TypeInv'
    <3>1. PICK c : \E flush \in BOOLEAN, closing \in BOOLEAN : Finishes(t, p, c, flush, closing)
      BY <1>2, <2>1, WriteStep
    <3>2. PICK flush \in BOOLEAN, closing \in BOOLEAN : Finishes(t, p, c, flush, closing)
      BY <3>1
    <3>3. /\ task[t] = Idle /\ IsOpen(p) /\ WritesTo(MaxBytes, Cursor(p), c)
          /\ Finish(t, p, c, flush, closing)
      BY <3>2 DEF Finishes
    <3> QED  BY <1>2, <3>3, FinishTypes
  <2> QED
    BY <1>2, <2>1, CloseAnywayTypes, ResumeTypes, CloseFdTypes, CloseDoneTypes, HaltTypes
    DEF OutputStep
<1>3. CASE InputStep
  BY <1>3, ReadMoreTypes, CloseInputTypes, ReceiveTypes, CloseInputDoneTypes, SelectTypes
  DEF InputStep
<1>4. CASE Poll
  BY <1>4, PollTypes
<1>5. CASE OtherEnd
  BY <1>5, OtherEndTypes
<1> QED  BY <1>1, <1>2, <1>3, <1>4, <1>5 DEF Next

\* Types, and that who waits for a flush or selects is in the right queue, for the
\* primitives of ports, check_for_events and its handlers, whatever the clients do.
THEOREM EventTypesInvariant == Spec => []TypeInv
<1> QED  BY InitTypes, NextTypes, PTL DEF Spec

\* TypeOK: the variables keep their types, the buffer of a port is never overrun, no
\* more is flushed than was accepted, and no more is read than has arrived.
THEOREM EventTypes == Spec => []TypeOK
<1>1. TypeInv => TypeOK
  BY DEF TypeInv
<1> QED  BY <1>1, EventTypesInvariant, PTL

-----------------------------------------------------------------------------
(* The bytes of every port are in order and on their way.                  *)

\* Nobody has an error-proc, and clients leave a port alone while it is being closed.
Disciplined == HasErrorProc = {} /\ "write while closing" \notin Risks

\* The bytes in the buffer of a port, and how much each waiting thread waits for.
Buf(p) == IF IsOpen(p) THEN buffer[p] ELSE <<>>
Uptos == [t \in Thread |-> task[t].upto]

\* A port with the event w, the queue q, the bytes s that were sent, the bytes b in the
\* buffer, n bytes in all, the bytes g that were given up, and f bytes known as flushed.
SoundAs(w, q, s, b, n, g, u, f) ==
  /\ (w <=> q # <<>>) /\ Begins(q)
  /\ Ordered(Cat(s, Cat(AllBytes(q), b)), n, g)
  /\ Covered(u, q, s, g)
  /\ 1 .. f \subseteq ToSet(s) \cup g

\* This holds of each port.
PortSound(p) ==
  SoundAs(p \in ToSet(writeList), pending[p], sent[p], Buf(p), accepted[p], discarded[p],
          Uptos, flushed[p])
PortsSound == \A p \in Port : PortSound(p)

\* Who closes a port has emptied its buffer, unless the flush has failed.
Closers ==
  \A t \in Thread : "closing" \in DOMAIN task[t] /\ task[t].closing =>
    \/ buffer[task[t].port] \in {<<>>, Closed}
    \/ task[t].at \in {"closing", "closed"} /\ broken[task[t].port]

\* The inductive invariant.
EventInv == TypeInv /\ PortsSound /\ Closers

\* Only the threads in the queue count.
LEMMA CoveredSame ==
  ASSUME NEW S, NEW q \in Seq(ItemOf(S)), NEW u, NEW v, NEW s, NEW g, Covered(u, q, s, g),
         \A t \in Threads(q) : v[t] = u[t]
  PROVE  Covered(v, q, s, g)
<1> SUFFICES ASSUME NEW k \in 1 .. Len(q), q[k].kind = "thread"
             PROVE  1 .. v[q[k].thread] \subseteq ToSet(s) \cup g \cup ToSet(BytesUpTo(q)[k])
  BY DEF Covered
<1>1. q[k] \in ItemOf(S)
  BY ElementOfSeq
<1>2. q[k].thread \in Thread /\ q[k] = ThreadItem(q[k].thread)
  BY <1>1, ItemFacts
<1>3. q[k].thread \in Threads(q)
  BY <1>2, ThreadsIn
<1> QED  BY <1>3 DEF Covered

\* Giving bytes up uncovers nobody.
LEMMA CoveredMore ==
  ASSUME NEW S, NEW q \in Seq(ItemOf(S)), NEW u, NEW s, NEW g, NEW h, g \subseteq h,
         Covered(u, q, s, g)
  PROVE  Covered(u, q, s, h)
<1>1. Longer(q, q)
  BY LongerSame
<1> QED  BY <1>1, CoveredLonger

\* Behind an empty buffer, all that was written was sent, given up or is pending.
LEMMA AllThere ==
  ASSUME NEW S, NEW s \in Seq(S), NEW m \in Seq(S), NEW b \in Seq(S), NEW n, NEW g,
         Ordered(Cat(s, Cat(m, b)), n, g), b = <<>>
  PROVE  1 .. n \subseteq ToSet(s) \cup g \cup ToSet(m)
<1>1. Cat(m, b) = m
  BY CatNone
<1>2. ToSet(Cat(s, m)) = ToSet(s) \cup ToSet(m)
  BY CatIs
<1> QED  BY <1>1, <1>2 DEF Ordered

\* A buffer that is dropped after an error gives its bytes up.
LEMMA BufferDropped ==
  ASSUME NEW s \in Seq(Nat), NEW m \in Seq(Nat), NEW b \in Seq(Nat), NEW n \in Nat, NEW g,
         Ordered(Cat(s, Cat(m, b)), n, g)
  PROVE  Ordered(Cat(s, Cat(m, <<>>)), n, g \cup ToSet(b))
<1> DEFINE a == Cat(s, m)
           z == <<>>
<1>1. a \in Seq(Nat) /\ z \in Seq(Nat)
  BY CatIs
<1>2. Cat(s, Cat(m, b)) = Cat(a, b)
  BY CatThree
<1>3. Cat(b, z) = b /\ Cat(a, z) = a /\ Cat(m, z) = m
  BY <1>1, CatNone
<1> HIDE DEF a, z
<1>4. Ordered(Cat(a, Cat(b, z)), n, g)
  BY <1>2, <1>3
<1>5. Ordered(Cat(a, z), n, g \cup ToSet(b))
  BY <1>1, <1>4, OrderedWithout DEF Cat
<1>6. Ordered(a, n, g \cup ToSet(b))
  BY <1>3, <1>5
<1>7. a = Cat(s, Cat(m, z))
  BY <1>3 DEF a
<1> QED  BY <1>6, <1>7 DEF z

\* Bytes are numbers.
LEMMA Naturals == \A s \in Seq(Bytes(MaxBytes)) : s \in Seq(Nat)
<1>1. Bytes(MaxBytes) \subseteq Nat
  BY ByteSeqs, BytesMore
<1>2. SUFFICES ASSUME NEW s \in Seq(Bytes(MaxBytes))  PROVE s \in Seq(Nat)
  OBVIOUS
<1>3. Len(s) \in Nat /\ DOMAIN s = 1 .. Len(s) /\ \A i \in 1 .. Len(s) : s[i] \in Nat
  BY <1>1, LenProperties, ElementOfSeq
<1> QED  BY <1>1, <1>3

\* What a thread does to the others' ports, and to its own when it only goes on.
LEMMA PortSame ==
  ASSUME TypeInv, NEW t \in Thread, task[t].at # "flushing", NEW p \in Port, PortSound(p),
         \A u \in Thread : u # t => task'[u] = task[u],
         pending'[p] = pending[p], sent'[p] = sent[p], accepted'[p] = accepted[p],
         discarded'[p] = discarded[p], flushed'[p] = flushed[p], Buf(p)' = Buf(p),
         (p \in ToSet(writeList)') <=> p \in ToSet(writeList)
  PROVE  PortSound(p)'
<1>1. t \notin Threads(pending[p])
  BY NotQueued
<1>2. pending[p] \in Seq(ItemOf(Bytes(MaxBytes)))
  BY PortTypes DEF TypeInv
<1>3. \A u \in Threads(pending[p]) : Uptos'[u] = Uptos[u]
  BY <1>1, ThreadsAre DEF Uptos
<1>4. Covered(Uptos, pending[p], sent[p], discarded[p])
  BY DEF PortSound, SoundAs
<1>5. Covered(Uptos', pending[p], sent[p], discarded[p])
  BY <1>2, <1>3, <1>4, CoveredSame
<1> QED  BY <1>5 DEF PortSound, SoundAs

\* A write or a flush keeps the bytes of its port in order, and covers the thread that
\* waits.
LEMMA FinishPort ==
  ASSUME TypeInv, PortsSound, NEW t \in Thread, NEW p \in Port, NEW c,
         NEW flush \in BOOLEAN, NEW closing \in BOOLEAN, Finishes(t, p, c, flush, closing),
         UNCHANGED inVars
  PROVE  PortSound(p)'
<1>0. MaxBytes \in Nat /\ TypeOK /\ Waiting /\ Selecting /\ (closing => flush)
      /\ task[t] = Idle /\ IsOpen(p) /\ WritesTo(MaxBytes, Cursor(p), c)
      /\ Finish(t, p, c, flush, closing)
  BY ByteSeqs DEF TypeInv, Finishes
<1>1. /\ c \in OpenCursors(MaxBytes) /\ Fits(c) /\ Longer(pending[p], c.queue)
      /\ accepted[p] <= c.count /\ ToSet(sent[p]) \subseteq ToSet(c.sent)
      /\ c.discarded = discarded[p] /\ (Sound(Cursor(p)) => Sound(c))
  BY <1>0, CursorIs DEF WritesTo, Kept
<1> DEFINE d == FlushedIf(c, flush)
           wait == Waits(c, flush)
           q == IF wait THEN Enter(d.queue, t) ELSE d.queue
           b == IF closing /\ ~wait THEN Closed ELSE d.buf
           f == IF flush /\ ~wait THEN d.count ELSE flushed[p]
           g == discarded[p]
           u == Uptos'
<1>2. /\ FinishedAs(t, p, c, d, wait, flush, closing)
      /\ Passes(MaxBytes, c, d) /\ wait \in BOOLEAN /\ (flush => d.buf = <<>>)
      /\ (wait <=> flush /\ d.event) /\ d.count = c.count
  BY <1>0, <1>1, FinishIs
<1> HIDE DEF d, wait
<1>3. /\ d \in OpenCursors(MaxBytes) /\ Longer(c.queue, d.queue) /\ d.discarded = c.discarded
      /\ ToSet(c.sent) \subseteq ToSet(d.sent) /\ (Tidy(c) => Tidy(d) /\ Line(d) = Line(c))
  BY <1>2 DEF Passes, Kept
<1>4. /\ d.buf \in Seq(Bytes(MaxBytes)) /\ d.queue \in Seq(ItemOf(Bytes(MaxBytes)))
      /\ d.event \in BOOLEAN /\ d.sent \in Seq(Bytes(MaxBytes)) /\ d.count \in Nat
      /\ c.queue \in Seq(ItemOf(Bytes(MaxBytes))) /\ AllBytes(d.queue) \in Seq(Bytes(MaxBytes))
  BY <1>0, <1>1, <1>3, CursorTypes
<1>5. pending[p] \in Seq(ItemOf(Bytes(MaxBytes)))
  BY <1>0, PortTypes
<1>6. Longer(pending[p], d.queue)
  BY <1>1, <1>3, <1>4, <1>5, LongerMore
<1>7. t \notin Threads(d.queue) /\ Threads(d.queue) = Threads(pending[p])
  <2>1. t \notin Threads(pending[p])
    BY <1>0, NotQueued DEF Idle
  <2> QED  BY <1>4, <1>5, <1>6, <2>1, ThreadsLonger
<1>8. PortSound(p)
  BY DEF PortsSound
<1>9. Sound(Cursor(p))
  <2>1. Buf(p) = buffer[p]
    BY <1>0 DEF Buf
  <2>2. Ordered(Line(Cursor(p)), accepted[p], discarded[p])
    BY <1>8, <2>1, CursorIs DEF PortSound, SoundAs, Line
  <2> QED  BY <1>8, <2>2, CursorIs DEF PortSound, SoundAs, Sound, Tidy
<1>10. /\ Tidy(d) /\ Ordered(Cat(d.sent, Cat(AllBytes(d.queue), d.buf)), d.count, g)
  BY <1>1, <1>2, <1>3, <1>9 DEF Sound, Line
<1>11. d.buf = <<>> => 1 .. d.count \subseteq ToSet(d.sent) \cup g \cup ToSet(AllBytes(d.queue))
  BY <1>4, <1>10, AllThere
<1>12. Covered(u, d.queue, d.sent, g)
  <2>1. Covered(Uptos, pending[p], sent[p], g)
    BY <1>8 DEF PortSound, SoundAs
  <2>2. Covered(Uptos, d.queue, d.sent, g)
    <3>1. ToSet(sent[p]) \subseteq ToSet(d.sent) /\ g \subseteq g
      BY <1>1, <1>3
    <3> HIDE DEF g
    <3> QED  BY <1>4, <1>5, <1>6, <2>1, <3>1, CoveredLonger
  <2>3. \A o \in Thread : o # t => task'[o] = task[o]
    BY <1>0, <1>2 DEF FinishedAs, TypeOK
  <2>4. \A o \in Threads(d.queue) : u[o] = Uptos[o]
    BY <1>7, <2>3, ThreadsAre DEF Uptos
  <2> HIDE DEF u, g
  <2> QED  BY <1>4, <2>2, <2>4, CoveredSame
<1>13. wait => u[t] = d.count
  <2>1. wait => task'[t].upto = d.count
    BY <1>0, <1>2 DEF FinishedAs, TypeOK
  <2> QED  BY <2>1 DEF Uptos
<1> DEFINE m == <<>>
           z == IF closing /\ ~wait THEN m ELSE d.buf
<1>14. z = d.buf
  BY <1>0, <1>2
<1>15. SoundAs(d.event, q, d.sent, d.buf, d.count, g, u, f)
  <2>1. 1 .. f \subseteq ToSet(d.sent) \cup g
    <3>1. CASE flush /\ ~wait
      <4>1. d.queue = <<>> /\ d.buf = <<>>
        BY <1>2, <1>4, <1>10, <3>1 DEF Tidy
      <4>2. AllBytes(d.queue) = <<>>
        BY <1>4, <4>1, AllBytesIs
      <4> QED  BY <1>11, <3>1, <4>1, <4>2, NoBytes
    <3>2. CASE ~(flush /\ ~wait)
      BY <1>1, <1>3, <1>8, <3>2 DEF PortSound, SoundAs
    <3> QED  BY <3>1, <3>2
  <2> HIDE DEF f, g, u
  <2>2. CASE ~wait
    BY <1>10, <1>12, <2>1, <2>2 DEF SoundAs, Tidy
  <2>3. CASE wait
    <3> DEFINE r == Enter(d.queue, t)
    <3>1. /\ r # <<>> /\ Len(r) = Len(d.queue) + 1 /\ \A k \in 1 .. Len(d.queue) : r[k] = d.queue[k]
          /\ AllBytes(r) = AllBytes(d.queue)
      BY <1>4, <1>7, ThreadEnters
    <3>2. 1 .. u[t] \subseteq ToSet(d.sent) \cup g \cup ToSet(AllBytes(d.queue))
      BY <1>2, <1>11, <1>13, <2>3
    <3>3. Covered(u, r, d.sent, g)
      BY <1>4, <1>7, <1>12, <3>2, CoveredEnter
    <3> HIDE DEF r
    <3>4. d.event /\ d.queue # <<>> /\ d.queue[1].kind = "data"
      BY <1>2, <1>10, <2>3 DEF Tidy, Begins
    <3>5. Begins(r)
      <4>1. 1 \in 1 .. Len(d.queue)
        BY <1>4, <3>4
      <4> QED  BY <3>1, <3>4, <4>1 DEF Begins
    <3>6. q = r
      BY <2>3 DEF r
    <3> HIDE DEF q
    <3> QED  BY <1>10, <2>1, <3>1, <3>3, <3>4, <3>5, <3>6 DEF SoundAs
  <2> QED  BY <2>2, <2>3
<1>16. /\ pending'[p] = q /\ sent'[p] = d.sent /\ accepted'[p] = d.count /\ flushed'[p] = f
       /\ discarded'[p] = g /\ buffer'[p] = b /\ writeList' = Registered(p, d)
  BY <1>0, <1>2 DEF FinishedAs, TypeOK
<1>17. (p \in ToSet(writeList')) <=> d.event
  <2>1. writeList \in Seq(Port)
    BY <1>0 DEF TypeOK
  <2> QED  BY <1>4, <1>16, <2>1, RegisteredIs
<1>18. Buf(p)' = z
  <2>1. d.buf # Closed
    BY <1>0, <1>4, NeverClosed
  <2> QED  BY <1>16, <2>1 DEF Buf, IsOpen
<1> HIDE DEF q, b, f, g, u, z
<1>19. PortSound(p)' = SoundAs(p \in ToSet(writeList'), q, d.sent, d.buf, d.count, g, u, f)
  BY <1>14, <1>16, <1>18 DEF PortSound, u
<1> QED  BY <1>15, <1>17, <1>19 DEF SoundAs

-----------------------------------------------------------------------------
(* What a step of a thread does to the ports, to its own and to others.    *)

\* A thread that closes a port, and what it has seen to.
IsCloser(t) == "closing" \in DOMAIN task[t] /\ task[t].closing
Closer(t) ==
  \/ buffer[task[t].port] \in {<<>>, Closed}
  \/ task[t].at \in {"closing", "closed"} /\ broken[task[t].port]

\* Closers in these terms.
LEMMA ClosersAre == Closers <=> \A t \in Thread : IsCloser(t) => Closer(t)
  BY DEF Closers, IsCloser, Closer

\* A port that is being closed is left alone.
LEMMA NobodyCloses ==
  ASSUME Disciplined, NEW p \in Port, Undisturbed(p)
  PROVE  \A t \in Thread : ~(IsCloser(t) /\ task[t].port = p)
  BY DEF Disciplined, Undisturbed, IsCloser

\* An idle thread closes nothing.
LEMMA NotClosing == ASSUME NEW t, task[t] = Idle  PROVE ~IsCloser(t)
  BY DEF IsCloser, Idle

\* A write or a flush.
LEMMA FinishSound ==
  ASSUME Disciplined, EventInv, NEW t \in Thread, NEW p \in Port, NEW c,
         NEW flush \in BOOLEAN, NEW closing \in BOOLEAN, Finishes(t, p, c, flush, closing),
         UNCHANGED inVars
  PROVE  PortsSound' /\ Closers'
<1>0. MaxBytes \in Nat /\ TypeInv /\ TypeOK /\ PortsSound /\ Closers /\ (closing => flush)
      /\ task[t] = Idle /\ IsOpen(p) /\ Undisturbed(p) /\ WritesTo(MaxBytes, Cursor(p), c)
      /\ Finish(t, p, c, flush, closing)
  BY ByteSeqs DEF TypeInv, Finishes, EventInv
<1> DEFINE d == FlushedIf(c, flush)
           wait == Waits(c, flush)
<1>1. /\ FinishedAs(t, p, c, d, wait, flush, closing) /\ d \in OpenCursors(MaxBytes)
      /\ wait \in BOOLEAN /\ (flush => d.buf = <<>>)
  BY <1>0, FinishIs DEF WritesTo, Passes
<1> HIDE DEF d, wait
<1>2. d.event \in BOOLEAN
  BY <1>0, <1>1, CursorTypes
<1>3. \A u \in Thread : u # t => task'[u] = task[u]
  BY <1>0, <1>1 DEF FinishedAs, TypeOK
<1>4. PortsSound'
  <2> SUFFICES ASSUME NEW o \in Port  PROVE PortSound(o)'
    BY DEF PortsSound
  <2>1. CASE o = p
    BY <1>0, <2>1, FinishPort
  <2>2. CASE o # p
    <3>1. /\ pending'[o] = pending[o] /\ sent'[o] = sent[o] /\ accepted'[o] = accepted[o]
          /\ discarded'[o] = discarded[o] /\ flushed'[o] = flushed[o] /\ buffer'[o] = buffer[o]
      BY <1>0, <1>1, <2>2 DEF FinishedAs, TypeOK
    <3>2. writeList' = Registered(p, d) /\ writeList \in Seq(Port)
      BY <1>0, <1>1 DEF FinishedAs, TypeOK
    <3>3. (o \in ToSet(writeList)') <=> o \in ToSet(writeList)
      BY <1>2, <2>2, <3>2, RegisteredIs
    <3>4. Buf(o)' = Buf(o)
      BY <3>1 DEF Buf, IsOpen
    <3>5. task[t].at # "flushing" /\ PortSound(o)
      BY <1>0 DEF Idle, PortsSound
    <3> QED  BY <1>0, <1>3, <3>1, <3>3, <3>4, <3>5, PortSame
  <2> QED  BY <2>1, <2>2
<1>5. Closers'
  <2>1. SUFFICES ASSUME NEW u \in Thread, IsCloser(u)'  PROVE Closer(u)'
    BY DEF Closers, IsCloser, Closer
  <2>2. CASE u # t
    <3>1. task'[u] = task[u]
      BY <1>3, <2>2
    <3>2. IsCloser(u) /\ task[u].port # p
      BY <1>0, <2>1, <3>1, NobodyCloses DEF IsCloser
    <3>3. task[u].port \in Port
      BY <1>0, <3>2, TaskFacts DEF IsCloser, TypeOK
    <3>4. buffer'[task[u].port] = buffer[task[u].port] /\ broken' = broken
      BY <1>0, <1>1, <3>2, <3>3 DEF FinishedAs, TypeOK
    <3>5. Closer(u)
      BY <1>0, <3>2, ClosersAre
    <3> QED  BY <3>1, <3>4, <3>5 DEF Closer
  <2>3. CASE u = t
    <3>1. task'[t] = IF wait THEN [at |-> "flushing", port |-> p, upto |-> d.count, closing |-> closing]
                     ELSE IF closing THEN [at |-> "closing", port |-> p, closing |-> TRUE]
                     ELSE Idle
      BY <1>0, <1>1 DEF FinishedAs, TypeOK
    <3>2. buffer'[p] = IF closing /\ ~wait THEN Closed ELSE d.buf
      BY <1>0, <1>1 DEF FinishedAs, TypeOK
    <3>3. closing
      BY <2>1, <2>3, <3>1 DEF IsCloser, Idle
    <3>4. task'[t].port = p
      BY <3>1, <3>3
    <3>5. buffer'[p] \in {<<>>, Closed}
      BY <1>0, <1>1, <3>2, <3>3
    <3> QED  BY <2>3, <3>4, <3>5 DEF Closer
  <2> QED  BY <2>2, <2>3
<1> QED  BY <1>4, <1>5

\* A thread that does not wait goes on, and leaves the queues alone.
LEMMA OthersSound ==
  ASSUME EventInv, NEW t \in Thread, task[t].at # "flushing",
         \A u \in Thread : u # t => task'[u] = task[u],
         UNCHANGED <<pending, writeList, accepted, sent, discarded, flushed>>,
         \A p \in Port : Buf(p)' = Buf(p)
  PROVE  PortsSound'
<1> SUFFICES ASSUME NEW p \in Port  PROVE PortSound(p)'
  BY DEF PortsSound
<1>1. TypeInv /\ PortSound(p)
  BY DEF EventInv, PortsSound
<1> QED  BY <1>1, PortSame

\* Who closes goes on closing when nothing happens to his port.
LEMMA ClosersSame ==
  ASSUME EventInv, \A p \in Port : buffer'[p] \in {buffer[p], Closed},
         \A p \in Port : broken[p] => broken'[p],
         \A t \in Thread : IsCloser(t)' => (task'[t] = task[t]) \/ Closer(t)'
  PROVE  Closers'
<1> SUFFICES ASSUME NEW t \in Thread, IsCloser(t)'  PROVE Closer(t)'
  BY DEF Closers, IsCloser, Closer
<1>1. CASE task'[t] = task[t]
  <2>1. IsCloser(t)
    BY <1>1 DEF IsCloser
  <2>2. Closer(t) /\ task[t].port \in Port
    BY <2>1, ClosersAre, TaskFacts DEF IsCloser, EventInv, TypeInv, TypeOK
  <2> QED  BY <1>1, <2>2 DEF Closer
<1> QED  BY <1>1

\* A client closes a port whose flush has failed.
LEMMA CloseAnywaySound ==
  ASSUME EventInv, NEW t \in Thread, NEW p \in Port, CloseAnyway(t, p)
  PROVE  PortsSound' /\ Closers'
<1>0. TypeOK
  BY DEF EventInv, TypeInv
<1>1. /\ task[t].at # "flushing" /\ broken[p] /\ UNCHANGED outVars
      /\ task' = [task EXCEPT ![t] = [at |-> "closing", port |-> p, closing |-> TRUE]]
  BY DEF CloseAnyway, Idle
<1>2. (\A u \in Thread : u # t => task'[u] = task[u])
      /\ task'[t] = [at |-> "closing", port |-> p, closing |-> TRUE]
  BY <1>0, <1>1 DEF TypeOK
<1>3. \A o \in Port : Buf(o)' = Buf(o)
  BY <1>1 DEF Buf, IsOpen, outVars
<1>4. PortsSound'
  BY <1>1, <1>2, <1>3, OthersSound DEF outVars
<1>5. Closer(t)'
  BY <1>1, <1>2 DEF Closer, outVars
<1>6. Closers'
  BY <1>1, <1>2, <1>5, ClosersSame DEF outVars
<1> QED  BY <1>4, <1>6

\* A thread goes on after its flush.
LEMMA ResumeSound ==
  ASSUME EventInv, NEW t \in Thread, Resume(t)
  PROVE  PortsSound' /\ Closers'
<1> DEFINE p == task[t].port
<1>0. TypeOK
  BY DEF EventInv, TypeInv
<1>1. /\ task[t].at = "woken" /\ task[t] \in Task
      /\ UNCHANGED <<pending, writeList, hasFd, owner, openFd, room, broken, accepted, sent,
                     discarded, flushed>>
  BY <1>0 DEF Resume, TypeOK
<1>2. p \in Port /\ task[t].closing \in BOOLEAN /\ "closing" \in DOMAIN task[t]
  BY <1>1, TaskFacts
<1>3. task[t].closing => buffer[p] \in {<<>>, Closed}
  BY <1>1, <1>2, ClosersAre DEF IsCloser, Closer, EventInv
<1>4. \/ buffer' = buffer
      \/ task[t].closing /\ buffer' = [buffer EXCEPT ![p] = Closed]
  BY DEF Resume
<1>5. /\ \A u \in Thread : u # t => task'[u] = task[u]
      /\ task'[t] = IF task[t].closing THEN [at |-> "closing", port |-> p, closing |-> TRUE]
                    ELSE Idle
  BY <1>0 DEF Resume, TypeOK
<1> HIDE DEF p
<1>6. \A o \in Port : /\ buffer'[o] \in {buffer[o], Closed}
                      /\ buffer'[o] # buffer[o] => buffer[o] = <<>> /\ buffer'[o] = Closed
  BY <1>0, <1>2, <1>3, <1>4 DEF TypeOK
<1>7. \A o \in Port : Buf(o)' = Buf(o)
  BY <1>6 DEF Buf, IsOpen
<1>8. PortsSound'
  BY <1>1, <1>5, <1>7, OthersSound
<1>9. IsCloser(t)' => Closer(t)'
  <2>1. SUFFICES ASSUME IsCloser(t)'  PROVE Closer(t)'
    OBVIOUS
  <2>2. task[t].closing
    BY <1>2, <1>5, <2>1 DEF IsCloser, Idle
  <2>3. task'[t].port = p
    BY <1>5, <2>2
  <2>4. buffer'[p] \in {<<>>, Closed}
    BY <1>2, <1>3, <1>6, <2>2
  <2> QED  BY <2>3, <2>4 DEF Closer
<1>10. Closers'
  BY <1>1, <1>5, <1>6, <1>9, ClosersSame
<1> QED  BY <1>8, <1>10

\* The descriptor of a port is closed.
LEMMA CloseFdSound ==
  ASSUME EventInv, NEW t \in Thread, CloseFd(t)
  PROVE  PortsSound' /\ Closers'
<1>0. TypeOK
  BY DEF EventInv, TypeInv
<1>1. /\ task[t].at = "closing" /\ task[t] \in Task
      /\ UNCHANGED <<buffer, pending, writeList, hasFd, room, broken, accepted, sent,
                     discarded, flushed>>
  BY <1>0 DEF CloseFd, TypeOK
<1>2. /\ task[t].port \in Port /\ task[t].closing = TRUE /\ "closing" \in DOMAIN task[t]
      /\ [task[t] EXCEPT !.at = "closed"] = [at |-> "closed", port |-> task[t].port, closing |-> TRUE]
  BY <1>1, TaskFacts
<1>3. /\ \A u \in Thread : u # t => task'[u] = task[u]
      /\ task'[t] = [at |-> "closed", port |-> task[t].port, closing |-> TRUE]
  <2>1. task' = [task EXCEPT ![t] = [task[t] EXCEPT !.at = "closed"]]
    BY DEF CloseFd
  <2>2. task' = [task EXCEPT ![t] = [at |-> "closed", port |-> task[t].port, closing |-> TRUE]]
    BY <1>2, <2>1
  <2> QED  BY <1>0, <2>2 DEF TypeOK
<1>4. \A o \in Port : Buf(o)' = Buf(o)
  BY <1>1 DEF Buf, IsOpen
<1>5. PortsSound'
  BY <1>1, <1>3, <1>4, OthersSound
<1>6. Closer(t)'
  <2>1. Closer(t)
    BY <1>2, ClosersAre DEF IsCloser, EventInv
  <2> QED  BY <1>1, <1>3, <2>1 DEF Closer
<1>7. Closers'
  BY <1>1, <1>3, <1>6, ClosersSame
<1> QED  BY <1>5, <1>7

\* A port is closed, and what its buffer still holds is given up.
LEMMA CloseDoneSound ==
  ASSUME EventInv, NEW t \in Thread, CloseDone(t), NEW p, p = task[t].port
  PROVE  PortsSound' /\ Closers'
<1> DEFINE g == IF broken[p] /\ IsOpen(p) THEN discarded[p] \cup ToSet(buffer[p])
                ELSE discarded[p]
<1>0. TypeOK /\ TypeInv /\ PortsSound
  BY DEF EventInv, TypeInv
<1>1. /\ task[t].at = "closed" /\ task[t] \in Task /\ task' = [task EXCEPT ![t] = Idle]
      /\ buffer' = [buffer EXCEPT ![p] = Closed] /\ discarded' = [discarded EXCEPT ![p] = g]
      /\ UNCHANGED <<pending, writeList, owner, openFd, room, broken, accepted, sent,
                     flushed>>
  BY <1>0 DEF CloseDone, TypeOK
<1>2. p \in Port /\ task[t].closing = TRUE /\ "closing" \in DOMAIN task[t]
  BY <1>1, TaskFacts
<1>3. buffer[p] \in {<<>>, Closed} \/ broken[p]
  <2>1. Closer(t)
    BY <1>2, ClosersAre DEF IsCloser, EventInv
  <2> QED  BY <2>1 DEF Closer
<1>4. /\ \A u \in Thread : u # t => task'[u] = task[u]
      /\ task'[t] = Idle
  BY <1>0, <1>1 DEF TypeOK
<1> HIDE DEF g
<1>5. ASSUME NEW o \in Port  PROVE PortSound(o)'
  <2>1. /\ pending'[o] = pending[o] /\ sent'[o] = sent[o] /\ accepted'[o] = accepted[o]
        /\ flushed'[o] = flushed[o] /\ (o \in ToSet(writeList)' <=> o \in ToSet(writeList))
    BY <1>1
  <2>2. task[t].at # "flushing" /\ PortSound(o)
    BY <1>0, <1>1 DEF PortsSound
  <2>3. CASE Buf(o)' = Buf(o) /\ discarded'[o] = discarded[o]
    BY <1>0, <1>4, <2>1, <2>2, <2>3, PortSame
  <2>4. CASE ~(Buf(o)' = Buf(o) /\ discarded'[o] = discarded[o])
    <3>1. o = p /\ IsOpen(p) /\ broken[p] /\ Buf(p)' = <<>>
          /\ discarded'[p] = discarded[p] \cup ToSet(buffer[p])
      <4>1. o # p => buffer'[o] = buffer[o] /\ discarded'[o] = discarded[o]
        BY <1>0, <1>1 DEF TypeOK
      <4>2. buffer'[p] = Closed /\ discarded'[p] = g
        BY <1>0, <1>1, <1>2 DEF TypeOK
      <4>3. Buf(p)' = <<>>
        BY <4>2 DEF Buf, IsOpen
      <4>4. o # p => Buf(o)' = Buf(o)
        BY <4>1 DEF Buf, IsOpen
      <4>5. buffer[p] = <<>> => Buf(p) = <<>> /\ ToSet(buffer[p]) = {}
        BY NoBytes DEF Buf, IsOpen, Closed
      <4>6. buffer[p] = Closed => Buf(p) = <<>> /\ ~IsOpen(p)
        BY DEF Buf, IsOpen
      <4>7. o = p
        BY <2>4, <4>1, <4>4
      <4>8. buffer[p] # Closed /\ buffer[p] # <<>>
        <5>1. (buffer[p] = Closed \/ buffer[p] = <<>>) => g = discarded[p]
          BY <4>5, <4>6 DEF g
        <5> QED  BY <2>4, <4>2, <4>3, <4>5, <4>6, <4>7, <5>1
      <4>9. IsOpen(p) /\ broken[p]
        BY <1>3, <4>8 DEF IsOpen
      <4> QED  BY <4>2, <4>3, <4>7, <4>9 DEF g
    <3> DEFINE h == discarded[p] \cup ToSet(buffer[p])
    <3>2. /\ buffer[p] \in Seq(Nat) /\ sent[p] \in Seq(Nat) /\ AllBytes(pending[p]) \in Seq(Nat)
          /\ accepted[p] \in Nat /\ pending[p] \in Seq(ItemOf(Bytes(MaxBytes)))
      <4>1. /\ buffer[p] \in Seq(Bytes(MaxBytes)) /\ sent[p] \in Seq(Bytes(MaxBytes))
            /\ pending[p] \in Seq(ItemOf(Bytes(MaxBytes))) /\ accepted[p] \in Nat
        BY <1>0, <1>2, <3>1, PortTypes
      <4>2. AllBytes(pending[p]) \in Seq(Bytes(MaxBytes))
        BY <4>1, AllBytesIs
      <4> QED  BY <4>1, <4>2, Naturals
    <3>3. Buf(p) = buffer[p]
      BY <3>1 DEF Buf
    <3>4. Ordered(Cat(sent[p], Cat(AllBytes(pending[p]), buffer[p])), accepted[p], discarded[p])
      BY <2>2, <3>1, <3>3 DEF PortSound, SoundAs
    <3>5. Ordered(Cat(sent[p], Cat(AllBytes(pending[p]), <<>>)), accepted[p], h)
      BY <3>2, <3>4, BufferDropped
    <3>6. \A u \in Threads(pending[p]) : Uptos'[u] = Uptos[u]
      <4>1. t \notin Threads(pending[p])
        BY <1>0, <1>2, <2>2, NotQueued
      <4> QED  BY <1>4, <4>1, ThreadsAre DEF Uptos
    <3>7. Covered(Uptos', pending[p], sent[p], h)
      <4>1. Covered(Uptos, pending[p], sent[p], discarded[p])
        BY <2>2, <3>1 DEF PortSound, SoundAs
      <4>2. Covered(Uptos, pending[p], sent[p], h)
        <5>1. discarded[p] \subseteq h
          OBVIOUS
        <5> HIDE DEF h
        <5> QED  BY <3>2, <4>1, <5>1, CoveredMore
      <4> HIDE DEF h
      <4> QED  BY <3>2, <3>6, <4>2, CoveredSame
    <3>8. 1 .. flushed[p] \subseteq ToSet(sent[p]) \cup h
      BY <2>2, <3>1 DEF PortSound, SoundAs
    <3>9. discarded'[p] = h
      BY <3>1
    <3> HIDE DEF h
    <3>10. PortSound(p)
      BY <2>2, <3>1
    <3> QED  BY <2>1, <3>1, <3>5, <3>7, <3>8, <3>9, <3>10 DEF PortSound, SoundAs
  <2> QED  BY <2>3, <2>4
<1>6. \A o \in Port : buffer'[o] \in {buffer[o], Closed}
  BY <1>0, <1>1, <1>2 DEF TypeOK
<1>7. ~IsCloser(t)'
  BY <1>4 DEF IsCloser, Idle
<1>8. Closers'
  BY <1>1, <1>4, <1>6, <1>7, ClosersSame
<1> QED  BY <1>5, <1>8 DEF PortsSound

\* A thread that waits for a flush is halted.
LEMMA HaltSound ==
  ASSUME EventInv, NEW t \in Thread, HaltFlusher(t), NEW p, p = task[t].port
  PROVE  PortsSound' /\ Closers'
<1>0. TypeOK /\ TypeInv /\ Waiting /\ PortsSound
  BY DEF EventInv, TypeInv
<1>1. task[t].at = "flushing" /\ task[t] \in Task
  BY <1>0 DEF HaltFlusher, TypeOK
<1>2. p \in Port
  BY <1>1, TaskFacts
<1>3. PICK k \in 1 .. Len(pending[p]) :
        pending[p][k] = ThreadItem(t) /\ pending' = [pending EXCEPT ![p] = Without(@, k)]
  BY DEF HaltFlusher, Without
<1>4. /\ task' = [task EXCEPT ![t] = [at |-> "halted"]]
      /\ UNCHANGED <<buffer, writeList, hasFd, owner, openFd, room, broken, accepted,
                     sent, discarded, flushed>>
  BY DEF HaltFlusher
<1>5. (\A u \in Thread : u # t => task'[u] = task[u]) /\ task'[t] = [at |-> "halted"]
  BY <1>0, <1>4 DEF TypeOK
<1>6. \A o \in Port : o # p => t \notin Threads(pending[o])
  BY <1>0 DEF Waiting
<1> DEFINE q == Without(pending[p], k)
           u == Uptos'
<1>7. pending[p] \in Seq(ItemOf(Bytes(MaxBytes))) /\ Once(pending[p])
  BY <1>0, <1>2, PortTypes DEF Waiting
<1>8. /\ q \in Seq(ItemOf(Bytes(MaxBytes))) /\ Threads(q) = Threads(pending[p]) \ {t}
      /\ AllBytes(q) = AllBytes(pending[p])
      /\ Begins(pending[p]) => Begins(q) /\ q # <<>>
  BY <1>2, <1>3, <1>7, ThreadLeaves
<1>9. \A s, g : Covered(Uptos, pending[p], s, g) => Covered(Uptos, q, s, g)
  BY <1>3, <1>7, CoveredLeaves
<1>10. pending'[p] = q /\ \A o \in Port : o # p => pending'[o] = pending[o]
  BY <1>0, <1>2, <1>3 DEF TypeOK
<1>11. pending[p] # <<>>
  BY <1>3, <1>7
<1> HIDE DEF q
<1>12. \A o \in Port : Buf(o)' = Buf(o)
  BY <1>4 DEF Buf, IsOpen
<1>13. ASSUME NEW o \in Port  PROVE PortSound(o)'
  <2>1. /\ sent'[o] = sent[o] /\ accepted'[o] = accepted[o] /\ discarded'[o] = discarded[o]
        /\ flushed'[o] = flushed[o] /\ Buf(o)' = Buf(o)
        /\ (o \in ToSet(writeList)' <=> o \in ToSet(writeList)) /\ PortSound(o)
    BY <1>0, <1>4, <1>12 DEF PortsSound
  <2>2. CASE o # p
    <3>1. pending[o] \in Seq(ItemOf(Bytes(MaxBytes))) /\ pending'[o] = pending[o]
      BY <1>0, <1>10, <2>2, PortTypes
    <3>2. \A v \in Threads(pending[o]) : u[v] = Uptos[v]
      BY <1>5, <1>6, <2>2, ThreadsAre DEF Uptos
    <3>3. Covered(Uptos, pending[o], sent[o], discarded[o])
      BY <2>1 DEF PortSound, SoundAs
    <3> HIDE DEF u
    <3>4. Covered(u, pending[o], sent[o], discarded[o])
      BY <3>1, <3>2, <3>3, CoveredSame
    <3> QED  BY <2>1, <3>1, <3>4 DEF PortSound, SoundAs, u
  <2>3. CASE o = p
    <3>1. Covered(Uptos, q, sent[p], discarded[p]) /\ Begins(pending[p])
          /\ (p \in ToSet(writeList) <=> pending[p] # <<>>)
      BY <1>9, <2>1, <2>3 DEF PortSound, SoundAs
    <3>2. \A v \in Threads(q) : u[v] = Uptos[v]
      BY <1>5, <1>8, ThreadsAre DEF Uptos
    <3> HIDE DEF u
    <3>3. Covered(u, q, sent[p], discarded[p])
      BY <1>8, <3>1, <3>2, CoveredSame
    <3>4. p \in ToSet(writeList)' <=> q # <<>>
      BY <1>8, <1>11, <2>1, <2>3, <3>1
    <3> QED  BY <1>8, <1>10, <2>1, <2>3, <3>1, <3>3, <3>4 DEF PortSound, SoundAs, u
  <2> QED  BY <2>2, <2>3
<1>14. ~IsCloser(t)'
  BY <1>5 DEF IsCloser
<1>15. Closers'
  BY <1>4, <1>5, <1>14, ClosersSame
<1> QED  BY <1>13, <1>15 DEF PortsSound

\* A thread that has to do with input ports only.
LEMMA InputSound ==
  ASSUME EventInv, NEW t \in Thread, task[t].at # "flushing", NEW x, "closing" \notin DOMAIN x,
         task' = [task EXCEPT ![t] = x], UNCHANGED outVars
  PROVE  PortsSound' /\ Closers'
<1>1. (\A u \in Thread : u # t => task'[u] = task[u]) /\ task'[t] = x
  BY DEF EventInv, TypeInv, TypeOK
<1>2. \A o \in Port : Buf(o)' = Buf(o)
  BY DEF Buf, IsOpen, outVars
<1>3. PortsSound'
  BY <1>1, <1>2, OthersSound DEF outVars
<1>4. ~IsCloser(t)'
  BY <1>1 DEF IsCloser
<1>5. Closers'
  BY <1>1, <1>4, ClosersSame DEF outVars
<1> QED  BY <1>3, <1>5

\* The steps of the input ports, and select.
LEMMA InputStepSound ==
  ASSUME EventInv, InputStep
  PROVE  PortsSound' /\ Closers'
<1>1. PICK t \in Thread :
        \/ \E i \in InPort : ReadMore(t, i) \/ CloseInput(t, i)
        \/ Receive(t) \/ CloseInputDone(t)
        \/ \E s \in Selects : Select(t, s)
  BY DEF InputStep
<1>2. \E x : /\ task[t].at # "flushing" /\ "closing" \notin DOMAIN x
             /\ task' = [task EXCEPT ![t] = x] /\ UNCHANGED outVars
  <2>1. ASSUME NEW i \in InPort, ReadMore(t, i)
        PROVE  \E x : /\ task[t].at # "flushing" /\ "closing" \notin DOMAIN x
                      /\ task' = [task EXCEPT ![t] = x] /\ UNCHANGED outVars
    <3> DEFINE x == [at |-> "reading", from |-> i]
    <3>1. "closing" \notin DOMAIN x
      <4>1. DOMAIN x = {"at", "from"}
        OBVIOUS
      <4> QED  BY <4>1
    <3>2. task[t].at # "flushing" /\ task' = [task EXCEPT ![t] = x] /\ UNCHANGED outVars
      <4>1. task[t].at # "flushing"
        <5>1. task[t] = Idle
          BY <2>1 DEF ReadMore
        <5> QED  BY <5>1 DEF Idle
      <4>2. task' = [task EXCEPT ![t] = x]
        BY <2>1 DEF ReadMore
      <4>3. UNCHANGED outVars
        BY <2>1 DEF ReadMore
      <4> QED  BY <4>1, <4>2, <4>3
    <3> HIDE DEF x
    <3> QED  BY <3>1, <3>2
  <2>2. ASSUME NEW i \in InPort, CloseInput(t, i)
        PROVE  \E x : /\ task[t].at # "flushing" /\ "closing" \notin DOMAIN x
                      /\ task' = [task EXCEPT ![t] = x] /\ UNCHANGED outVars
    <3> DEFINE x == [at |-> "closing input", from |-> i]
    <3>1. "closing" \notin DOMAIN x
      <4>1. DOMAIN x = {"at", "from"}
        OBVIOUS
      <4> QED  BY <4>1
    <3>2. task[t].at # "flushing" /\ task' = [task EXCEPT ![t] = x] /\ UNCHANGED outVars
      <4>1. task[t].at # "flushing"
        <5>1. task[t] = Idle
          BY <2>2 DEF CloseInput
        <5> QED  BY <5>1 DEF Idle
      <4>2. task' = [task EXCEPT ![t] = x]
        BY <2>2 DEF CloseInput
      <4>3. UNCHANGED outVars
        BY <2>2 DEF CloseInput
      <4> QED  BY <4>1, <4>2, <4>3
    <3> HIDE DEF x
    <3> QED  BY <3>1, <3>2
  <2>3. ASSUME Receive(t) \/ CloseInputDone(t)
        PROVE  \E x : /\ task[t].at # "flushing" /\ "closing" \notin DOMAIN x
                      /\ task' = [task EXCEPT ![t] = x] /\ UNCHANGED outVars
    <3>1. "closing" \notin DOMAIN Idle
      BY DEF Idle
    <3>2. task[t].at # "flushing" /\ task' = [task EXCEPT ![t] = Idle] /\ UNCHANGED outVars
      BY <2>3 DEF Receive, CloseInputDone
    <3> QED  BY <3>1, <3>2
  <2>4. ASSUME NEW s \in Selects, Select(t, s)
        PROVE  \E x : /\ task[t].at # "flushing" /\ "closing" \notin DOMAIN x
                      /\ task' = [task EXCEPT ![t] = x] /\ UNCHANGED outVars
    <3> DEFINE x == [at |-> "selecting", set |-> s]
    <3>1. "closing" \notin DOMAIN x
      <4>1. DOMAIN x = {"at", "set"}
        OBVIOUS
      <4> QED  BY <4>1
    <3>2. task[t].at # "flushing" /\ task' = [task EXCEPT ![t] = x] /\ UNCHANGED outVars
      <4>1. task[t].at # "flushing"
        <5>1. task[t] = Idle
          BY <2>4 DEF Select
        <5> QED  BY <5>1 DEF Idle
      <4>2. task' = [task EXCEPT ![t] = x]
        BY <2>4 DEF Select
      <4>3. UNCHANGED outVars
        BY <2>4 DEF Select
      <4> QED  BY <4>1, <4>2, <4>3
    <3> HIDE DEF x
    <3> QED  BY <3>1, <3>2
  <2> QED  BY <1>1, <2>1, <2>2, <2>3, <2>4
<1> QED  BY <1>2, InputSound

\* Nothing that concerns the bytes of a port has changed.
LEMMA NothingChanged ==
  ASSUME EventInv,
         UNCHANGED <<buffer, pending, writeList, task, accepted, sent, discarded, flushed>>,
         \A p \in Port : broken[p] => broken'[p]
  PROVE  PortsSound' /\ Closers'
<1>1. \A p \in Port : PortSound(p)' = PortSound(p)
  BY DEF PortSound, Buf, IsOpen, Uptos
<1>2. PortsSound'
  BY <1>1 DEF EventInv, PortsSound
<1>3. Closers'
  BY ClosersSame
<1> QED  BY <1>2, <1>3

\* The other ends of the descriptors.
LEMMA OtherEndSound ==
  ASSUME EventInv, OtherEnd
  PROVE  PortsSound' /\ Closers'
<1>1. UNCHANGED <<buffer, pending, writeList, task, accepted, sent, discarded, flushed>>
  BY DEF OtherEnd, MakeRoom, Break, Arrive, End, outVars
<1>2. \A p \in Port : broken[p] => broken'[p]
  BY DEF OtherEnd, MakeRoom, Break, Arrive, End, outVars, EventInv, TypeInv, TypeOK
<1> QED  BY <1>1, <1>2, NothingChanged

-----------------------------------------------------------------------------
(* What a poll does to the ports.                                          *)

\* A poll registers no write events.
LEMMA EventLess ==
  ASSUME NEW n \in Nat, NEW c \in Cursors(n), NEW p \in Port
  PROVE  handle_std_write_event(p, c).event => c.event
<1> DEFINE e == handle_std_write_event(p, c)
<1>1. AllWritten(p, c, e) \/ ErrorKept(p, c, e) \/ ErrorTold(p, c, e) \/ SomeLeft(p, c, e)
  BY EventHandled
<1> HIDE DEF e
<1>2. e.event = FALSE \/ e.event = c.event
  BY <1>1 DEF AllWritten, ErrorKept, ErrorTold, SomeLeft
<1>3. e.event => c.event
  BY <1>2
<1> QED  BY <1>3 DEF e

\* A port after a poll.
LEMMA AfterSound ==
  ASSUME EventInv, Disciplined, NEW p \in Port, NEW ports, NEW e, e = After(p, ports)
  PROVE  /\ e \in Cursors(MaxBytes) /\ Tidy(e) /\ InLine(e, Buf(p)) /\ e.count = accepted[p]
         /\ Covered(Uptos, e.queue, e.sent, e.discarded)
         /\ \A t \in e.woken : 1 .. Uptos[t] \subseteq ToSet(e.sent) \cup e.discarded
         /\ e.event \in BOOLEAN /\ (e.event => p \in ToSet(writeList))
         /\ ToSet(sent[p]) \subseteq ToSet(e.sent) /\ discarded[p] \subseteq e.discarded
<1> DEFINE c == Cursor(p)
<1>0. TypeInv /\ TypeOK /\ PortSound(p) /\ MaxBytes \in Nat
  BY ByteSeqs DEF EventInv, PortsSound, TypeInv
<1>1. /\ c \in Cursors(MaxBytes) /\ c.failed = {} /\ c.woken = {} /\ c.queue = pending[p]
      /\ c.sent = sent[p] /\ c.discarded = discarded[p] /\ c.count = accepted[p]
      /\ c.event = (p \in ToSet(writeList))
  BY <1>0, CursorTyped, CursorIs
<1>2. Tidy(c) /\ InLine(c, Buf(p)) /\ Covered(Uptos, c.queue, c.sent, c.discarded)
  <2> HIDE DEF c
  <2>1. /\ (p \in ToSet(writeList) <=> c.queue # <<>>) /\ Begins(c.queue)
    BY <1>0, <1>1 DEF PortSound, SoundAs
  <2>2. c.event <=> c.queue # <<>>
    BY <1>1, <2>1
  <2>3. Ordered(Cat(c.sent, Cat(AllBytes(c.queue), Buf(p))), c.count, c.discarded)
    BY <1>0, <1>1 DEF PortSound, SoundAs
  <2>4. Covered(Uptos, c.queue, c.sent, c.discarded)
    BY <1>0, <1>1 DEF PortSound, SoundAs
  <2> QED  BY <2>1, <2>2, <2>3, <2>4 DEF Tidy, InLine
<1>3. Buf(p) \in Seq(Bytes(MaxBytes))
  BY <1>0, PortTypes DEF Buf
<1> HIDE DEF c
<1>4. CASE p \notin ports
  <2>1. e = c
    BY <1>4 DEF After, c
  <2>2. e.event \in BOOLEAN
    BY <1>1, <2>1 DEF Cursors
  <2> QED  BY <1>1, <1>2, <2>1, <2>2
<1>5. CASE p \in ports
  <2>1. e = handle_std_write_event(p, c)
    BY <1>5 DEF After, c
  <2>2. HasErrorProc = {}
    BY DEF Disciplined
  <2>3. /\ Tidy(e)
        /\ \A b \in Seq(Bytes(MaxBytes)) : InLine(c, b) => InLine(e, b)
        /\ \A u : Covered(u, c.queue, c.sent, c.discarded) =>
             /\ Covered(u, e.queue, e.sent, e.discarded)
             /\ \A t \in e.woken : 1 .. u[t] \subseteq ToSet(e.sent) \cup e.discarded
    BY <1>0, <1>1, <1>2, <2>1, <2>2, PortHandled
  <2>4. /\ e \in Cursors(MaxBytes) /\ e.count = c.count /\ c.discarded \subseteq e.discarded
        /\ ToSet(c.sent) \subseteq ToSet(e.sent)
    BY <1>0, <1>1, <2>1, QueueHandled
  <2>5. e.event => c.event
    BY <1>0, <1>1, <2>1, EventLess
  <2>6. e.event \in BOOLEAN
    BY <2>4 DEF Cursors
  <2>7. e.event => p \in ToSet(writeList)
    BY <1>1, <2>5
  <2>8. /\ Covered(Uptos, e.queue, e.sent, e.discarded)
        /\ \A t \in e.woken : 1 .. Uptos[t] \subseteq ToSet(e.sent) \cup e.discarded
    BY <1>2, <2>3
  <2> QED  BY <1>1, <1>2, <1>3, <2>3, <2>4, <2>6, <2>7, <2>8
<1> QED  BY <1>4, <1>5

\* The write events of a poll.
LEMMA WritesSound ==
  ASSUME EventInv, Disciplined, NEW ports, NEW over, over \subseteq ToSet(selectList),
         WritesHandled(ports, over)
  PROVE  PortsSound' /\ Closers'
<1>0. TypeInv /\ TypeOK /\ Waiting /\ Selecting /\ ToSet(selectList) \subseteq Thread /\ PortsSound
  BY MembersOf DEF EventInv, TypeInv, TypeOK
<1> DEFINE gone == Woken(ports) \cup Failed(ports)
<1>1. /\ pending' = [p \in Port |-> After(p, ports).queue]
      /\ writeList' = Those(writeList, {p \in Port : After(p, ports).event})
      /\ room' = [p \in Port |-> After(p, ports).room]
      /\ sent' = [p \in Port |-> After(p, ports).sent]
      /\ discarded' = [p \in Port |-> After(p, ports).discarded]
      /\ flushed' = [p \in Port |-> Max(Flushes(p, ports))]
      /\ task' = [t \in Thread |->
           IF t \in gone THEN WokenTask(t, t \in Woken(ports))
           ELSE IF t \in over THEN Idle ELSE task[t]]
      /\ UNCHANGED <<buffer, hasFd, owner, openFd, broken, accepted>>
  BY WritesHandledAre
<1>2. \A t \in gone : /\ t \in Thread /\ task[t].at = "flushing"
                      /\ \A p \in Port : t \notin Threads(After(p, ports).queue)
  BY <1>0, WokenAre
<1> HIDE DEF gone
<1>3. ASSUME NEW p \in Port  PROVE PortSound(p)'
  <2> DEFINE e == After(p, ports)
             u == Uptos'
             w == p \in ToSet(writeList)'
             f == Max(Flushes(p, ports))
  <2>1. /\ e \in Cursors(MaxBytes) /\ Tidy(e) /\ InLine(e, Buf(p)) /\ e.count = accepted[p]
        /\ Covered(Uptos, e.queue, e.sent, e.discarded)
        /\ \A t \in e.woken : 1 .. Uptos[t] \subseteq ToSet(e.sent) \cup e.discarded
        /\ e.event \in BOOLEAN /\ (e.event => p \in ToSet(writeList))
        /\ ToSet(sent[p]) \subseteq ToSet(e.sent) /\ discarded[p] \subseteq e.discarded
    BY AfterSound
  <2>2. Threads(e.queue) \subseteq Threads(pending[p])
    BY <1>0, AfterIs
  <2>3. w <=> e.event
    <3>1. ToSet(writeList') = ToSet(writeList) \cap {o \in Port : After(o, ports).event}
      BY <1>0, <1>1, ThoseAre DEF TypeOK
    <3> QED  BY <2>1, <3>1
  <2>4. \A t \in Threads(e.queue) : u[t] = Uptos[t]
    <3>1. SUFFICES ASSUME NEW t \in Threads(e.queue)  PROVE u[t] = Uptos[t]
      OBVIOUS
    <3>2. t \in Threads(pending[p]) /\ t \in Thread /\ task[t].at = "flushing"
      BY <1>0, <2>2, ThreadsAre DEF Waiting
    <3>3. t \notin gone /\ t \notin over
      BY <1>0, <1>2, <3>2 DEF Selecting
    <3>4. task'[t] = task[t]
      BY <1>1, <3>2, <3>3
    <3> QED  BY <3>2, <3>4 DEF Uptos
  <2>5. 1 .. f \subseteq ToSet(e.sent) \cup e.discarded
    <3>1. f \in Flushes(p, ports)
      BY <1>0, FlushesAre
    <3>2. CASE f = flushed[p]
      <4>1. 1 .. flushed[p] \subseteq ToSet(sent[p]) \cup discarded[p]
        BY <1>0 DEF PortsSound, PortSound, SoundAs
      <4> HIDE DEF e, f
      <4> QED  BY <2>1, <3>2, <4>1
    <3>3. CASE \E t \in e.woken : f = task[t].upto
      <4>1. PICK t \in e.woken : f = task[t].upto
        BY <3>3
      <4>2. t \in Thread
        <5>1. e.woken \subseteq Threads(pending[p])
          BY <1>0, AfterIs
        <5> QED  BY <4>1, <5>1, ThreadsAre
      <4>3. Uptos[t] = f
        BY <4>1, <4>2 DEF Uptos
      <4> HIDE DEF e, f
      <4> QED  BY <2>1, <4>1, <4>3
    <3> QED  BY <3>1, <3>2, <3>3 DEF Flushes
  <2>6. /\ pending'[p] = e.queue /\ sent'[p] = e.sent /\ discarded'[p] = e.discarded
        /\ flushed'[p] = f /\ accepted'[p] = e.count
    BY <1>1, <2>1
  <2>7. Buf(p)' = Buf(p)
    BY <1>1 DEF Buf, IsOpen
  <2> HIDE DEF e, u, w, f
  <2>8. e.queue \in Seq(ItemOf(Bytes(MaxBytes)))
    BY <2>1 DEF Cursors
  <2>9. Covered(u, e.queue, e.sent, e.discarded)
    BY <2>1, <2>4, <2>8, CoveredSame
  <2>10. SoundAs(w, e.queue, e.sent, Buf(p), e.count, e.discarded, u, f)
    BY <2>1, <2>3, <2>5, <2>9 DEF SoundAs, Tidy, InLine
  <2>11. PortSound(p)' = SoundAs(w, e.queue, e.sent, Buf(p), e.count, e.discarded, u, f)
    BY <2>6, <2>7 DEF PortSound, u, w
  <2> QED  BY <2>10, <2>11
<1>4. ASSUME NEW t \in Thread, IsCloser(t)'  PROVE (task'[t] = task[t]) \/ Closer(t)'
  <2>1. CASE t \in gone
    <3>1. task'[t] = WokenTask(t, t \in Woken(ports))
      BY <1>1, <2>1
    <3>2. task'[t].port = task[t].port /\ task'[t].closing = task[t].closing
      BY <3>1 DEF WokenTask
    <3>3. task[t].at = "flushing" /\ "closing" \in DOMAIN task[t]
      BY <1>0, <1>2, <2>1, TaskFacts DEF TypeOK
    <3>4. IsCloser(t)
      BY <1>4, <3>2, <3>3 DEF IsCloser
    <3>5. Closer(t)
      BY <3>4, ClosersAre DEF EventInv
    <3> QED  BY <1>1, <3>2, <3>3, <3>5 DEF Closer
  <2>2. CASE t \notin gone /\ t \in over
    <3>1. task'[t] = Idle
      BY <1>1, <2>2
    <3> QED  BY <1>4, <3>1 DEF IsCloser, Idle
  <2>3. CASE t \notin gone /\ t \notin over
    BY <1>1, <2>3
  <2> QED  BY <2>1, <2>2, <2>3
<1>5. Closers'
  BY <1>1, <1>4, ClosersSame
<1> QED  BY <1>3, <1>5 DEF PortsSound

\* check_for_events
LEMMA PollSound ==
  ASSUME EventInv, Disciplined, Poll
  PROVE  PortsSound' /\ Closers'
<1>1. PICK late \in SUBSET Timed :
        (BadFds # {} /\ HandleBadFd(late)) \/ (BadFds = {} /\ HandleEvents(late))
  BY DEF Poll
<1>2. late \subseteq ToSet(selectList)
  BY DEF Timed
<1>3. Answered \subseteq ToSet(selectList)
  <2>1. selectList # <<>> => selectList[1] \in ToSet(selectList)
    BY DEF EventInv, TypeInv, TypeOK, ToSet
  <2> QED  BY <2>1 DEF Answered
<1>4. WritesHandled({}, late) \/ WritesHandled(Writes, Answered \cup late)
  BY <1>1 DEF HandleBadFd, HandleEvents
<1> QED  BY <1>2, <1>3, <1>4, WritesSound

-----------------------------------------------------------------------------
(* The theorems.                                                           *)

\* The initial state.
LEMMA InitSound == Init => EventInv
<1> SUFFICES ASSUME Init  PROVE EventInv
  OBVIOUS
<1>1. TypeInv
  BY InitTypes
<1>2. \A p \in Port : /\ buffer[p] = <<>> /\ pending[p] = <<>> /\ flushed[p] = 0
                      /\ accepted[p] = 0 /\ sent[p] = <<>> /\ discarded[p] = {}
  BY DEF Init, InitOutput
<1>3. writeList = <<>> /\ task = [t \in Thread |-> Idle]
  BY DEF Init, InitOutput
<1> DEFINE none == <<>>
<1>4. none \in Seq(Nat) /\ none \in Seq(ItemOf(Nat)) /\ Len(none) = 0 /\ ToSet(none) = {}
  BY NoBytes
<1>5. AllBytes(none) = none /\ Cat(none, none) = none
  BY <1>4, AllBytesIs, CatNone
<1>6. none # Closed
  BY DEF Closed
<1>7. \A p \in Port : Buf(p) = none
  BY <1>2 DEF Buf
<1> HIDE DEF none
<1>8. Ordered(Cat(none, Cat(AllBytes(none), none)), 0, {})
  BY <1>4, <1>5 DEF Ordered
<1>9. Begins(none) /\ \A u, s, g : Covered(u, none, s, g)
  <2>1. Begins(none)
    BY DEF Begins, none
  <2>2. \A u, s, g : Covered(u, none, s, g)
    BY <1>4 DEF Covered
  <2> QED  BY <2>1, <2>2
<1>10. PortsSound
  <2> SUFFICES ASSUME NEW p \in Port  PROVE PortSound(p)
    BY DEF PortsSound
  <2>1. /\ pending[p] = none /\ flushed[p] = 0 /\ accepted[p] = 0 /\ sent[p] = none
        /\ discarded[p] = {} /\ Buf(p) = none /\ writeList = none
    BY <1>2, <1>3, <1>7 DEF none
  <2>2. p \notin ToSet(writeList)
    BY <1>4, <2>1
  <2> QED  BY <1>4, <1>8, <1>9, <2>1, <2>2 DEF PortSound, SoundAs, none
<1>11. Closers
  <2>1. \A t \in Thread : ~IsCloser(t)
    BY <1>3, NotClosing
  <2> QED  BY <2>1, ClosersAre
<1> QED  BY <1>1, <1>10, <1>11 DEF EventInv

\* Every step of a disciplined client, of a poll and of the other ends.
LEMMA NextSound == Disciplined /\ EventInv /\ [Next]_vars => EventInv'
<1> SUFFICES ASSUME Disciplined, EventInv, [Next]_vars  PROVE EventInv'
  OBVIOUS
<1>1. TypeInv'
  BY NextTypes DEF EventInv
<1>2. PortsSound' /\ Closers'
  <2>1. CASE UNCHANGED vars
    BY <2>1, NothingChanged DEF vars, outVars
  <2>2. CASE OutputStep /\ UNCHANGED inVars
    <3>1. ASSUME NEW t \in Thread, NEW p \in Port,
                 \/ \E lens \in Vectors, nl \in BOOLEAN : Write(t, p, lens, nl)
                 \/ \E lens \in Vectors : WriteLineFails(t, p, lens)
                 \/ \E closing \in BOOLEAN : Flush(t, p, closing)
          PROVE  PortsSound' /\ Closers'
      <4>1. PICK c : \E flush \in BOOLEAN, closing \in BOOLEAN : Finishes(t, p, c, flush, closing)
        BY <2>2, <3>1, WriteStep DEF EventInv
      <4> QED  BY <2>2, <4>1, FinishSound
    <3>2. ASSUME NEW t \in Thread, CloseDone(t) \/ HaltFlusher(t)
          PROVE  PortsSound' /\ Closers'
      BY <3>2, CloseDoneSound, HaltSound
    <3> QED
      BY <2>2, <3>1, <3>2, CloseAnywaySound, ResumeSound, CloseFdSound DEF OutputStep
  <2>3. CASE InputStep
    BY <2>3, InputStepSound
  <2>4. CASE Poll
    BY <2>4, PollSound
  <2>5. CASE OtherEnd
    BY <2>5, OtherEndSound
  <2> QED  BY <2>1, <2>2, <2>3, <2>4, <2>5 DEF Next
<1> QED  BY <1>1, <1>2 DEF EventInv

\* The invariant of write_bytes_ov, qout_flush and handle_std_write_event together.
THEOREM EventInvariant ==
  ASSUME Disciplined
  PROVE  Spec => []EventInv
<1>1. EventInv /\ [Next]_vars => EventInv'
  BY NextSound
<1> QED  BY <1>1, InitSound, PTL DEF Spec

\* PortSound is in the order of InOrder.
LEMMA OrderIs ==
  ASSUME EventInv, NEW p \in Port
  PROVE  InOrder(p)
<1>1. TypeOK /\ PortSound(p)
  BY DEF EventInv, TypeInv, PortsSound
<1>2. /\ sent[p] \in Seq(Bytes(MaxBytes)) /\ pending[p] \in Seq(ItemOf(Bytes(MaxBytes)))
      /\ Buf(p) \in Seq(Bytes(MaxBytes))
  BY <1>1, PortTypes DEF Buf
<1>3. AllBytes(pending[p]) \in Seq(Bytes(MaxBytes))
  BY <1>2, AllBytesIs
<1> DEFINE all == Cat(sent[p], Cat(AllBytes(pending[p]), Buf(p)))
<1>4. Ordered(all, accepted[p], discarded[p])
  BY <1>1 DEF PortSound, SoundAs
<1>5. all = Cat(Cat(sent[p], AllBytes(pending[p])), Buf(p))
  BY <1>2, <1>3, CatThree
<1>6. all = sent[p] \o AllBytes(pending[p]) \o (IF IsOpen(p) THEN buffer[p] ELSE <<>>)
  BY <1>5 DEF Cat, Buf
<1> HIDE DEF all
<1>7. /\ \A i, j \in 1 .. Len(all) : i < j => all[i] < all[j]
      /\ ToSet(all) = (1 .. accepted[p]) \ discarded[p]
  BY <1>4 DEF Ordered
<1> QED  BY <1>6, <1>7, Zenon DEF InOrder

\* No byte is lost, duplicated or overtaken between a client of write_bytes_ov and the
\* descriptor, except those that an error takes (write_to_flush,
\* handle_std_write_event).
THEOREM BytesKeepOrder ==
  ASSUME Disciplined
  PROVE  Spec => []BytesInOrder
<1>1. EventInv => BytesInOrder
  BY OrderIs DEF BytesInOrder
<1> QED  BY <1>1, EventInvariant, PTL

\* "there will be no event queue if and only if the output is completely empty"
\* (write_bytes_ov), and an event finds data to write first (handle_std_write_event).
THEOREM PendingHasEvent ==
  ASSUME Disciplined
  PROVE  Spec => []EventWhilePending
<1>1. EventInv => EventWhilePending
  BY DEF EventInv, PortsSound, PortSound, SoundAs, Begins, EventWhilePending
<1> QED  BY <1>1, EventInvariant, PTL

\* A flush that returns without an error has had everything written that was there when
\* qout_flush was called, whoever else has written, waited or been halted meanwhile.
THEOREM FlushKeepsPromise ==
  ASSUME Disciplined
  PROVE  Spec => []FlushedIsSent
<1>1. EventInv => FlushedIsSent
  BY DEF EventInv, PortsSound, PortSound, SoundAs, FlushedIsSent
<1> QED  BY <1>1, EventInvariant, PTL
=============================================================================
