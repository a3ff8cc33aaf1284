------------------------------ MODULE EventPoll ------------------------------
(***************************************************************************)
(* Events of file descriptors (packages/threads/manager/events.c): one     *)
(* poll asks select() about the descriptors of all events and handles      *)
(* those that are ready.  Queued output ports have write events, mailbox   *)
(* input ports (mboxport.scm) have read events, and threads that call      *)
(* thread-fd-select (fdport.scm) have select events.                       *)
(*                                                                         *)
(* Each port has a descriptor of its own, and a descriptor that was closed *)
(* is not opened again.                                                    *)
(***************************************************************************)
EXTENDS QueuedOutput

CONSTANTS
  InPort,
  InOwner,      \* input ports that own their descriptor
  Selects,      \* what threads select: sets of input and output ports, and
                \* whether there is a time limit
  MaxChunks,    \* bound of the model: what arrives for an input port
  MaxReads      \* bound of the model: how often threads read from a port

ASSUME PollAssumption ==
  /\ IsFiniteSet(InPort) /\ InPort \cap Port = {} /\ InOwner \subseteq InPort
  /\ \A s \in Selects : /\ s.r \subseteq InPort /\ s.w \subseteq Port
                        /\ s.timed \in BOOLEAN
  /\ MaxChunks \in Nat /\ MaxReads \in Nat

VARIABLES
  readList,    \* the input ports with a read event, newest first
  selectList,  \* the threads with a select event, newest first
  inHasFd,     \* input ports whose fd slot is not -1
  inOpen,      \* input ports whose descriptor is open
  mbox,        \* mbox[i]: the mailbox of an input port
  arrived,     \* how many chunks have arrived at the descriptor
  ended,       \* no more will
  taken,       \* how many were read from the descriptor
  got          \* history: what threads have received

inVars == <<readList, selectList, inHasFd, inOpen, mbox, arrived, ended,
            taken, got>>
vars == <<outVars, task, inVars>>

-----------------------------------------------------------------------------
(* Input ports *)

WithRead(i) == IF i \in ToSet(readList) THEN readList ELSE <<i>> \o readList
WithoutRead(i) == Those(readList, InPort \ {i})

\* Mutated: a port that had an event once is taken to have it still.
refresh_read_event_once(i) ==
  IF mbox[i] # <<>> \/ got[i] # <<>> THEN readList ELSE WithRead(i)

\* refresh-read-event
refresh_read_event(i) == WithRead(i)

\* provide-more-input up to receive-message!
ReadMore(t, i) ==
  /\ task[t] = Idle /\ i \in inHasFd
  /\ \A u \in Thread : ~(task[u].at \in {"reading", "closing input"} /\ task[u].from = i)
  /\ Len(got[i]) < MaxReads
  /\ readList' = refresh_read_event(i)
  /\ task' = [task EXCEPT ![t] = [at |-> "reading", from |-> i]]
  /\ UNCHANGED <<outVars, selectList, inHasFd, inOpen, mbox, arrived, ended,
                 taken, got>>

Receive(t) ==
  /\ task[t].at = "reading"
  /\ LET i == task[t].from
     IN /\ mbox[i] # <<>>
        /\ got' = [got EXCEPT ![i] = Append(@, Head(mbox[i]))]
        /\ mbox' = [mbox EXCEPT ![i] = Tail(@)]
  /\ task' = [task EXCEPT ![t] = Idle]
  /\ UNCHANGED <<outVars, readList, selectList, inHasFd, inOpen, arrived,
                 ended, taken>>

\* close-input-port, up to the return from fd-close, and the rest of it.  Clients
\* do not close a port while they read from it: nobody would wake the reader.
CloseInput(t, i) ==
  /\ task[t] = Idle /\ i \in inHasFd
  /\ \A u \in Thread : ~(task[u].at \in {"reading", "closing input"} /\ task[u].from = i)
  /\ ~Selected(i)
  /\ inOpen' = inOpen \ ({i} \cap InOwner)
  /\ task' = [task EXCEPT ![t] = [at |-> "closing input", from |-> i]]
  /\ UNCHANGED <<outVars, readList, selectList, inHasFd, mbox, arrived,
                 ended, taken, got>>

CloseInputDone(t) ==
  /\ task[t].at = "closing input"
  /\ inHasFd' = inHasFd \ {task[t].from}
  /\ readList' = WithoutRead(task[t].from)
  /\ task' = [task EXCEPT ![t] = Idle]
  /\ UNCHANGED <<outVars, selectList, inOpen, mbox, arrived, ended, taken,
                 got>>

-----------------------------------------------------------------------------
(* Select *)

\* thread-fd-select
Select(t, s) ==
  /\ task[t] = Idle
  /\ s.r \subseteq inHasFd /\ \A u \in Thread : task[u].at # "closing input"
  /\ \A p \in s.w : IsOpen(p) /\ Undisturbed(p)
  /\ "many selects" \in Risks \/ selectList = <<>>
  /\ selectList' = <<t>> \o selectList
  /\ task' = [task EXCEPT ![t] = [at |-> "selecting", set |-> s]]
  /\ UNCHANGED <<outVars, readList, inHasFd, inOpen, mbox, arrived, ended, taken, got>>

-----------------------------------------------------------------------------
(* check_for_events *)

SelectSets == {task[t].set : t \in ToSet(selectList)}
ReadSet == ToSet(readList) \cup UNION {s.r : s \in SelectSets}
WriteSet == ToSet(writeList) \cup UNION {s.w : s \in SelectSets}
BadFds == (ReadSet \ inOpen) \cup (WriteSet \ openFd)

Readable == {i \in ReadSet : taken[i] < arrived[i] \/ ended[i]}
Writable == {p \in WriteSet : room[p] > 0 \/ broken[p]}

\* A loop over a list handles the first n events whose descriptors are ready.
Handled(list, ready, n) ==
  LET here == Those(list, ready)
  IN ToSet(SubSeq(here, 1, IF n < Len(here) THEN n ELSE Len(here)))

\* find_and_notify_bad_fd
find_and_notify_bad_fd ==
  LET bad == Those(readList, InPort \ inOpen)
  IN /\ IF bad = <<>> THEN UNCHANGED <<readList, mbox>>
        ELSE /\ readList' = WithoutRead(bad[1])
             /\ mbox' = [mbox EXCEPT ![bad[1]] = Append(@, "error")]
     /\ UNCHANGED <<outVars, task, arrived, ended, taken>>

\* handle_std_read_event: one read, of a chunk or of the end
ReadsHandled(ports) ==
  LET chunk == {i \in ports : taken[i] < arrived[i]}
  IN /\ taken' = [i \in InPort |-> IF i \in chunk THEN taken[i] + 1 ELSE taken[i]]
     /\ mbox' = [i \in InPort |->
          IF i \in chunk THEN Append(mbox[i], taken[i] + 1)
          ELSE IF i \in ports THEN Append(mbox[i], "eof") ELSE mbox[i]]
     /\ readList' = Those(readList, InPort \ (ports \ chunk))
     /\ UNCHANGED <<arrived, ended>>

\* Mutated: select() is over when all the descriptors are ready.
Answered_all ==
  IF selectList = <<>> THEN {}
  ELSE LET s == task[selectList[1]].set
       IN IF s.r \subseteq Readable /\ s.w \subseteq Writable THEN {selectList[1]}
          ELSE {}

\* handle_select_event is called for the first one only: the loop takes nxt before
\* it is set.
Answered ==
  IF selectList = <<>> THEN {}
  ELSE LET s == task[selectList[1]].set
       IN IF s.r \cap Readable = {} /\ s.w \cap Writable = {} THEN {}
          ELSE {selectList[1]}

SelectCount ==
  IF selectList = <<>> THEN 0
  ELSE LET s == task[selectList[1]].set
       IN Cardinality(s.r \cap Readable) + Cardinality(s.w \cap Writable)

\* The events that are handled: each descriptor that select() has counted is used up
\* by the first event that asks for it.
ReadyCount == Cardinality(Readable) + Cardinality(Writable)
Reads == Handled(readList, Readable, ReadyCount - SelectCount)
Writes == Handled(writeList, Writable, ReadyCount - SelectCount - Cardinality(Reads))

HandleEvents(late) ==
  /\ ReadsHandled(Reads)
  /\ WritesHandled(Writes, Answered \cup late)
  /\ selectList' = Those(selectList, Thread \ (Answered \cup late))

\* An error of select() because of a descriptor that is closed: no event is handled.
HandleBadFd(late) ==
  /\ find_and_notify_bad_fd
  /\ WritesHandled({}, late)
  /\ selectList' = Those(selectList, Thread \ late)

\* late: threads whose time limit has passed at the end of the poll
Timed == {t \in ToSet(selectList) : task[t].set.timed}
Poll ==
  /\ \E late \in SUBSET Timed :
       IF BadFds # {} THEN HandleBadFd(late) ELSE HandleEvents(late)
  /\ UNCHANGED <<inHasFd, inOpen, got>>

-----------------------------------------------------------------------------
(* The other ends of the descriptors *)

Arrive(i) ==
  /\ ~ended[i] /\ arrived[i] < MaxChunks
  /\ arrived' = [arrived EXCEPT ![i] = @ + 1]
  /\ UNCHANGED <<outVars, task, readList, selectList, inHasFd, inOpen, mbox, ended,
                 taken, got>>

End(i) ==
  /\ ~ended[i]
  /\ ended' = [ended EXCEPT ![i] = TRUE]
  /\ UNCHANGED <<outVars, task, readList, selectList, inHasFd, inOpen, mbox, arrived,
                 taken, got>>

-----------------------------------------------------------------------------
Init ==
  /\ InitOutput
  /\ readList = SetToSeq(InPort) /\ selectList = <<>>
  /\ inHasFd = InPort /\ inOpen = InPort
  /\ mbox = [i \in InPort |-> <<>>] /\ got = mbox
  /\ arrived = [i \in InPort |-> 0] /\ taken = arrived
  /\ ended = [i \in InPort |-> FALSE]

InputStep ==
  \E t \in Thread :
    \/ \E i \in InPort : ReadMore(t, i) \/ CloseInput(t, i)
    \/ Receive(t) \/ CloseInputDone(t)
    \/ \E s \in Selects : Select(t, s)

OtherEnd ==
  \/ (\E p \in Port : MakeRoom(p) \/ Break(p)) /\ UNCHANGED inVars
  \/ \E i \in InPort : Arrive(i) \/ End(i)

Next == (OutputStep /\ UNCHANGED inVars) \/ InputStep \/ Poll \/ OtherEnd

Spec == Init /\ [][Next]_vars

\* The dispatcher polls again and again, threads that can run do, and whoever reads
\* from a descriptor goes on.
GoesOn(t) ==
  \/ (Resume(t) \/ CloseFd(t) \/ CloseDone(t)) /\ UNCHANGED inVars
  \/ Receive(t) \/ CloseInputDone(t)

\* ENABLED <<Poll>>_vars, in a form that is fast to evaluate
PollMatters ==
  \/ Timed # {}
  \/ IF BadFds # {} THEN ToSet(readList) \ inOpen # {}
     ELSE \/ \E i \in ToSet(readList) : taken[i] < arrived[i] \/ ended[i]
          \/ \E p \in ToSet(writeList) : room[p] > 0 \/ broken[p]
          \/ Answered # {}

FairSpec ==
  /\ Spec
  /\ []<>~PollMatters \/ []<><<Poll>>_vars
  /\ \A t \in Thread : WF_vars(GoesOn(t))
  /\ \A p \in Port : WF_vars(room[p] = 0 /\ MakeRoom(p) /\ UNCHANGED inVars)

-----------------------------------------------------------------------------
(* Properties *)

ByteSeq == Seq(1 .. MaxBytes)
Item == [kind : {"data"}, bytes : ByteSeq \ {<<>>}]
        \cup [kind : {"thread"}, bytes : {<<>>}, thread : Thread]
Task == [at : {"idle", "halted"}]
        \cup [at : {"flushing"}, port : Port, upto : 0 .. MaxBytes, closing : BOOLEAN]
        \cup [at : {"woken"}, port : Port, closing : BOOLEAN, ok : BOOLEAN]
        \cup [at : {"closing", "closed"}, port : Port, closing : {TRUE}]
        \cup [at : {"reading", "closing input"}, from : InPort]
        \cup [at : {"selecting"}, set : Selects]

\* The types of the variables.
TypeOK ==
  /\ buffer \in [Port -> {Closed} \cup ByteSeq]
  /\ pending \in [Port -> Seq(Item)]
  /\ writeList \in Seq(Port)
  /\ hasFd \subseteq Port /\ owner \subseteq Owner /\ openFd \subseteq Port
  /\ room \in [Port -> 0 .. Room] /\ broken \in [Port -> BOOLEAN]
  /\ task \in [Thread -> Task]
  /\ accepted \in [Port -> 0 .. MaxBytes] /\ sent \in [Port -> ByteSeq]
  /\ discarded \in [Port -> SUBSET (1 .. MaxBytes)] /\ flushed \in [Port -> Nat]
  /\ \A p \in Port : Len(buffer[p]) <= BlockSize /\ flushed[p] <= accepted[p]
  /\ readList \in Seq(InPort) /\ selectList \in Seq(Thread)
  /\ inHasFd \subseteq InPort /\ inOpen \subseteq InPort
  /\ arrived \in [InPort -> 0 .. MaxChunks] /\ taken \in [InPort -> Nat]
  /\ \A i \in InPort : taken[i] <= arrived[i]

\* No byte is lost, duplicated or overtaken: what was sent, what is pending and what
\* is in the buffer are the bytes that clients have written, in order, except those
\* that were given up because of an error (write_to_flush, write_bytes_ov).
InOrder(p) ==
  LET all == sent[p] \o AllBytes(pending[p]) \o (IF IsOpen(p) THEN buffer[p] ELSE <<>>)
  IN /\ \A i, j \in 1 .. Len(all) : i < j => all[i] < all[j]
     /\ ToSet(all) = (1 .. accepted[p]) \ discarded[p]
BytesInOrder == \A p \in Port : InOrder(p)

\* "there will be no event queue if and only if the output is completely empty
\* (nothing pending)" (write_bytes_ov): and there is something to write first when
\* the event goes off, which handle_std_write_event asserts.
EventWhilePending ==
  \A p \in Port :
    /\ p \in ToSet(writeList) <=> pending[p] # <<>>
    /\ pending[p] # <<>> => pending[p][1].kind = "data"

\* A flush that returns without an error has had written all that was there when it
\* was called, except what an error took (qout_flush, handle_std_write_event).
FlushedIsSent ==
  \A p \in Port : 1 .. flushed[p] \subseteq ToSet(sent[p]) \cup discarded[p]

\* A thread that waits for a flush is woken, whatever else is polled for: the other
\* end goes on reading, or breaks (check_for_events, handle_std_write_event).  But a
\* thread that selects the port's descriptor again and again is always counted first.
FlushersReleased ==
  \A t \in Thread, p \in Port :
    task[t].at = "flushing" /\ task[t].port = p
      ~> \/ task[t].at # "flushing"
         \/ \E s \in SelectSets : p \in s.w

\* A thread that reads gets what is there, be it data, an end or an error, with the
\* same exception (refresh-read-event, find_and_notify_bad_fd).
ReadersServed ==
  \A t \in Thread, i \in InPort :
    task[t].at = "reading" /\ task[t].from = i /\ (taken[i] < arrived[i] \/ ended[i])
      ~> task[t] = Idle \/ \E s \in SelectSets : i \in s.r

\* A thread that waits for descriptors hears of them when one of them stays readable,
\* or can be written to, unless another thread has begun to select since: only the
\* newest select event is looked at, an older one waits until the newer ones are gone
\* (check_for_events, handle_select_event).
SelectorsServed ==
  \A t \in Thread :
    task[t].at = "selecting"
      ~> \/ task[t].at # "selecting"
         \/ selectList[1] # t
         \/ /\ task[t].set.w = {}
            /\ \A i \in task[t].set.r : ~(ended[i] \/ taken[i] < arrived[i])

\* "seek out the bad FDs and send it an error signal" (check_for_events): an event of a
\* closed descriptor does not stay.
BadFdsFound == BadFds # {} ~> BadFds = {}

=============================================================================
