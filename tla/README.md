# RScheme: a verification development

RScheme (`src/`) is a Scheme system: a compiler to C and to byte codes, a
runtime in C, a user-level thread system, two garbage collectors, a log
structured store (LSS) and a persistent object store on top of it (rstore).
This directory models parts of it in TLA+, checks the models with TLC on small
instances and proves theorems about them with TLAPS. Paths below are relative
to `src/`; the thread manager is `packages/threads/manager/`.

## 1. Inventory

| Component | State it keeps | Operations | What is hard | What makes it correct |
|---|---|---|---|---|
| thread records, dispatcher (`dispatch.c`, `struct.h`, `class.scm`) | state, suspend count (its sign says whether the thread is in a queue), blocked-on, stack; ten run queues; the current thread | switch, time slice, dispatch, idle | every popping path must keep the sign right | each thread in exactly the queue it should be in, once |
| mailboxes (`mailbox.scm`, `synch.c`) | one dequeue of messages or of waiting threads, `has-data?` tells which | send, prepend, receive, close, requeue of a resumed receiver | suspended waiters inside the dequeue; close; stragglers | messages neither lost, duplicated nor overtaken; waiters served in order |
| semaphores, conditions (`semaphore.scm`, `condition.scm`) | count, waiters | signal, wait, atomic signal-and-wait | negative counts; halts of waiters | count and queue agree |
| futures, joins, child processes (`futures.scm`, `start.scm`, `system.scm`) | a value that is set once, a list of waiters | set, await, join, exit, child-exited interrupt | a waiter that comes just before or after the event | nobody waits for what has happened |
| control (`start.scm`, `synch.c`) | none of its own | suspend, resume, halt, deliver a signal | acts on threads in any state | suspension holds, completion is final |
| timer events (`timer.scm`, `events.c`) | sorted event list, back pointers from threads | sleep, fire, free | fire against suspend, halt, signal | each event goes off once or is freed |
| mutexes, critical sections, pools (`mutex.scm`, `critsect.scm`, `shell/pool.scm`) | owner, count | lock, unlock, invoke | check-then-act between safe points | one owner |
| queued output ports (`output.c`, `outport.scm`) | buffer, queue of pending writes and of threads that wait for a flush, write event | write, flush, close, writable, halt of a flusher | partial writes, errors, a close in three steps | bytes in order, every flusher woken |
| descriptor events (`events.c`, `mboxport.scm`, `fdport.scm`) | lists of read, write and select events | register, poll, handle, bad descriptor | one count of ready descriptors shared by all events; descriptors closed under an event | whoever waits for a descriptor that is ready is served |
| dequeues (`handc/runtime/dequeue.c`) | ring buffer, front, back | push, pop at both ends, delete | wrap-around, growth | a sequence |
| signal queue (`handc/platform/com/osglue.c`, `handc/runtime/intrs.c`) | at most 20 queued signals, ready and enable flags | enqueue from a handler, take at a safe point, halt the timer | handler against safe point, overflow | none lost but those the bound drops |
| LSS (`packages/lss`) | volumes, commit records, index, free map | write, commit, recover, collect | crash between any two writes | recovery finds the last complete commit |
| rstore (`packages/rstore`) | pages, swizzled references, areas | fault in, modify, commit | writers during a commit | what is loaded is what was committed |
| irc collector (`handc/cfg/gc/irc`, `handc/cfg/gcadapt/irc`, `packages/rstore/util.c`) | colours of objects, the phase of a cycle, the regray list, the list of pointers from stores | allocate, store with a barrier, increments, full collections, commit and close of a store | the program between increments; termination that runs out of budget | nothing in use is freed; what is unreachable is, in the end |
| finalization (`handc/runtime/finalize.c`) | registered objects, lists in the signal queue | register, hand over, call | objects revived at the end of a cycle | each handed over once, after it became unreachable |
| rtgc (`handc/cfg/gc/rtgc`), an alternative collector | colours | allocate, shade, scan, flip | as irc | no reachable object is freed |
| compiler, byte codes, libraries, stage 0 | large immutable data, sequential code | - | - | out of a model checker's reach, see section 8 |

How they interact. Primitives written in C (`define-glue`) run whole: Scheme
code is interrupted only at safe points, where the interpreter looks at a flag
that the signal handlers set. So a primitive is a step, and threads interleave
between primitives. The dispatcher calls `check_for_events`, which handles
timers and descriptors and makes threads ready; blocking objects share the
thread records' slots (state, count, blocked-on) with the dispatcher and with
the control operations: that shared state is where the hazards are, and where
the development started. The collector runs at safe points too, a piece at a
time, and shares the heap, the registers and the signal queue with everybody;
rstore's pages point into its heap through a list that commits empty. The log
structured store is below rstore and talks to files only: what it shares with
its later self is what a crash leaves of them.
`PROJECT.json` lists every hazard at its line.

## 2. Modules

| Module | Models |
|---|---|
| `ThreadKernel` | thread records, run queues, dispatcher, timer events, `mark_thread_ready`, `did_remove_from_queue` |
| `ThreadMailbox` | mailboxes: `do_mailbox_send`, `close_mailbox`, `receive-message!`, `requeue` |
| `ThreadSync` | semaphores, conditions, futures, child processes, joins, the end of a thread |
| `ThreadControl` | `thread-suspend`, `thread-resume`, `halt-thread`, `thread-deliver-signal!`, with `kthread_unqueue_suspend` |
| `ThreadManager` | the composition: Init, Next, Spec, FairSpec, and all properties |
| `MailboxSpec` | the abstract mailbox that `ThreadManager` implements |
| `MCThreads` | model values, priorities and symmetry for TLC |
| `ThreadManager_proofs` | proof of the type invariant |
| `ThreadQueues_proofs` | proof that every thread is in the queue its record says, once |
| `ThreadSafety_proofs` | proofs of the safety properties that follow |
| `LogStore` | one log structured store, its files and their crashes: `packages/lss/lssv3.c` |
| `StableStore` | what `LogStore` implements: records, commits that survive |
| `QueuedOutput` | queued output ports: `output.c`, `outport.scm` |
| `EventPoll` | extends it by mailbox input ports, `thread-fd-select`, and one poll of `check_for_events` |
| `HeapMutator` | the heap and what the program does to it: allocation, stores with the write barrier, stores into persistent pages, commits, finalization's program side |
| `IncrementalCollector` | `run_gen` in all its phases, increments and full collections, `gc_cycle_finish_ok` |
| `CollectedHeap` | both together: Init, Next, Spec, FairSpec, properties |
| `HeapSpec` | what `CollectedHeap` implements: a graph, of which the unreachable disappears |
| `MCStore`, `MCPorts`, `MCHeap` | model values and definitions for TLC |
| `Collector_proofs` | proofs that nothing in use is freed, and that `CollectedHeap` implements `HeapSpec` |
| `LogStore_proofs` | proof of the store's type invariant, and what its operators return |
| `LogStoreRecovery_proofs` | proofs that what was written is read, that commits survive crashes, and the refinement of `StableStore` |
| `OutputCursor_proofs` | what each primitive of output ports does to a port, as lemmas on the operators of `QueuedOutput` |
| `Ports_proofs` | proofs of the types of `EventPoll`, and that bytes, events and flushes of output ports are right |

Thread manager: state and code. `state`, `suspend`, `blocked` are the slots of `<thread>`.
`frame` is what lies on top of the saved stack, as far as somebody else relies
on it: `store_resume_value` writes into slot 4 of the top frame, which is right
only if that frame is the one that waits for a value, and `thread-stack` holds
the result once the thread is complete. `got` is the message left in a receive
frame (what a join's frame gets is ignored by `delayed_join` and left out).
`relock` is the semaphore that a `cw_resume` frame will wait for: such a thread
does nothing else first (`Free`). `runq` merges the ten run queues in order of
arrival; `IsNext` picks the oldest thread of the best priority, which is the
front of the first queue that is not empty. `waitq` holds the dequeues of
semaphores and conditions (oldest first) and the lists of futures, processes
and threads (newest first). `timers` is the event list without its due times.
`kernel` is where the dispatcher is: polling for events, scanning the run
queues, waiting for an event, or off while a thread runs. `failed` collects the
asserts whose condition was false when they were reached: the default build
compiles asserts out (`handc/configure.in:695`), so the code goes on.

Each action is one primitive or one step of the dispatcher's loop. Loops over a
queue (`do_mailbox_send`, `close_mailbox`, `krelease_joiners`) are part of the
action. A primitive that gives up before it changes anything (a send to a
closed mailbox, which returns `#f`; a resumption of a complete thread, an
error) has no action. `sent`,
and the bounds `MaxSends`, `MaxSuspend`, `MaxCount` in the guards of
`SendMessage`, `Suspend`, `SemaphoreSignal` and `ConditionWait`, bound the state space.

The discipline of clients. Some operations are right only if their callers
behave in a way the code does not enforce. `SuspendAllowed` and
`UnqueueAllowed` (ThreadControl) state that behaviour; each part can be given
up by a member of `Liberties`. The passing runs give up as little as they must,
and the violation run gives up what a doc or comment says is allowed:

- a thread does not suspend itself (`"suspend self"`);
- nobody suspends a thread that waits for a semaphore, condition, future or
  join (`"suspend waiter"`, given up by the run `sync`), nor one that waits for
  a child process (`"suspend process waiter"`);
- nobody halts or signals a ready thread that is suspended (`"halt suspended"`),
  a thread that was taken off its queue while suspended (`"halt unqueued"`), or a
  thread that waits on a condition (`"halt condition waiter"`).

Where the discipline keeps out a case in which the code goes wrong, section 6 names
the case; no property says anything of it.

Log structured store: state and code. A volume's `file` is the sequence of the
records in it; a locator is a volume and a position. `outbuf` and `auxbuf` are
the write buffers of the tip and of other volumes, `entry`, `lineAt`, `known`
and `cr` the index, the dirty lines, the master index and the commit record in
memory, `hint` is `last_cr_at` in a volume's header. `lssi_commit` is cut into
the steps between which a crash makes a difference (`BeginCommit`,
`CommitHeader`, `CommitFlush`, `CommitAux`, `CommitRecord`, `CommitSync`); the
other calls (`lss_write`, `lss_delete`, moves, `lss_set_tip`, detach, unlink,
attach, rewind) are one action each. `ProcessDies` keeps what was written, and
syncs none of it. `PowerFails` keeps what was synced, and of what was written later
any part that is nothing, everything or ends with a data segment or a commit record,
with the old header or the new one. Unlinks are durable at once and
torn writes are left out. `Open` is `lss_openx` with the search for the last
commit record, and syncs nothing; an assert that stops it makes `CannotOpen` true.
`view`, `stable`, `offered`, `past` are history: what the client wrote and what
commits promised; `inherited` is how much of a file was there when it was last
opened. `Risks` names what the code is not safe against:

- a crash that leaves a volume `"blind"` (`Sighted`): its header names no commit
  record although there are some in it, and it ends with data;
- a power failure that takes an `"unsynced move"` to a volume other than the tip;
- a power failure that takes what an `"unsynced recovery"` took up: part of what was
  in a file when the store was last opened, which the death of a process had left
  unsynced;
- a `"backlevel"` tip, whose generation is lower than that of another volume.

A header that names a commit record in another volume is none of these: crashes that
leave one are part of the model, and `OpensAgain` says what comes of them.

Ports: state and code. The bytes of a port are numbered as they are written.
`buffer` and `pending` are the port's slots, `writeList`, `readList` and
`selectList` the kernel's lists of events, newest first, `hasFd` and `openFd`
the difference between the port's descriptor slot and the descriptor itself.
The other ends take, send, end and break as they like (`MakeRoom`, `Arrive`,
`End`, `Break`). A primitive works on a cursor, a record of all that concerns one port, as the
code works on an output cursor. `FillBuffers` makes two turns of the code's loop:
a string that goes through it is smaller than a block, and two buffers hold it
(`BuffersFilled` proves that). `task` says where each thread is: a flush that has found
something pending waits (`flushing`) until the poll wakes it; a close is a
flush, an `fd-close` and the clearing of the slot. `Poll` is a whole
`check_for_events`: the descriptors `select()` says are ready, the newest
select event first, then read events, then write events, each using up one of
the count. `Risks` and `Undisturbed` are the discipline of clients: nobody
writes to a port that another thread is closing (`"write while closing"`), no
selected descriptor is closed, no input port is closed under a reader, one
select at a time (`"many selects"`), nobody is halted while flushing (`"halt"`; the
run `ports` gives up the last two). Descriptors differ from port to port and closed
numbers are not used again.

Heap: state and code. The colour of an object stands for the list of its size
class that it is in and the colour bit of its header: the code has one bit for
gray and black. `cell` is every root in turn: stable ones (modules), registers,
the stack cache; `next` is the root iterator. `pslot` is what the slots of
persistent objects hold, as far as it is transient; `noted` the bit of the slot
in the page's bit map; `externals` the list of such slots that the collector
scans, in buckets, and `xiter` its iterator. `regray` is the barrier's list.
`sigq` holds the two signals the collector enqueues: a list of finalizable
objects, and `GC_FLIP`. `phase` is where `run_gen` is, `state` what it leaves in
`gen->state` when the budget ends. An action is what the code does between two
looks at the budget: one root (`ScanRoot`), one object (`Blacken`), one bucket
(`ScanBucket`, `Reblacken`); `OutOfTime` may come anywhere in an increment, never
in a full collection (`fullgc`). Program and collector alternate at safe points
(`running`), so a barrier and its store are one step. Promotion is disabled in
the code, so one generation is modelled. `Risks`: a store that is committed
while another one has uncommitted pointers (`"commit one of several"`), or closed
with some of its own (`"close uncommitted"`); more buckets of externals than an
attempt to terminate scans (`"many externals"`); a collection that starts with
less than two free places in the signal queue (`"signals waiting"`).

## 3. Properties

Thread manager. Invariants: `TypeOK`; `QueuedWhereBlocked` (the sign of the suspend count tells
the truth, `class.scm:45`); `QueuedOnce`; `SlotsAgree`; `SemaphoreCount`; `NoLostWakeup`;
`FrameFits`; `AssertionsHold`. Action
properties: `CompleteIsFinal`, `FirstComeFirstServed`, `ReopenedByStragglers`,
`SuspensionHolds`. Refinement: `MailboxesImplemented`. Liveness:
`ReadyThreadRuns`, `SleeperWakes`.

`MailboxSpec` knows messages, mailboxes and what each receiver has in hand; no
queues of threads, no suspension, no scheduler. The refinement mapping reads a
mailbox whose dequeue holds threads as empty, and `got` as what is in hand. A
send that passes over suspended waiters, a close, and a resumption that finds a
message are then `HandOver` or `Send`, `Refuse`, and `Take`.

Log structured store. `ReadsSeeWrites` (the index in memory leads to what was
written last, whatever was flushed and moved), `EveryCommitReadable` (so do the
master index, lines and differences of each old commit record),
`HeaderPointsBack` (the question a comment in `lssi_commit` asks: within its volume a
header points to nothing but a commit record, which is synced or was there when the
store was last opened), `OpensAgain` (the store can be opened after a crash, unless a
header that is needed names a commit record in another volume, `Astray`),
and the refinement `CommitsSurvive`: `StableStore` knows the client's records,
the last commit and one that is under way; a crash leaves one of the two, whole.
`BookmarkPreserved` is what `lssv3.h:260` promises.

Ports. `BytesInOrder`, `EventWhilePending` (a comment in `write_bytes_ov`),
`FlushedIsSent`; liveness: `FlushersReleased`, `ReadersServed`, `BadFdsFound`, and
`SelectorsServed`: the thread that has begun to select last is served. An older one
is not as long as newer ones come (`events.c:836`); it is when it is the last that is
left.

Heap. `NoDangling` (nothing that the program could use is freed), `Tricolour`,
the action property `FullCollectFrees` (after `gc-now`, all
that is left is reachable, unless objects are waiting for finalization), the
refinement `HeapImplemented`, and `FinalizersHandedOver`. `HeapSpec` has neither colours
nor increments: the program changes the graph within what it can get hold of, a
set that cannot be reached is handed over or disappears. Its `Reachable` is
stated by closed sets instead of paths.

Each property is stated and explained in the module that composes its part.

## 4. Runs

| Run | Instance | Shows |
|---|---|---|
| `mailbox` | 3 threads, 1 mailbox, 3 messages, counts up to 2; 345 000 states (symmetry) | the mailbox promises and the consistency of the records |
| `sync` | 3 threads (one of better priority), a semaphore, a condition, a future, a child process, counts up to 1; 800 000 states | the same for the objects that wake all they pop, with suspended waiters; complete threads keep their results |
| `fair` | 3 threads, 1 mailbox, 1 semaphore, 1 message; 140 000 states, no symmetry | liveness of threads and sleepers |
| `suspended_waiter` | violation of `QueuedWhereBlocked` | signal to a suspended waiter, then `thread-deliver-signal!`: the thread is in no queue and its count says it is in one |
| `store` | 2 volumes, 2 records in 2 index lines, 1 difference, 3 operations, 3 generations, 1 crash; 1 730 000 states | what was committed is found again, unless a header has gone astray |
| `blind` | violation of `CommitsSurvive` | a crash before the first update of a volume's header loses its commits |
| `bookmark` | violation of `BookmarkPreserved` | compaction drops the index of the commit it has just marked |
| `ports` | 2 threads, an output and an input port, blocks of 4 bytes, room for 1, 6 bytes, 1 chunk, 2 reads, two threads may select at once; 292 000 states | bytes in order, everyone who waits is served, the older of two selects excepted |
| `bad_fd` | violation of `BadFdsFound` | the write event of a closed descriptor stays, and every poll fails |
| `collector` | a strong and a weak object of one slot, 1 register, 1 stack slot, 1 store with 1 slot, buckets of 1; 2 600 000 states | nothing in use is freed, and the refinement |
| `finalizers` | the same without stores, with fairness; 320 000 states | registered objects are handed over |
| `two_stores` | violation of `NoDangling` | a commit empties the list that another store's pointers are in |

Bounds. Threads: three are needed and enough for the interesting cases: one
waits, one acts on it while it waits, one competes for the same object or
arrives in between; with two waiters in a queue, one suspended and one not, and
a third to send, every branch of the loops over a queue is taken. A count of 2
reaches every branch of `mark_thread_resumed` from both signs. Three messages
make a mailbox that holds two while a third is handed over or prepended.

Store: with one difference the second changed record makes `lssi_commit` write
its index again, with two lines one of them stays clean and is found through the
master index, and three generations make a commit whose predecessor's
predecessor counts. Two volumes allow moves, a change of tip, a detachment, and
a recovery that must choose. The fuel is 2 for a header and 1 for a commit, so
that headers are updated by every other commit.

One crash is what five minutes allow; what a second one adds, crashes during and after
a recovery, is covered by the theorems of section 7 for any number of crashes. (With 2
operations and 2 crashes the run passes too, in 664 000 states.)

Ports: a descriptor that takes 1 byte at a time gives partial writes of a buffer
(with less left than the threshold, which stays in it, or more, which is queued),
of a large string and of a queue; 6 bytes a full buffer and a pending write behind it.

Heap: two objects, one of them weak, a slot each, make the chains through which an object
can be hidden from a scan: it is loaded from a white one into a register, and
stored into a black one. A register and a stack slot are scanned in different
phases. Increments end anywhere, so that two objects interleave with the program
in every phase; two signals fill the queue that `Risks = {}` keeps room in. One
slot in a store and buckets of one entry give lists that are empty, full, and
emptied by a commit in the middle of a scan. The theorems of section 7 cover
longer chains, more roots, stores and buckets.

CHECK_DEADLOCK is FALSE for threads, store and ports: all threads complete, or
all wait, in a legal behaviour, and the bounds on messages, operations and bytes
stop the model. The heap's runs check for deadlock: there is always something
to do.

## 5. Fairness

Threads: `FairSpec` assumes weak fairness of `Yield`: `dispatch_to_thread` sets the timer
of the time slice before it enters the thread, so a thread that neither blocks
nor ends is interrupted (`time-slice-over`). The dispatcher is a loop in C:
weak fairness of its steps together. A time event is handled by
the poll that follows its due time, and the dispatcher polls again and again:
strong fairness of `TimerFires(t)`, because the dispatcher is not always
polling. Nothing is assumed of what the program's threads do.
`ReadyThreadRuns` is checked for threads of one priority, threads of better
priority may starve others by design; and it lets go of a thread that is
suspended, halted or sent a signal, which moves it to the end of the line.

Ports: the dispatcher polls at least at the end of every time slice
(`PollMatters` writes out when a poll changes something); a thread that has been
woken, or is closing, goes on (`GoesOn`); the other end of a port that is full
reads, as long as it is not broken. A thread that selects the port's
descriptor again and again is served first, each time; the properties make an
exception for it.

Heap: the collector finishes what it has begun (it is a loop in C, with a
budget), signals are taken at the next safe point, and the program asks for a
full collection again and again. Increments alone are not assumed to end a cycle:
with more roots than the budget of an attempt to terminate they need not.

## 6. Disagreements between the code and its documents

`PROJECT.json` "findings" has the quotations of the five that a run shows:

- `suspended_waiter`: the sign convention of `class.scm:45` is broken for waiters
  of semaphores, which are made ready while suspended, as soon as one of them is
  signalled.
- `blind`: a volume whose header has not been updated yet, as during its first
  ten commits, has no way back from a segment of data to its last commit record
  (`lssv3.c:1433`); the documents describe a scan.
- `bookmark`: `detach_cr` looks where the bookmarked commit record is, not at
  what it refers to (`lssv3.c:2868`, against `lssv3.h:260`).
- `bad_fd`: `find_and_notify_bad_fd` searches only the list of read events
  (`events.c:593`, against the comment at `events.c:823`).
- `two_stores`: the list of pointers into the heap belongs to all stores, and the
  commit of one empties it (`makeheap.c:222`).

Seen while modelling, with no run of their own.

Threads: `thread-suspend` of the current thread returns at once
(`doc/ref/suspend-thread.sgml:34` says it does not). A ready thread that is
suspended and then halted stays in its run queue with its result for a stack
(`synch.c:222`, against 205-208). A thread that is suspended and resumed while
it is ready keeps the state SUSPEND (`class.scm:30-32`). `do-child-exited` leaves the
count of a suspended waiter positive (`system.scm:49-55`). The halt of a thread
that waits on a condition raises an error after its stack has been overwritten
(`synch.c:300`). `requeue` and `kthread_unqueue_suspend` can reopen a closed
mailbox: `ReopenedByStragglers` bounds when `requeue` does;
`kthread_unqueue_suspend` does when a thread that was passed over while suspended is
halted or signalled (`synch.c:252-255`), which the discipline keeps out. `thread-sleep-ms` does not carry a sum of exactly
1000000 microseconds.

Store: a store may fail to open after a crash. When the tip has changed, the next
header update writes the address of the last commit record, which is still in the old
tip, into the header of the new one (`lssv3.c:653`). If the process dies before its
first commit record there, that volume ends with a data segment, the search starts from
its header, and `lssi_find_last_cr` panics with "CR is not on this volume"
(`lssv3.c:1439`). The comment at `lssv3.c:546-549` asks "what if we crash before the
commit; will the volume header have an incorrect forward pointer to the CR?" and says
"We should handle that at load time". Without the last disjunct of `OpensAgain` the run
`store` shows it: a commit on volume 0, `SetTip(1)`, `BeginCommit`, `CommitHeader`,
`ProcessDies`.
`lss_openx` syncs nothing. A commit record that a process wrote and did not sync before
it died is taken up by the next one, and a power failure can still take it, although
the client has gone on from it: with "unsynced recovery" in `Risks`, two crashes, one
volume and one operation, `CommitsSurvive` fails.

Ports: an error of a pending write that nobody waits for is lost with the bytes
(`output.c:551`, against `doc/ref/flushop.sgml:36-37`); with an error procedure
the port keeps pending writes that have no event. Only the newest select event is
looked at in a poll (`events.c:836`), and the time limit of the poll is that of
the last timed one instead of the least (`events.c:733`). `find_and_notify_bad_fd`
takes every read event for one of a mailbox port. `q_big_write` does not copy the
client's string. The halt of a thread in `thread-fd-select` raises an error. The
reader of a port that another thread closes waits for ever.

Heap: closing a store with uncommitted pointers (as `test/swizmode.scm:62` does)
leaves slots of unmapped pages on the list of externals. A full collection does
not free what was garbage since the cycle began if its first run handed over
finalizable objects. An attempt to terminate has a budget, or the rest of the
increment's: with more than some thousand roots no increment ends a cycle. A
`run_externals_scan` that runs out of budget in an attempt to terminate says
nothing (`"many externals"`). `os_scan_sig_queue` does not look at the data of
`RSSIG_CALLn`. A full signal queue drops a list of finalizable objects that have
just been unregistered.

## 7. Proofs

### Threads

`ThreadManager_proofs!TypeCorrect` proves `Spec => []TypeOK` for every value of
the constants that satisfies the assumptions of `ThreadKernel`: any finite set
of threads, any sets of objects, any bounds, any liberties. `TypeOK` is
inductive as it stands: the part that says that a mailbox holds threads exactly
when `has-data?` is `#f` needs only the types of the other slots. The proof has
one step for each action, grouped into one lemma for each module
(`KernelStepTypes`, `MailboxStepTypes`, `SyncStepTypes`, and
`SuspendTypes`, `ResumeTypes`, `HaltTypes`, `DeliverSignalTypes`); lemmas on
sequences (`WithoutType`, `RemoveAtType`, `EligibleOnlyType`) and on mailboxes
(`NewMailboxType`, `EnqueueTypes`, `RequeueTypes`) are cited by name.

The safety properties depend on one another, and all on the queues. The
inductive invariant is

    QueuesInvariant == TypeOK /\ SlotsAgree /\ QueuesAgree

`QueuesAgree` says of every queue (run queues, time events, each object) that
it holds exactly `InLineFor(w)`, the threads whose records say that they wait
for `w`, each once (`IsQueueOf`); for values of the right types it is
`QueuedWhereBlocked /\ QueuedOnce` (`QueuesByMembers`). It is not inductive
alone: an operation that wakes all it pops, `do-child-exited` say, or a joiner
list that is dropped, is right only if whoever is blocked on the object is
still in its list, and that the slots agree (`SlotsAgree`: only a mailbox is
left by a waiter that goes on waiting) must be carried along. A step lemma per
operation computes `InLineFor(w)'` for every `w` at once from the slots it
assigns, and the queues from the lemmas on
queues; `WokenQueues`, `BlockQueues` and
`LeaveObjectsQueues` serve all operations that wake, block or remove.

The assumption is `Disciplined == Liberties \subseteq {"suspend waiter"}`: the
clients keep the discipline of section 2, but may suspend waiters of
semaphores, conditions, futures and joins, as in the run `sync`. From
`QueuesCorrect` follow, each with what must be carried along in brackets:

| Theorem | Property |
|---|---|
| `SignTellsTruth`, `SlotsTellTruth` | `QueuedWhereBlocked /\ QueuedOnce`, `SlotsAgree` |
| `NobodyQueuedTwice` | `QueuedOnce` (part of the invariant) |
| `CountTellsTruth` | `SemaphoreCount` (itself; a waiter that is halted or signalled away is in the queue, so its semaphore's queue gets shorter when the count is incremented) |
| `SuspensionsHold` | `SuspensionHolds` (nothing; a halted or signalled thread is taken for queued exactly when it is, `UnqueueFacts`) |
| `EndIsFinal` | `CompleteIsFinal` (complete threads, and no others, have their results for stacks) |
| `LoadedFits` | `FrameFits` (`FrameKind`: the frame that reads a message is on top from the receive until the value is loaded, the one that reads a thread's result from the join on) |
| `OnlyStragglersReopen` | `ReopenedByStragglers` (nothing). The discipline is essential: the halt or signal of a thread that was passed over reopens a mailbox |
| `WakeupsNotLost` | `NoLostWakeup` (the above; nobody waits for what has happened, no mailbox says that it has waiters and has none) |
| `NoAssertFails` | `AssertionsHold`, for `Liberties = {}` (waiters that are woken without a look are not suspended; a blocked thread's state is that of its object, or SUSPEND) |

### The heap

The inductive invariant is `CollectorInvariant`:

    TypeOK /\ NoDangling /\ Tricolour /\ WeakNoted /\ PointersListed /\ Terminating

`NoDangling` fails only at the flip, which frees what is white. There,
`Terminating` says that the attempt has left no root, no page of a store and no
finalization list with a white object, and that nothing is to be scanned again;
with nothing gray left, all these are black. `Tricolour` says that what is black
leads to nothing white but through the first slot of a weak object, and
`WeakNoted` that such slots are cleared. The barrier keeps `Tricolour`
(`TricolourMutator`), an allocation does because nobody refers to a free object
yet, which is `NoDangling` again: the parts need each other. `PointersListed`
makes the scan of the list of externals a scan of all pointers from stores.
Each part has one lemma for the program's steps and one for the collector's
(`DanglingMutator`, `DanglingCollector`, ...), with one step per action that
disturbs it. TLC finds `CollectorInvariant` true in the instance of `collector`.

| Theorem | Property | Assumes |
|---|---|---|
| `HeapTypes`, `NothingDangles`, `TricolourKept` | `TypeOK`, `NoDangling`, `Tricolour` | no commit of one of several stores with uncommitted pointers; no more externals than an attempt to terminate scans |
| `HeapKept` | `HeapImplemented` | as `NothingDangles`, and room for two signals |

`HeapKept` maps every step of the program to `Program`, a flip
to `Collect` of the white objects, `HandOver` to `HandOver`, the end of a close
to `Program`, and everything else to a stutter. Where the abstract step demands
that what disappears is not reachable, the set of black objects is the closed set
that shows it (`TerminationFinds`, `NotReachable`); that the list of dead objects
is not dropped is the invariant `RoomForSignals`.

### The log structured store

`LogStore_proofs!TypeCorrect` proves `TypeOK` with no assumption on `Risks`. The
inductive invariant is `Shape == TypeOK /\ Buffers /\ Opened`: no commit record
is ever in a buffer, and a commit empties the buffers (`Buffers`); the tip and all
attached volumes of a store that is up have headers, if only in the buffer
(`Opened`).

`LogStoreRecovery_proofs` assumes `Disciplined`: none of the four `Risks` of
section 2 is taken: no crash leaves a blind volume, no power failure takes an unsynced
move or what a recovery took up unsynced, no commit is made on a tip that is behind.
Each of them breaks what is proved here: the run `blind` shows the first, and
section 6 how to see the third. The assumptions bound which crashes there are, not
where they come: a crash may come between any two steps, any number of times. The inductive invariant is

    Recovery == Shape /\ (Up => InMemory /\ Placed) /\ Durable

- `InMemory`: the index in memory leads to what clients have written, what it
  says of index lines in the store is true, and between the steps of a commit the
  master index that has been written is that of the index in memory.
- `Placed`: nothing that is needed now is in a volume that has been detached.
- `Durable == CommitsWell /\ Offering /\ Behind /\ Recovers /\ Hints` is about
  the files, and holds also while the store is down:
  - `CommitsWell`: what a commit record of this era refers to comes before it in
    its file, or cannot be lost (`Survives`, `Safe`), and it is firm itself (synced,
    or there when the store was opened: `Firm`) unless it is the one under way;
  - `Offering`: the commit under way is offered, with a generation that is
    above that of the commit records in other volumes;
  - `Behind`: what a power failure can take away is in the tip's file only;
  - `Recovers`: the search of `Open` comes to the last acknowledged commit now,
    and after a crash to that one or to the one under way, for every outcome
    that the crash may have;
  - `Hints`: a header that names its own volume names a commit record, and while the
    store is down each volume that has commits ends with one or has a header that
    names one, its own or another volume's (where `Open` panics, if it comes to it).

`RecoveryKept` has one lemma per action (`RecoveryHolds` is the temporal step).
TLC had found the invariant true in the instance of `store` before it was proved.

| Theorem | Property |
|---|---|
| `TypeCorrect` | `TypeOK` |
| `ReadsWhatWasWritten` | `ReadsSeeWrites` |
| `CommitsStayReadable` | `EveryCommitReadable` |
| `HeadersPointBack` | `HeaderPointsBack` |
| `OpensUnlessAstray` | `OpensAgain`: unless a header that is needed names another volume |
| `CommitsSurviveCrashes` | `CommitsSurvive` |

`CommitsSurviveCrashes` maps `Write` and a move to the tip, which writes the
record again, to `Change`, `Delete` to `Change` with `Absent`, `CommitRecord` to
`Offer`, `CommitSync` to `Acknowledge`, `Rewind` to `Return`, the death of the
process and the power failure to `Crash`, `Open` to `Recover`, and the rest to a
stutter.

### The ports

`Ports_proofs!EventTypes` proves `TypeOK` of `EventPoll` for every value of the
constants, with no assumption on clients. The inductive invariant is

    TypeInv == TypeOK /\ Waiting /\ Selecting

`Waiting` says that a thread is in the queue of one port at most, once, and is
`flushing` that port: a poll sets the task of everybody it takes out of a queue,
and counts what they waited for as flushed, which is a byte of the port only if
they did. `Selecting` says the same of select events.

What is proved of the bytes rests on

    EventInv == TypeInv /\ PortsSound /\ Closers

`PortsSound` says of each port four things that need each other:

- there is a write event if and only if something is pending, and what comes
  first in the queue is data (`Begins`): a direct write overtakes nothing
  because without an event nothing is pending;
- what was sent, what is pending and what is in the buffer are the bytes
  written so far, in order, without those that were given up (`Ordered`);
- for each thread in the queue, the bytes it waits for were sent or given up or
  lie in front of it (`Covered`), which is how a write event that deals with so
  many items knows that the threads among them are right to go on;
- and so are all bytes known as flushed.

`Closers` says that whoever closes a port has emptied its buffer, unless the
flush has failed: closing gives up what is in it.
`OutputCursor_proofs` computes what each primitive does to such a port:
`BufferWritten`, `DirectlyWritten`, `BuffersFilled`, `BytesWritten`, `VectorWritten`
and `AllFlushed` for the side that writes, `EventHandled` (four outcomes),
`BytesLeft` and `CoveredUnwritten` for the write event. Recursive functions are
shown to be defined (`Iterates`), for vectors of any length, and facts about them
proved by taking the least number at which they fail (`FromZero`), as the
library's induction theorems cannot be used. `Ports_proofs` has one lemma for
each action. TLC finds `EventInv` true in the instance of `ports`.

| Theorem | Property | Assumes |
|---|---|---|
| `EventTypes` | `TypeOK` | |
| `BytesKeepOrder` | `BytesInOrder` | `Disciplined` |
| `PendingHasEvent` | `EventWhilePending` | `Disciplined` |
| `FlushKeepsPromise` | `FlushedIsSent` | `Disciplined` |

`Disciplined` says that no port has an error-proc and that nobody writes to a
port that another thread is closing. With an error-proc, an error of a write event
leaves pending writes without an event (section 6); a thread that writes while
another closes puts bytes into a buffer that is about to be dropped. Threads that
are halted while they wait and many selects at a time are allowed.

### Model-checked only

`FirstComeFirstServed`, `MailboxesImplemented` and `FullCollectFrees`.
Liveness under fairness and ENABLED are out of the prover's reach:
`ReadyThreadRuns`, `SleeperWakes`, `FlushersReleased`, `ReadersServed`,
`SelectorsServed` and `FinalizersHandedOver` stay with TLC.

## 8. Not modelled

Threads: due times and the order of the event list; billed CPU time, thread
variables and thread groups; error handlers that the dispatcher runs;
`thread-suspend-and-unqueue`, which has no caller; self-joins. Mutexes, critical
sections and pools are client code of what is modelled, with hazards of their
own (section 9).

Ports: services, connecting sockets, packets, exception events and the events of
X11, which use the same lists; the suspension of a thread that flushes; how data
become strings.

Store: the flags of volumes in index lines, the allocation of record numbers,
compression, lazy loading of index lines, `lss_record_query`, torn writes, and
version 2 of the format.

Heap: older generations and promotion (disabled in the code), marked objects, size
classes and the allocator's free lists, budgets as numbers, the hooks of the
persistent collector. A bucket is a set. rtgc, an alternative collector that is
not configured by default, is not modelled.

rstore's paging and swizzling, as far as the collector does not see it. The
compiler, the byte code interpreter and the libraries are sequential translators
and algorithms over large data: their correctness is a matter of input and
output that tests reach better than a model checker. `stage0` is generated from
the other components.

## 9. Plan

1. Done: the thread manager's core; the log structured store; queued output and
   descriptor events; the irc collector with finalization; their refinements.
2. `Mutex`: `mutex-lock!`, `mutex-unlock!` and `condition-test-and-alter` at the
   grain of primitives, on an abstract semaphore: at most one owner, and what two
   unlocks at a time do.
3. `Dequeue`: the ring buffer of `handc/runtime/dequeue.c` (growth, wrap-around,
   `dequeue_delq`) as an implementation of a sequence.
4. `SignalQueue`: handlers against safe points, overflow, `os_halt_timer`.
5. rstore: a commit against threads that write, and the two stores below it.
6. Proofs: `FirstComeFirstServed`; the steps of `MailboxesImplemented`;
   `FullCollectFrees`, which needs what was reachable when the second run began.
