---------------------------- MODULE HeapMutator ----------------------------
(***************************************************************************)
(* The heap under RScheme's default collector, IRC (handc/cfg/gc/irc,      *)
(* handc/cfg/gcadapt/irc), and what the program does to it: it allocates,  *)
(* loads, stores through the write barrier, stores into the pages of       *)
(* persistent stores (packages/rstore/util.c), commits them, and takes     *)
(* signals.  The collector is in IncrementalCollector.                     *)
(*                                                                         *)
(* The collector works only at safe points, and between two of them the    *)
(* program runs alone: a barrier and the store that follows it are one     *)
(* step, and every step of the program has ~running for a guard.           *)
(*                                                                         *)
(* The colour of an object stands for its place in the lists of its size   *)
(* class and for the colour bit of its header, which is the same for a     *)
(* gray object as for a black one.  The order of the lists is abstracted.  *)
(***************************************************************************)
EXTENDS Integers, FiniteSets, Sequences

CONSTANTS
    Objects,        \* the storage for transient objects
    WeakObjects,    \* of heap type 4: the first slot is weak
    Finalizable,    \* objects of classes with a `finalize' method
    Slots,          \* the slots of an object
    FirstSlot,      \* the first one
    NStable,        \* cells 1..NStable are module roots,
    NRegs,          \* NStable+1..NRegs the registers,
    NCells,         \* NRegs+1..NCells the stack cache
    Stores,         \* persistent stores
    PSlots,         \* slots of persistent objects, each on a page of its own
    StoreOf,        \* the store that a slot belongs to
    Nil,            \* anything that is not a pointer to a transient object
    BucketSize,     \* IRC_PTR_BUCKET_SIZE
    MaxBuckets,     \* buckets of externals that an attempt to terminate pays for
    MaxSig,         \* max_sig
    Risks           \* behaviour beyond the discipline of the clients

Cells  == 1..NCells
Colors == {"free", "white", "gray", "black"}

(* What the code does not defend itself against: a store is committed or   *)
(* closed while another one, or itself, has uncommitted pointers into the  *)
(* transient heap; more such pointers than an attempt to terminate scans;  *)
(* a collection starts with too many signals waiting.                      *)
AllRisks == {"commit one of several", "close uncommitted", "many externals",
             "signals waiting"}

(* Where the collector is: gen->state, and the places inside run_gen where *)
(* it can be while it runs.                                                *)
Saved  == {"IDLE", "STABLE_SCAN", "TRAVERSE_1", "QUASISTABLE_SCAN", "TRAVERSE_3",
           "UNSTABLE_SCAN", "TRAVERSE_4", "XHEAP_SCAN", "REBLACKEN", "TRAVERSE_5"}
Phases == Saved \cup {"REBLACKENING", "TERMINATE", "TERMINATE_X", "TERMINATE_T", "RETURN"}

ASSUME ObjectsAssumption ==
    /\ IsFiniteSet(Objects) /\ WeakObjects \subseteq Objects /\ Finalizable \subseteq Objects
    /\ FirstSlot \in Slots /\ Nil \notin Objects

ASSUME RootsAssumption ==
    NStable \in Nat /\ NRegs \in Nat /\ NCells \in Nat /\ NStable <= NRegs /\ NRegs <= NCells

ASSUME StoresAssumption == StoreOf \in [PSlots -> Stores] /\ Nil \notin Stores

ASSUME SizesAssumption ==
    BucketSize \in Nat \ {0} /\ MaxBuckets \in Nat /\ MaxSig \in Nat /\ MaxSig >= 2

ASSUME RisksAssumption == Risks \subseteq AllRisks

VARIABLES
    heap,           \* the slots of transient objects
    color,          \* the list an object is in
    cell,           \* roots: what the cells hold
    regray,         \* gen->regrayObjects, a list of buckets
    pslot,          \* the slots of persistent objects, as far as they are transient
    noted,          \* the bit of a slot in gc_flag_bits or dirty_cards
    open,           \* the stores that are mapped
    externals,      \* gen->extraHeapPointers, a list of buckets
    fzable,         \* registered for finalization, not handed over
    wkslot,         \* weak objects that were scanned in this cycle
    sigq,           \* the signal queue: a FINALIZE's objects, {} for GC_FLIP
    finlist,        \* the list that the finalization handler works on
    running,        \* the collector has been entered at a safe point
    phase,          \* gstate, and where in it
    state,          \* gen->state
    next,           \* the root iterator: the next cell
    xiter,          \* iterator.externals: the number of a bucket, 0 for NULL
    fullgc,         \* IRC_fullCollect: "no", or its "first" or "second" run
    closing         \* the store that rstore_close collects for, or Nil

program   == <<heap, cell, pslot, noted, open, fzable, finlist>>
collector == <<running, phase, state, next, fullgc, closing>>
vars      == <<heap, color, cell, regray, pslot, noted, open, externals, fzable, wkslot,
               sigq, finlist, running, phase, state, next, xiter, fullgc, closing>>

Weak(o, s)  == o \in WeakObjects /\ s = FirstSlot
Listed(l)   == UNION {l[i] : i \in 1..Len(l)}
Allocated   == {o \in Objects : color[o] # "free"}
InHand      == {cell[c] : c \in Cells}
SlotsOf(st) == {x \in PSlots : StoreOf[x] = st}

(* IRC_ptrListAdd: a new bucket is linked in when the last one is full.    *)
(* (A bucket is a set here: an entry that is there twice counts once.)     *)
ListAdd(l, x) ==
    IF l # <<>> /\ Cardinality(l[Len(l)]) < BucketSize
    THEN [l EXCEPT ![Len(l)] = @ \cup {x}]
    ELSE Append(l, {x})

-----------------------------------------------------------------------------
(* IRC_getBlock: the first free block becomes the last white one.  Nothing *)
(* is collected between the allocation and the initializing writes.        *)
Allocate(c, o) ==
    /\ ~running
    /\ color[o] = "free"
    /\ color' = [color EXCEPT ![o] = "white"]
    /\ heap' = [heap EXCEPT ![o] = [s \in Slots |-> Nil]]
    /\ cell' = [cell EXCEPT ![c] = o]
    /\ UNCHANGED <<regray, pslot, noted, open, externals, fzable, wkslot, sigq, finlist, xiter>>
    /\ UNCHANGED collector

(* A register or a stack slot is set to what can be reached in one step;   *)
(* no barrier.                                                             *)
SetCell(c, v) ==
    /\ ~running
    /\ v \in InHand \cup {Nil} \cup {pslot[x] : x \in {y \in PSlots : StoreOf[y] \in open}}
             \cup {heap[o][s] : o \in InHand \ {Nil}, s \in Slots}
    /\ cell' = [cell EXCEPT ![c] = v]
    /\ UNCHANGED <<heap, color, regray, pslot, noted, open, externals, fzable, wkslot, sigq,
                   finlist, xiter>>
    /\ UNCHANGED collector

WriteBarrier_swapped(l, r) ==
    IF r # Nil /\ color[l] = "white" /\ color[r] \in {"gray", "black"} /\ l \notin Listed(regray)
    THEN ListAdd(regray, l) ELSE regray

(* IRC_tripWriteBarrier for WB_COLOR: a white object is about to be stored *)
(* into one that has been seen, which is put on the regray list, once.     *)
WriteBarrier(l, r) ==
    IF r # Nil /\ color[l] \in {"gray", "black"} /\ color[r] = "white" /\ l \notin Listed(regray)
    THEN ListAdd(regray, l) ELSE regray

(* gvec_write: the barrier, then the store.                                *)
Store(l, s, v) ==
    /\ ~running
    /\ l \in InHand \ {Nil}
    /\ v \in InHand \cup {Nil}
    /\ regray' = IF v = Nil THEN regray ELSE WriteBarrier(l, v)
    /\ heap' = [heap EXCEPT ![l][s] = v]
    /\ UNCHANGED <<color, cell, pslot, noted, open, externals, fzable, wkslot, sigq, finlist, xiter>>
    /\ UNCHANGED collector

-----------------------------------------------------------------------------
(* store_into_pstore and rstore_write_barrier: the address of the slot is  *)
(* listed unless the bit says that it is.                                  *)
StorePersistent(x, v) ==
    /\ ~running
    /\ StoreOf[x] \in open
    /\ v \in InHand \cup {Nil}
    /\ pslot' = [pslot EXCEPT ![x] = v]
    /\ IF v # Nil /\ ~noted[x]
       THEN /\ noted' = [noted EXCEPT ![x] = TRUE]
            /\ externals' = ListAdd(externals, x)
            /\ Len(externals') <= MaxBuckets \/ "many externals" \in Risks
       ELSE UNCHANGED <<noted, externals>>
    /\ UNCHANGED <<heap, color, cell, regray, open, fzable, wkslot, sigq, finlist, xiter>>
    /\ UNCHANGED collector

(* A commit that finds transient objects that are to be copied into the    *)
(* store first (write_dirty_pages): pages written before keep clean bits.  *)
CommitFails(st, written) ==
    /\ ~running
    /\ st \in open
    /\ \E x \in SlotsOf(st) : pslot[x] # Nil
    /\ written \subseteq {x \in SlotsOf(st) : pslot[x] = Nil}
    /\ noted' = [x \in PSlots |-> noted[x] /\ x \notin written]
    /\ UNCHANGED <<heap, color, cell, regray, pslot, open, externals, fzable, wkslot, sigq,
                   finlist, xiter>>
    /\ UNCHANGED collector

Commit_iterator(st) ==
    /\ ~running
    /\ st \in open
    /\ \A x \in SlotsOf(st) : pslot[x] = Nil
    /\ noted' = [x \in PSlots |-> noted[x] /\ StoreOf[x] # st]
    /\ externals' = <<>>
    /\ UNCHANGED <<heap, color, cell, regray, pslot, open, fzable, wkslot, sigq, finlist, xiter>>
    /\ UNCHANGED collector

(* rstore_commit when nothing is left that the store must copy, with       *)
(* irc_pstore_gen_did_commit, which empties the list of the transient      *)
(* generation, and its iterator if it is in use.                           *)
Commit(st) ==
    /\ ~running
    /\ st \in open
    /\ \A x \in SlotsOf(st) : pslot[x] = Nil
    /\ (\A x \in PSlots \ SlotsOf(st) : ~noted[x] /\ pslot[x] = Nil)
           \/ "commit one of several" \in Risks
    /\ noted' = [x \in PSlots |-> noted[x] /\ StoreOf[x] # st]
    /\ externals' = <<>>
    /\ xiter' = IF state = "XHEAP_SCAN" THEN 0 ELSE xiter
    /\ UNCHANGED <<heap, color, cell, regray, pslot, open, fzable, wkslot, sigq, finlist>>
    /\ UNCHANGED collector

-----------------------------------------------------------------------------
(* mark_as_finalizable.  (The list would take an object twice.)            *)
RegisterForFinalization(o) ==
    /\ ~running
    /\ o \in InHand \cap Finalizable
    /\ o \notin fzable
    /\ fzable' = fzable \cup {o}
    /\ UNCHANGED <<heap, color, cell, regray, pslot, noted, open, externals, wkslot, sigq,
                   finlist, xiter>>
    /\ UNCHANGED collector

(* dispatch_interrupt: the list of a FINALIZE goes to the handler in REG0. *)
TakeSignal ==
    /\ ~running
    /\ sigq # <<>>
    /\ finlist' = finlist \cup Head(sigq)
    /\ sigq' = Tail(sigq)
    /\ UNCHANGED <<heap, color, cell, regray, pslot, noted, open, externals, fzable, wkslot, xiter>>
    /\ UNCHANGED collector

(* handle-finalization calls `finalize' with the object, which may keep it.*)
Finalize(o, c) ==
    /\ ~running
    /\ o \in finlist
    /\ finlist' = finlist \ {o}
    /\ cell' \in {cell, [cell EXCEPT ![c] = o]}
    /\ UNCHANGED <<heap, color, regray, pslot, noted, open, externals, fzable, wkslot, sigq, xiter>>
    /\ UNCHANGED collector

MutatorStep ==
    \/ \E c \in Cells :
           \/ \E o \in Objects : Allocate(c, o) \/ Finalize(o, c)
           \/ \E v \in Objects \cup {Nil} : SetCell(c, v)
    \/ \E l \in Objects, s \in Slots, v \in Objects \cup {Nil} : Store(l, s, v)
    \/ \E x \in PSlots, v \in Objects \cup {Nil} : StorePersistent(x, v)
    \/ \E st \in Stores : Commit(st) \/ \E written \in SUBSET PSlots : CommitFails(st, written)
    \/ \E o \in Objects : RegisterForFinalization(o)
    \/ TakeSignal
=============================================================================
