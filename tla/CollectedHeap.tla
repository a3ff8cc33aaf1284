--------------------------- MODULE CollectedHeap ---------------------------
(***************************************************************************)
(* The program and the incremental collector together, what must be true   *)
(* of them, and what they implement.                                       *)
(***************************************************************************)
EXTENDS IncrementalCollector

Init ==
    /\ heap = [o \in Objects |-> [s \in Slots |-> Nil]]
    /\ color = [o \in Objects |-> "free"]
    /\ cell = [c \in Cells |-> Nil]
    /\ regray = <<>>
    /\ pslot = [x \in PSlots |-> Nil]
    /\ noted = [x \in PSlots |-> FALSE]
    /\ open = Stores
    /\ externals = <<>>
    /\ fzable = {}
    /\ wkslot = {}
    /\ sigq = <<>>
    /\ finlist = {}
    /\ running = FALSE
    /\ phase = "RETURN"
    /\ state = "IDLE"
    /\ next = 1
    /\ xiter = 0
    /\ fullgc = "no"
    /\ closing = Nil

Next == MutatorStep \/ Entered \/ CollectorStep

Spec == Init /\ [][Next]_vars

(* The collector finishes what it has begun, signals are taken, and the    *)
(* program asks for a full collection again and again.                     *)
FairSpec == Spec /\ WF_vars(CollectorStep) /\ WF_vars(TakeSignal) /\ SF_vars(GcNow)

-----------------------------------------------------------------------------
TypeOK ==
    /\ heap \in [Objects -> [Slots -> Objects \cup {Nil}]]
    /\ color \in [Objects -> Colors]
    /\ cell \in [Cells -> Objects \cup {Nil}]
    /\ regray \in Seq(SUBSET Objects)
    /\ pslot \in [PSlots -> Objects \cup {Nil}]
    /\ noted \in [PSlots -> BOOLEAN]
    /\ open \subseteq Stores
    /\ externals \in Seq(SUBSET PSlots)
    /\ fzable \subseteq Objects
    /\ wkslot \subseteq WeakObjects
    /\ sigq \in Seq(SUBSET Objects)
    /\ finlist \subseteq Objects
    /\ running \in BOOLEAN
    /\ phase \in Phases
    /\ state \in Saved
    /\ next \in 1..(NCells + 2)
    /\ xiter \in Nat /\ (state = "XHEAP_SCAN" => xiter <= Len(externals))
    /\ fullgc \in {"no", "first", "second"}
    /\ closing \in open \cup {Nil}

(* What the program holds: in cells, in the pages of open stores, and in   *)
(* the finalization handler.                                               *)
OpenSlots == {x \in PSlots : StoreOf[x] \in open}
Held      == (InHand \cup PointersIn(OpenSlots) \cup finlist) \ {Nil}

(* Correctness is that nothing is reclaimed that could still be used (gc   *)
(* article): no root, no slot of an object in use, no finalization list    *)
(* holds an object that has been freed.  Every barrier, every scan and     *)
(* their order are for this.                                               *)
NoDangling ==
    /\ Held \cup Listed(sigq) \cup fzable \subseteq Allocated
    /\ \A o \in Allocated, s \in Slots : heap[o][s] \in Allocated \cup {Nil}

(* IRC's invariant: what has been scanned refers to nothing white, unless  *)
(* the barrier has listed it to be scanned again.                          *)
Tricolour ==
    \A o \in Objects : color[o] = "black" =>
        (\A v \in Strong(o) : ~White(v)) \/ o \in Listed(regray)

-----------------------------------------------------------------------------
(* What NoDangling rests on.                                               *)

(* Weak objects that have been scanned are known at the flip.              *)
WeakNoted == \A o \in WeakObjects : color[o] = "black" => o \in wkslot

(* Pointers from stores into the heap are on the list, and an attempt to   *)
(* terminate pays for the whole of it.                                     *)
PointersListed ==
    /\ \A x \in PSlots : pslot[x] # Nil \/ noted[x] => x \in Listed(externals)
    /\ Len(externals) <= MaxBuckets

(* An attempt to terminate starts with nothing to scan again, and goes     *)
(* from root to root while the program stands still.                       *)
Terminating ==
    /\ running \/ phase = "RETURN"
    /\ phase \in {"TERMINATE", "TERMINATE_T"} => regray = <<>>
    /\ \A n \in 1..(NCells + 1), v \in Objects :
           (phase = "TERMINATE" /\ n < next) \/ phase = "TERMINATE_T"
               => v \notin RootsAt(n) \/ ~White(v)
    /\ phase = "TERMINATE_T" => \A x \in OpenSlots : ~White(pslot[x])

CollectorInvariant ==
    TypeOK /\ NoDangling /\ Tricolour /\ WeakNoted /\ PointersListed /\ Terminating

-----------------------------------------------------------------------------
Promised == INSTANCE HeapSpec WITH alloc <- Allocated, held <- Held, queue <- Listed(sigq)

(* The heap is a graph from which only what cannot be reached disappears.  *)
HeapImplemented == Promised!Spec

(* After gc-now with no finalization pending, everything that is left is   *)
(* reachable (gcserver.h: "anything that's actually unreachable ... will   *)
(* be marked dead").                                                       *)
FullCollectFrees ==
    [][ fullgc = "second" /\ fullgc' = "no" /\ Listed(sigq) = {}
            => Allocated \subseteq Promised!Reachable(Held) ]_vars

(* What is registered and cannot be reached is handed over, or found again *)
(* through a weak slot, if the program collects again and again.           *)
Unclaimed(o) == o \in fzable /\ o \notin Promised!Reachable(Held \cup Listed(sigq))
FinalizersHandedOver == \A o \in Objects : Unclaimed(o) ~> ~Unclaimed(o)
=============================================================================
