------------------------------ MODULE HeapSpec ------------------------------
(***************************************************************************)
(* What the collector promises: a graph of objects, some of which the      *)
(* program holds.  The program changes the graph through what it can get   *)
(* hold of; objects it cannot get hold of disappear, some day, and those   *)
(* among them that are registered for finalization are handed over first.  *)
(* No colours, no increments, no write barrier.  CollectedHeap implements  *)
(* it.                                                                     *)
(***************************************************************************)
CONSTANTS
    Objects,        \* the storage for objects
    WeakObjects,    \* those whose first slot does not keep its value alive
    Slots,          \* the slots of an object
    FirstSlot,      \* the first one
    Nil             \* what is not a pointer

VARIABLES
    heap,           \* what the slots of the objects hold
    alloc,          \* the objects that exist
    held,           \* what variables, registers and pages of stores hold
    fzable,         \* registered for finalization
    queue           \* handed over, not yet taken by the program

vars == <<heap, alloc, held, fzable, queue>>

Weak(o, s) == o \in WeakObjects /\ s = FirstSlot

(* A set that leads nowhere else, through strong slots or through all.     *)
Closed(S)     == \A o \in S, s \in Slots :
                     Weak(o, s) \/ heap[o][s] \in S \cup {Nil}
FullClosed(S) == \A o \in S, s \in Slots : heap[o][s] \in S \cup {Nil}

(* The objects to which a path leads from a set of objects: those in every *)
(* closed set around it.  A program can also follow weak slots.            *)
Reachable(from) ==
    {o \in alloc : \A S \in SUBSET Objects : from \subseteq S /\ Closed(S) => o \in S}
Usable(from) ==
    {o \in alloc : \A S \in SUBSET Objects : from \subseteq S /\ FullClosed(S) => o \in S}

Init ==
    /\ heap = [o \in Objects |-> [s \in Slots |-> Nil]]
    /\ alloc = {}
    /\ held = {}
    /\ fzable = {}
    /\ queue = {}

(* The program allocates, loads, stores, registers, and takes what has     *)
(* been handed over.                                                       *)
Program ==
    LET hand == Usable(held \cup queue) \cup (alloc' \ alloc)
    IN  /\ alloc \subseteq alloc'
        /\ held' \subseteq hand
        /\ \A o \in alloc, s \in Slots :
               heap'[o][s] # heap[o][s] => o \in hand /\ heap'[o][s] \in hand \cup {Nil}
        /\ \A o \in alloc' \ alloc, s \in Slots : heap'[o][s] \in hand \cup {Nil}
        /\ fzable \subseteq fzable' /\ fzable' \subseteq fzable \cup hand
        /\ queue' \subseteq queue

HandOver(S) ==
    /\ S \cap Reachable(held \cup queue) = {}
    /\ fzable' = fzable \ S
    /\ queue' = queue \cup S
    /\ UNCHANGED <<heap, alloc, held>>

(* The objects of S disappear, and with them the weak references to them.  *)
Collect(S) ==
    /\ S \cap Reachable(held \cup queue \cup fzable) = {}
    /\ alloc' = alloc \ S
    /\ \A o \in alloc', s \in Slots :
           heap'[o][s] = IF Weak(o, s) /\ heap[o][s] \in S THEN Nil ELSE heap[o][s]
    /\ UNCHANGED <<held, fzable, queue>>

Next ==
    \/ Program
    \/ \E S \in SUBSET fzable : HandOver(S)
    \/ \E S \in SUBSET alloc : Collect(S)

Spec == Init /\ [][Next]_vars
=============================================================================
