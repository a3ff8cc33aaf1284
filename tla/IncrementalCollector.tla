------------------------ MODULE IncrementalCollector ------------------------
(***************************************************************************)
(* The collector itself: run_gen of handc/cfg/gc/irc/traverse.c, entered   *)
(* from IRC_safePoint with a budget or from IRC_fullCollect without one,   *)
(* and gc_cycle_finish_ok of handc/runtime/finalize.c at the end of a      *)
(* cycle.  A step is what the code does between two looks at the budget:   *)
(* one root, one object, one bucket.                                       *)
(*                                                                         *)
(* The sequence of a cycle, and where each phase leaves gen->state:        *)
(*                                                                         *)
(*   STABLE_SCAN -> TRAVERSE_1 -> QUASISTABLE_SCAN -> TRAVERSE_3           *)
(*     -> UNSTABLE_SCAN -> TRAVERSE_4 -> XHEAP_SCAN -> (REBLACKEN)         *)
(*     -> regrayed objects, TRAVERSE_5, XHEAP_SCAN, ... or                 *)
(*     -> TERMINATE, all roots and externals again, and the flip.          *)
(*                                                                         *)
(* Generations older than the first are never filled (promotion is         *)
(* disabled), the scans of IGPs and marked objects find nothing.           *)
(***************************************************************************)
EXTENDS HeapMutator

RootScans  == {"STABLE_SCAN", "QUASISTABLE_SCAN", "UNSTABLE_SCAN"}
Traversals == {"TRAVERSE_1", "TRAVERSE_3", "TRAVERSE_4", "TRAVERSE_5", "TERMINATE_T"}

(* The root iterators.  The last of them goes through the stack cache and  *)
(* then through the lists of finalizable objects in the signal queue.      *)
LastRoot ==
    CASE phase = "STABLE_SCAN"      -> NStable
      [] phase = "QUASISTABLE_SCAN" -> NRegs
      [] OTHER                      -> NCells + 1

RootsAt_registered(n) ==
    IF n \in Cells THEN {cell[n]} ELSE Listed(sigq) \cup finlist \cup fzable

RootsAt(n) == IF n \in Cells THEN {cell[n]} ELSE Listed(sigq) \cup finlist

(* IRC_foundPointer for what is white among some pointers.                 *)
Shaded(col, S) == [o \in Objects |-> IF o \in S /\ col[o] = "white" THEN "gray" ELSE col[o]]

Strong_all(o) == {heap[o][s] : s \in Slots}

(* IRC_clientFindPointers: a weak slot is noted, and not followed.         *)
Strong(o) == {heap[o][s] : s \in {x \in Slots : ~Weak(o, x)}}

StrongFrom(S)     == UNION {Strong(o) : o \in S}
PointersIn(slots) == {pslot[x] : x \in slots}

-----------------------------------------------------------------------------
(* IRC_safePoint: the program has allocated enough to pay for an increment.*)
SignalsFit == Len(sigq) + 2 <= MaxSig \/ "signals waiting" \in Risks

StartIncrement ==
    /\ ~running
    /\ SignalsFit
    /\ running' = TRUE
    /\ phase' = state
    /\ UNCHANGED <<program, color, regray, externals, wkslot, sigq, state, next, xiter,
                   fullgc, closing>>

(* gc_now, a full collection: what is under way is finished, then done     *)
(* again from its end.                                                     *)
GcNow ==
    /\ ~running
    /\ SignalsFit
    /\ running' = TRUE
    /\ phase' = state
    /\ fullgc' = "first"
    /\ UNCHANGED <<program, color, regray, externals, wkslot, sigq, state, next, xiter, closing>>

(* rstore_close collects first, in rstore_check_unmappable.                *)
CloseStore(st) ==
    /\ ~running
    /\ SignalsFit
    /\ st \in open
    /\ (\A x \in SlotsOf(st) : ~noted[x] /\ pslot[x] = Nil) \/ "close uncommitted" \in Risks
    /\ running' = TRUE
    /\ phase' = state
    /\ fullgc' = "first"
    /\ closing' = st
    /\ UNCHANGED <<program, color, regray, externals, wkslot, sigq, state, next, xiter>>

(* The budget of an increment is used up.  An attempt to terminate that    *)
(* runs out of it leaves the state REBLACKEN behind.                       *)
OutOfTime ==
    /\ running
    /\ fullgc = "no"
    /\ phase # "RETURN"
    /\ phase' = "RETURN"
    /\ state' = IF phase \in {"TERMINATE", "TERMINATE_T"} THEN "REBLACKEN" ELSE state
    /\ UNCHANGED <<program, color, regray, externals, wkslot, sigq, running, next, xiter,
                   fullgc, closing>>

(* run_gen returns: to the program, or to IRC_fullCollect, which runs it   *)
(* again in the state REBLACKEN.  A store that was to be closed goes.      *)
Return ==
    /\ running
    /\ phase = "RETURN"
    /\ IF fullgc = "first"
       THEN /\ phase' = "REBLACKEN"
            /\ state' = "REBLACKEN"
            /\ fullgc' = "second"
            /\ UNCHANGED <<open, running, closing>>
       ELSE /\ running' = FALSE
            /\ fullgc' = "no"
            /\ open' = open \ {closing}
            /\ closing' = Nil
            /\ UNCHANGED <<phase, state>>
    /\ UNCHANGED <<heap, cell, pslot, noted, fzable, finlist, color, regray, externals, wkslot,
                   sigq, next, xiter>>

-----------------------------------------------------------------------------
(* startGenCollection.  The increment ends with it.                        *)
StartCycle ==
    /\ running
    /\ phase = "IDLE"
    /\ phase' = "RETURN"
    /\ state' = "STABLE_SCAN"
    /\ next' = 1
    /\ UNCHANGED <<program, color, regray, externals, wkslot, sigq, running, xiter, fullgc,
                   closing>>

(* run_stable_scan, run_quasistable_scan, run_unstable_scan, and the three *)
(* in a row in attempt_termination.                                        *)
ScanRoot ==
    /\ running
    /\ phase \in RootScans \cup {"TERMINATE"}
    /\ next <= LastRoot
    /\ color' = Shaded(color, RootsAt(next))
    /\ next' = next + 1
    /\ UNCHANGED <<program, regray, externals, wkslot, sigq, running, phase, state, xiter,
                   fullgc, closing>>

RootsScanned ==
    /\ running
    /\ phase \in RootScans
    /\ next > LastRoot
    /\ phase' = CASE phase = "STABLE_SCAN"      -> "TRAVERSE_1"
                  [] phase = "QUASISTABLE_SCAN" -> "TRAVERSE_3"
                  [] phase = "UNSTABLE_SCAN"    -> "TRAVERSE_4"
    /\ state' = phase'
    /\ UNCHANGED <<program, color, regray, externals, wkslot, sigq, running, next, xiter,
                   fullgc, closing>>

(* IRC_blackenGenerationGrays takes a gray object.                         *)
Blacken(g) ==
    /\ running
    /\ phase \in Traversals
    /\ color[g] = "gray"
    /\ color' = Shaded([color EXCEPT ![g] = "black"], Strong(g))
    /\ wkslot' = wkslot \cup ({g} \cap WeakObjects)
    /\ UNCHANGED <<program, regray, externals, sigq, running, phase, state, next, xiter,
                   fullgc, closing>>

NoGray == \A o \in Objects : color[o] # "gray"

Traversed ==
    /\ running
    /\ phase \in Traversals \ {"TERMINATE_T"}
    /\ NoGray
    /\ CASE phase = "TRAVERSE_1" -> /\ phase' = "QUASISTABLE_SCAN"
                                    /\ next' = NStable + 1
                                    /\ UNCHANGED xiter
         [] phase = "TRAVERSE_3" -> /\ phase' = "UNSTABLE_SCAN"
                                    /\ next' = NRegs + 1
                                    /\ UNCHANGED xiter
         [] OTHER                -> /\ phase' = "XHEAP_SCAN"
                                    /\ xiter' = IF externals = <<>> THEN 0 ELSE 1
                                    /\ UNCHANGED next
    /\ state' = phase'
    /\ UNCHANGED <<program, color, regray, externals, wkslot, sigq, running, fullgc, closing>>

-----------------------------------------------------------------------------
(* run_externals_scan scans a bucket while the budget pays for a whole one.*)
ScanBucket ==
    /\ running
    /\ phase = "XHEAP_SCAN"
    /\ xiter # 0
    /\ color' = Shaded(color, PointersIn(externals[xiter]))
    /\ xiter' = IF xiter < Len(externals) THEN xiter + 1 ELSE 0
    /\ UNCHANGED <<program, regray, externals, wkslot, sigq, running, phase, state, next,
                   fullgc, closing>>

(* It returns with what is left of the budget, whether it is done or not,  *)
(* and the code falls through, without saving the state.                   *)
LeaveBuckets ==
    /\ running
    /\ phase = "XHEAP_SCAN"
    /\ xiter = 0 \/ fullgc = "no"
    /\ phase' = "REBLACKEN"
    /\ UNCHANGED <<program, color, regray, externals, wkslot, sigq, running, state, next, xiter,
                   fullgc, closing>>

(* blacken_regrayed scans the objects of a bucket again, and frees it.     *)
Reblacken ==
    /\ running
    /\ phase \in {"REBLACKEN", "REBLACKENING"}
    /\ regray # <<>>
    /\ color' = Shaded(color, StrongFrom(Head(regray)))
    /\ wkslot' = wkslot \cup (Head(regray) \cap WeakObjects)
    /\ regray' = Tail(regray)
    /\ phase' = "REBLACKENING"
    /\ UNCHANGED <<program, externals, sigq, running, state, next, xiter, fullgc, closing>>

Reblackened ==
    /\ running
    /\ phase = "REBLACKENING"
    /\ regray = <<>>
    /\ phase' = "TRAVERSE_5"
    /\ state' = "TRAVERSE_5"
    /\ UNCHANGED <<program, color, regray, externals, wkslot, sigq, running, next, xiter,
                   fullgc, closing>>

StartTermination ==
    /\ running
    /\ phase = "REBLACKEN"
    /\ regray = <<>>
    /\ phase' = "TERMINATE"
    /\ next' = 1
    /\ UNCHANGED <<program, color, regray, externals, wkslot, sigq, running, state, xiter,
                   fullgc, closing>>

TerminateExternals_none ==
    /\ running
    /\ phase = "TERMINATE"
    /\ next > LastRoot
    /\ phase' = "TERMINATE_T"
    /\ UNCHANGED <<program, color, regray, externals, wkslot, sigq, running, state, next, xiter,
                   fullgc, closing>>

(* The externals that attempt_termination pays for, whatever the budget.   *)
TerminateExternals ==
    /\ running
    /\ phase = "TERMINATE"
    /\ next > LastRoot
    /\ LET paid == {i \in 1..Len(externals) : i <= MaxBuckets}
       IN  color' = Shaded(color, PointersIn(UNION {externals[i] : i \in paid}))
    /\ xiter' = IF Len(externals) > MaxBuckets THEN MaxBuckets + 1 ELSE 0
    /\ phase' = "TERMINATE_T"
    /\ UNCHANGED <<program, regray, externals, wkslot, sigq, running, state, next, fullgc,
                   closing>>

-----------------------------------------------------------------------------
(* os_enqueue_sig: a signal that finds the queue full is dropped.          *)
Enqueued(list) == IF Len(sigq) < MaxSig THEN Append(sigq, list) ELSE sigq

White(o)   == o \in Objects /\ color[o] = "white"
Terminated == running /\ phase = "TERMINATE_T" /\ NoGray

(* gc_cycle_finish_ok answers NO: finalizable objects have not been found. *)
(* They are handed over, and the next increment terminates again.          *)
HandOver ==
    LET dead == {o \in fzable : White(o)}
    IN  /\ Terminated
        /\ dead # {}
        /\ fzable' = fzable \ dead
        /\ sigq' = Enqueued(dead)
        /\ phase' = "RETURN"
        /\ UNCHANGED <<heap, cell, pslot, noted, open, finlist, color, regray, externals, wkslot,
                       running, state, next, xiter, fullgc, closing>>

Flip_allWeak ==
    LET lost(o, s) == o \in wkslot /\ s = FirstSlot
    IN  /\ Terminated
        /\ \A o \in fzable : ~White(o)
        /\ heap' = [o \in Objects |-> [s \in Slots |->
                       IF White(o) \/ lost(o, s) THEN Nil ELSE heap[o][s]]]
        /\ color' = [o \in Objects |-> IF color[o] = "black" THEN "white" ELSE "free"]
        /\ wkslot' = {}
        /\ sigq' = Enqueued({})
        /\ phase' = "RETURN"
        /\ state' = "STABLE_SCAN"
        /\ next' = 1
        /\ UNCHANGED <<cell, pslot, noted, open, fzable, finlist, regray, externals, running,
                       xiter, fullgc, closing>>

(* It answers YES: weak slots lose what was not found, generationFlip      *)
(* frees it and makes what was found white, and the next cycle starts.     *)
(* (What a free object holds is not looked at.)                            *)
Flip ==
    LET lost(o, s) == o \in wkslot /\ s = FirstSlot /\ White(heap[o][s])
    IN  /\ Terminated
        /\ \A o \in fzable : ~White(o)
        /\ heap' = [o \in Objects |-> [s \in Slots |->
                       IF White(o) \/ lost(o, s) THEN Nil ELSE heap[o][s]]]
        /\ color' = [o \in Objects |-> IF color[o] = "black" THEN "white" ELSE "free"]
        /\ wkslot' = {}
        /\ sigq' = Enqueued({})
        /\ phase' = "RETURN"
        /\ state' = "STABLE_SCAN"
        /\ next' = 1
        /\ UNCHANGED <<cell, pslot, noted, open, fzable, finlist, regray, externals, running,
                       xiter, fullgc, closing>>

(* What the collector does once it has been entered.                       *)
CollectorStep ==
    \/ OutOfTime \/ Return \/ StartCycle
    \/ ScanRoot \/ RootsScanned
    \/ (\E g \in Objects : Blacken(g)) \/ Traversed
    \/ ScanBucket \/ LeaveBuckets
    \/ Reblacken \/ Reblackened
    \/ StartTermination \/ TerminateExternals
    \/ HandOver \/ Flip

Entered == StartIncrement \/ GcNow \/ \E st \in Stores : CloseStore(st)
=============================================================================
