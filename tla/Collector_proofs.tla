-------------------------- MODULE Collector_proofs --------------------------
(***************************************************************************)
(* That the collector frees nothing that is in use, for any number of      *)
(* objects, slots, roots, stores and signals, and any shapes of the lists, *)
(* and that CollectedHeap implements HeapSpec.                             *)
(***************************************************************************)
EXTENDS CollectedHeap, TLAPS, SequenceTheorems

-----------------------------------------------------------------------------
(* Lists of buckets.                                                       *)

LEMMA ListedIs ==
    ASSUME NEW S, NEW l \in Seq(SUBSET S)
    PROVE  /\ Listed(l) \subseteq S
           /\ \A x : x \in Listed(l) <=> \E i \in 1..Len(l) : x \in l[i]
  BY ElementOfSeq DEF Listed

LEMMA ListedEmpty == Listed(<<>>) = {}
  BY DEF Listed

(* A bucket at the end of a list.                                          *)
LEMMA ListedAppend ==
    ASSUME NEW S, NEW l \in Seq(SUBSET S), NEW B \in SUBSET S
    PROVE  /\ Append(l, B) \in Seq(SUBSET S)
           /\ Len(Append(l, B)) = Len(l) + 1
           /\ Listed(Append(l, B)) = Listed(l) \cup B
<1>1. /\ Append(l, B) \in Seq(SUBSET S)
      /\ Len(Append(l, B)) = Len(l) + 1
      /\ Len(l) \in Nat
      /\ \A i \in 1..Len(l) : Append(l, B)[i] = l[i]
      /\ Append(l, B)[Len(l) + 1] = B
  BY AppendProperties, LenProperties
<1>2. \A x : x \in Listed(Append(l, B)) <=> x \in Listed(l) \/ x \in B
  <2> TAKE x
  <2>1. x \in Listed(Append(l, B)) <=> \E i \in 1..(Len(l) + 1) : x \in Append(l, B)[i]
    BY <1>1, ListedIs
  <2>2. x \in Listed(l) <=> \E i \in 1..Len(l) : x \in l[i]
    BY ListedIs
  <2> QED  BY <1>1, <2>1, <2>2
<1> QED  BY <1>1, <1>2

(* The first bucket and the others.                                        *)
LEMMA ListedHead ==
    ASSUME NEW S, NEW l \in Seq(SUBSET S), l # <<>>
    PROVE  /\ Head(l) \in SUBSET S
           /\ Tail(l) \in Seq(SUBSET S)
           /\ Listed(l) = Head(l) \cup Listed(Tail(l))
<1>1. /\ Head(l) \in SUBSET S
      /\ Tail(l) \in Seq(SUBSET S)
      /\ Len(Tail(l)) = Len(l) - 1
      /\ \A i \in 1..Len(Tail(l)) : Tail(l)[i] = l[i + 1]
      /\ Len(l) \in Nat \ {0}
      /\ Head(l) = l[1]
  BY HeadTailProperties, EmptySeq
<1>2. \A x : x \in Listed(l) <=> x \in Head(l) \/ x \in Listed(Tail(l))
  <2> TAKE x
  <2>1. x \in Listed(l) <=> \E i \in 1..Len(l) : x \in l[i]
    BY ListedIs
  <2>2. x \in Listed(Tail(l)) <=> \E i \in 1..(Len(l) - 1) : x \in l[i + 1]
    BY <1>1, ListedIs
  <2>3. ASSUME NEW i \in 1..Len(l), x \in l[i]  PROVE x \in Head(l) \/ x \in Listed(Tail(l))
    <3>1. CASE i = 1
      BY <1>1, <2>3, <3>1
    <3>2. CASE i # 1
      <4>1. i - 1 \in 1..(Len(l) - 1) /\ x \in l[(i - 1) + 1]
        BY <1>1, <2>3, <3>2
      <4> QED  BY <2>2, <4>1
    <3> QED  BY <3>1, <3>2
  <2>4. ASSUME NEW i \in 1..(Len(l) - 1), x \in l[i + 1]  PROVE x \in Listed(l)
    <3>1. i + 1 \in 1..Len(l)
      BY <1>1
    <3> QED  BY <2>1, <2>4, <3>1
  <2>5. 1 \in 1..Len(l)
    BY <1>1
  <2> QED  BY <1>1, <2>1, <2>2, <2>3, <2>4, <2>5
<1> QED  BY <1>1, <1>2

(* IRC_ptrListAdd adds one entry.                                          *)
LEMMA ListAddAdds ==
    ASSUME NEW S, NEW l \in Seq(SUBSET S), NEW x \in S
    PROVE  /\ ListAdd(l, x) \in Seq(SUBSET S)
           /\ Len(l) <= Len(ListAdd(l, x))
           /\ \A y : y \in Listed(ListAdd(l, x)) <=> y \in Listed(l) \/ y = x
<1>0. Len(l) \in Nat
  BY LenProperties
<1>1. CASE l # <<>> /\ Cardinality(l[Len(l)]) < BucketSize
  <2> DEFINE n == Len(l)
             m == [l EXCEPT ![n] = @ \cup {x}]
  <2>1. n \in 1..Len(l) /\ l[n] \in SUBSET S
    BY <1>1, EmptySeq, ElementOfSeq
  <2>2. m = [l EXCEPT ![n] = l[n] \cup {x}] /\ l[n] \cup {x} \in SUBSET S
    BY <2>1
  <2>3. /\ m \in Seq(SUBSET S) /\ Len(m) = Len(l)
        /\ \A j \in 1..Len(l) : m[j] = IF j = n THEN l[n] \cup {x} ELSE l[j]
    BY <2>1, <2>2, ExceptSeq
  <2>4. ListAdd(l, x) = m
    BY <1>1 DEF ListAdd
  <2> HIDE DEF m, n
  <2>5. \A y : y \in Listed(m) <=> y \in Listed(l) \/ y = x
    <3> TAKE y
    <3>1. y \in Listed(m) <=> \E j \in 1..Len(l) : y \in m[j]
      BY <2>3, ListedIs
    <3>2. y \in Listed(l) <=> \E j \in 1..Len(l) : y \in l[j]
      BY ListedIs
    <3> QED  BY <2>1, <2>3, <3>1, <3>2
  <2> QED  BY <1>0, <2>3, <2>4, <2>5
<1>2. CASE ~(l # <<>> /\ Cardinality(l[Len(l)]) < BucketSize)
  <2>1. ListAdd(l, x) = Append(l, {x}) /\ {x} \in SUBSET S
    BY <1>2 DEF ListAdd
  <2> QED  BY <1>0, <2>1, ListedAppend
<1> QED  BY <1>1, <1>2

-----------------------------------------------------------------------------
(* Shading makes some white objects gray and does nothing else.            *)
LEMMA ShadedIs ==
    ASSUME NEW col \in [Objects -> Colors], NEW S
    PROVE  /\ Shaded(col, S) \in [Objects -> Colors]
           /\ \A o \in Objects :
                  /\ Shaded(col, S)[o] = "free" <=> col[o] = "free"
                  /\ Shaded(col, S)[o] = "white" <=> col[o] = "white" /\ o \notin S
                  /\ Shaded(col, S)[o] = "black" <=> col[o] = "black"
  BY DEF Shaded, Colors

(* The barrier keeps what is listed.                                       *)
LEMMA BarrierKeeps ==
    ASSUME NEW l \in Objects, NEW r, regray \in Seq(SUBSET Objects)
    PROVE  /\ WriteBarrier(l, r) \in Seq(SUBSET Objects)
           /\ Listed(regray) \subseteq Listed(WriteBarrier(l, r))
           /\ r # Nil /\ color[l] \in {"gray", "black"} /\ color[r] = "white"
                  => l \in Listed(WriteBarrier(l, r))
<1>1. ListAdd(regray, l) \in Seq(SUBSET Objects)
  BY ListAddAdds
<1>2. \A y : y \in Listed(ListAdd(regray, l)) <=> y \in Listed(regray) \/ y = l
  BY ListAddAdds
<1> QED  BY <1>1, <1>2 DEF WriteBarrier

LEMMA EnqueuedIs ==
    ASSUME NEW S \in SUBSET Objects, sigq \in Seq(SUBSET Objects)
    PROVE  /\ Enqueued(S) \in Seq(SUBSET Objects)
           /\ Listed(Enqueued(S)) \subseteq Listed(sigq) \cup S
  BY ListedAppend DEF Enqueued

-----------------------------------------------------------------------------
(* Types.                                                                  *)

LEMMA TypeMutator == TypeOK /\ MutatorStep => TypeOK'
<1> SUFFICES ASSUME TypeOK, MutatorStep PROVE TypeOK'
  OBVIOUS
<1> USE DEF TypeOK, program, collector
<1>1. ASSUME NEW c \in Cells, NEW o \in Objects, Allocate(c, o)  PROVE TypeOK'
  BY <1>1 DEF Allocate, Colors
<1>2. ASSUME NEW c \in Cells, NEW o \in Objects, Finalize(o, c)  PROVE TypeOK'
  BY <1>2 DEF Finalize
<1>3. ASSUME NEW c \in Cells, NEW v \in Objects \cup {Nil}, SetCell(c, v)  PROVE TypeOK'
  BY <1>3 DEF SetCell
<1>4. ASSUME NEW l \in Objects, NEW s \in Slots, NEW v \in Objects \cup {Nil}, Store(l, s, v)
      PROVE  TypeOK'
  <2>1. regray' \in Seq(SUBSET Objects)
    BY <1>4, BarrierKeeps DEF Store
  <2> QED  BY <1>4, <2>1 DEF Store
<1>5. ASSUME NEW x \in PSlots, NEW v \in Objects \cup {Nil}, StorePersistent(x, v)
      PROVE  TypeOK'
  <2>0. externals \in Seq(SUBSET PSlots)
    OBVIOUS
  <2>1. /\ ListAdd(externals, x) \in Seq(SUBSET PSlots)
        /\ Len(externals) <= Len(ListAdd(externals, x))
        /\ Len(externals) \in Nat /\ Len(ListAdd(externals, x)) \in Nat
    <3> HIDE DEF TypeOK
    <3>1. /\ ListAdd(externals, x) \in Seq(SUBSET PSlots)
          /\ Len(externals) <= Len(ListAdd(externals, x))
      BY <2>0, ListAddAdds
    <3> QED  BY <2>0, <3>1, LenProperties
  <2>2. externals' = ListAdd(externals, x) \/ externals' = externals
    BY <1>5 DEF StorePersistent
  <2>3. /\ externals' \in Seq(SUBSET PSlots)
        /\ Len(externals) <= Len(externals') /\ Len(externals') \in Nat
    <3> HIDE DEF TypeOK
    <3> QED  BY <2>0, <2>1, <2>2
  <2>4. noted' \in [PSlots -> BOOLEAN] /\ pslot' \in [PSlots -> Objects \cup {Nil}]
    BY <1>5 DEF StorePersistent
  <2>5. UNCHANGED <<heap, color, cell, regray, open, fzable, wkslot, sigq, finlist, xiter,
                    running, phase, state, next, fullgc, closing>>
    BY <1>5 DEF StorePersistent
  <2>6. xiter' \in Nat /\ (state' = "XHEAP_SCAN" => xiter' <= Len(externals'))
    BY <2>1, <2>3, <2>5
  <2> QED  BY <2>3, <2>4, <2>5, <2>6
<1>6. ASSUME NEW st \in Stores, Commit(st)  PROVE TypeOK'
  <2>1. externals' \in Seq(SUBSET PSlots) /\ Len(externals') = 0
    <3>1. externals' = <<>>
      BY <1>6 DEF Commit
    <3> QED  BY <3>1
  <2>2. noted' \in [PSlots -> BOOLEAN]
    BY <1>6 DEF Commit
  <2>3. UNCHANGED <<heap, color, cell, regray, pslot, open, fzable, wkslot, sigq, finlist,
                    running, phase, state, next, fullgc, closing>>
    BY <1>6 DEF Commit
  <2>4. xiter' = IF state = "XHEAP_SCAN" THEN 0 ELSE xiter
    BY <1>6 DEF Commit
  <2> QED  BY <2>1, <2>2, <2>3, <2>4
<1>7. ASSUME NEW st \in Stores, NEW written \in SUBSET PSlots, CommitFails(st, written)
      PROVE  TypeOK'
  BY <1>7 DEF CommitFails
<1>8. ASSUME NEW o \in Objects, RegisterForFinalization(o)  PROVE TypeOK'
  BY <1>8 DEF RegisterForFinalization
<1>9. CASE TakeSignal
  BY <1>9, ListedHead DEF TakeSignal
<1> QED  BY <1>1, <1>2, <1>3, <1>4, <1>5, <1>6, <1>7, <1>8, <1>9 DEF MutatorStep

LEMMA TypeCollector == TypeOK /\ (Entered \/ CollectorStep) => TypeOK'
<1> SUFFICES ASSUME TypeOK, Entered \/ CollectorStep PROVE TypeOK'
  OBVIOUS
<1> USE DEF TypeOK, program, Saved, Phases
<1>1. CASE Entered
  BY <1>1 DEF Entered, StartIncrement, GcNow, CloseStore
<1>2. CASE OutOfTime
  BY <1>2 DEF OutOfTime
<1>3. CASE Return
  BY <1>3 DEF Return
<1>4. CASE StartCycle
  BY <1>4, RootsAssumption DEF StartCycle
<1>5. CASE ScanRoot
  <2>1. LastRoot \in Nat /\ LastRoot <= NCells + 1
    BY RootsAssumption DEF LastRoot
  <2>2. color' \in [Objects -> Colors]
    BY <1>5, ShadedIs DEF ScanRoot
  <2> QED  BY <1>5, <2>1, <2>2, RootsAssumption DEF ScanRoot
<1>6. CASE RootsScanned
  BY <1>6 DEF RootsScanned, RootScans
<1>7. ASSUME NEW g \in Objects, Blacken(g)  PROVE TypeOK'
  <2>1. [color EXCEPT ![g] = "black"] \in [Objects -> Colors]
    BY DEF Colors
  <2>2. color' \in [Objects -> Colors]
    BY <1>7, <2>1, ShadedIs DEF Blacken
  <2> QED  BY <1>7, <2>2, ZenonT(60) DEF Blacken
<1>8. CASE Traversed
  <2>1. /\ state' = phase' /\ phase' \in {"QUASISTABLE_SCAN", "UNSTABLE_SCAN", "XHEAP_SCAN"}
        /\ next' \in 1..(NCells + 2)
    BY <1>8, RootsAssumption DEF Traversed, Traversals
  <2>2. xiter' \in Nat /\ (phase' = "XHEAP_SCAN" => xiter' <= Len(externals))
    <3>1. Len(externals) \in Nat /\ (externals # <<>> => Len(externals) >= 1)
      BY LenProperties, EmptySeq
    <3> QED  BY <1>8, <3>1 DEF Traversed, Traversals
  <2> QED  BY <1>8, <2>1, <2>2 DEF Traversed
<1>9. CASE ScanBucket
  <2>1. color' \in [Objects -> Colors]
    BY <1>9, ShadedIs DEF ScanBucket
  <2>2. Len(externals) \in Nat
    BY LenProperties
  <2> QED  BY <1>9, <2>1, <2>2 DEF ScanBucket
<1>10. CASE LeaveBuckets
  BY <1>10 DEF LeaveBuckets
<1>11. CASE Reblacken
  <2>1. color' \in [Objects -> Colors]
    BY <1>11, ShadedIs DEF Reblacken
  <2>2. regray' \in Seq(SUBSET Objects)
    BY <1>11, ListedHead DEF Reblacken
  <2> QED  BY <1>11, <2>1, <2>2 DEF Reblacken
<1>12. CASE Reblackened
  BY <1>12 DEF Reblackened
<1>13. CASE StartTermination
  BY <1>13, RootsAssumption DEF StartTermination
<1>14. CASE TerminateExternals
  <2>1. color' \in [Objects -> Colors]
    BY <1>14, ShadedIs DEF TerminateExternals
  <2>2. Len(externals) \in Nat
    BY LenProperties
  <2>3. xiter' \in Nat /\ xiter' <= Len(externals)
    BY <1>14, <2>2, SizesAssumption DEF TerminateExternals
  <2> QED  BY <1>14, <2>1, <2>3 DEF TerminateExternals
<1>15. CASE HandOver
  BY <1>15, EnqueuedIs DEF HandOver
<1>16. CASE Flip
  <2>1. heap' \in [Objects -> [Slots -> Objects \cup {Nil}]]
    BY <1>16 DEF Flip
  <2>2. color' \in [Objects -> Colors]
    BY <1>16 DEF Flip, Colors
  <2>3. sigq' \in Seq(SUBSET Objects)
    BY <1>16, EnqueuedIs DEF Flip
  <2> QED  BY <1>16, <2>1, <2>2, <2>3, RootsAssumption DEF Flip
<1> QED  BY <1>1, <1>2, <1>3, <1>4, <1>5, <1>6, <1>7, <1>8, <1>9, <1>10, <1>11, <1>12, <1>13,
            <1>14, <1>15, <1>16 DEF CollectorStep

-----------------------------------------------------------------------------
(* NoDangling, place by place.                                             *)
Held_allocated ==
    /\ \A c \in Cells : cell[c] \in Allocated \cup {Nil}
    /\ \A x \in PSlots : StoreOf[x] \in open => pslot[x] \in Allocated \cup {Nil}
    /\ finlist \subseteq Allocated /\ Listed(sigq) \subseteq Allocated /\ fzable \subseteq Allocated
    /\ \A o \in Allocated, s \in Slots : heap[o][s] \in Allocated \cup {Nil}

LEMMA DanglingIs ==
    /\ TypeOK => (NoDangling <=> Held_allocated)
    /\ TypeOK' => (NoDangling' <=> Held_allocated')
<1>1. TypeOK => (NoDangling <=> Held_allocated)
  BY ObjectsAssumption
     DEF TypeOK, NoDangling, Held_allocated, Held, InHand, PointersIn, OpenSlots
<1>2. TypeOK' => (NoDangling' <=> Held_allocated')
  BY ObjectsAssumption
     DEF TypeOK, NoDangling, Held_allocated, Held, InHand, PointersIn, OpenSlots
<1> QED  BY <1>1, <1>2

(* What the program does not touch, and what it does not lose, stays.      *)
LEMMA DanglingFrame ==
    ASSUME Held_allocated, UNCHANGED <<heap, cell, pslot, finlist>>,
           open' \subseteq open, fzable' \subseteq fzable,
           Listed(sigq') \subseteq Listed(sigq) \cup fzable, Allocated' = Allocated
    PROVE  Held_allocated'
  BY DEF Held_allocated

LEMMA DanglingMutator == TypeOK /\ Held_allocated /\ MutatorStep => Held_allocated'
<1> SUFFICES ASSUME TypeOK, Held_allocated, MutatorStep PROVE Held_allocated'
  OBVIOUS
<1> USE DEF program, collector
<1>1. ASSUME NEW c \in Cells, NEW o \in Objects, Allocate(c, o)  PROVE Held_allocated'
  <2>1. Allocated' = Allocated \cup {o}
    BY <1>1 DEF Allocate, Allocated, TypeOK
  <2>2. \A d \in Cells : cell'[d] \in Allocated' \cup {Nil}
    BY <1>1, <2>1 DEF Allocate, Held_allocated, TypeOK
  <2>3. \A g \in Allocated', s \in Slots : heap'[g][s] \in Allocated' \cup {Nil}
    <3> TAKE g \in Allocated', s \in Slots
    <3>1. heap' = [heap EXCEPT ![o] = [t \in Slots |-> Nil]]
      BY <1>1 DEF Allocate
    <3>2. CASE g = o
      BY <3>1, <3>2 DEF TypeOK
    <3>3. CASE g # o
      <4>1. g \in Allocated /\ heap'[g] = heap[g]
        BY <2>1, <3>1, <3>3 DEF Allocated, TypeOK
      <4> QED  BY <2>1, <4>1 DEF Held_allocated
    <3> QED  BY <3>2, <3>3
  <2> QED  BY <1>1, <2>1, <2>2, <2>3 DEF Allocate, Held_allocated
<1>2. ASSUME NEW c \in Cells, NEW o \in Objects, Finalize(o, c)  PROVE Held_allocated'
  BY <1>2 DEF Finalize, Held_allocated, Allocated, TypeOK
<1>3. ASSUME NEW c \in Cells, NEW v \in Objects \cup {Nil}, SetCell(c, v)
      PROVE  Held_allocated'
  <2>1. v \in Allocated \cup {Nil}
    BY <1>3 DEF SetCell, Held_allocated, InHand
  <2>2. Allocated' = Allocated
    BY <1>3 DEF SetCell, Allocated
  <2> QED  BY <1>3, <2>1, <2>2 DEF SetCell, Held_allocated, TypeOK
<1>4. ASSUME NEW l \in Objects, NEW t \in Slots, NEW v \in Objects \cup {Nil}, Store(l, t, v)
      PROVE  Held_allocated'
  <2>1. v \in Allocated \cup {Nil}
    BY <1>4 DEF Store, Held_allocated, InHand
  <2>2. Allocated' = Allocated
    BY <1>4 DEF Store, Allocated
  <2>3. \A g \in Allocated', s \in Slots : heap'[g][s] = heap[g][s] \/ heap'[g][s] = v
    BY <1>4 DEF Store, Allocated, TypeOK
  <2>4. \A g \in Allocated', s \in Slots : heap'[g][s] \in Allocated' \cup {Nil}
    BY <2>1, <2>2, <2>3 DEF Held_allocated
  <2> QED  BY <1>4, <2>2, <2>4 DEF Store, Held_allocated
<1>5. ASSUME NEW x \in PSlots, NEW v \in Objects \cup {Nil}, StorePersistent(x, v)
      PROVE  Held_allocated'
  <2>1. v \in Allocated \cup {Nil}
    BY <1>5 DEF StorePersistent, Held_allocated, InHand
  <2>2. Allocated' = Allocated
    BY <1>5 DEF StorePersistent, Allocated
  <2> QED  BY <1>5, <2>1, <2>2 DEF StorePersistent, Held_allocated, TypeOK
<1>6. ASSUME NEW st \in Stores, Commit(st)  PROVE Held_allocated'
  BY <1>6, DanglingFrame DEF Commit, Allocated
<1>7. ASSUME NEW st \in Stores, NEW written \in SUBSET PSlots, CommitFails(st, written)
      PROVE  Held_allocated'
  BY <1>7, DanglingFrame DEF CommitFails, Allocated
<1>8. ASSUME NEW o \in Objects, RegisterForFinalization(o)  PROVE Held_allocated'
  <2>1. o \in Allocated
    BY <1>8, ObjectsAssumption DEF RegisterForFinalization, InHand, Held_allocated
  <2> QED  BY <1>8, <2>1 DEF RegisterForFinalization, Held_allocated, Allocated
<1>9. CASE TakeSignal
  <2>1. Listed(sigq) = Head(sigq) \cup Listed(sigq')
    BY <1>9, ListedHead DEF TakeSignal, TypeOK
  <2> QED  BY <1>9, <2>1 DEF TakeSignal, Held_allocated, Allocated
<1> QED  BY <1>1, <1>2, <1>3, <1>4, <1>5, <1>6, <1>7, <1>8, <1>9 DEF MutatorStep

(* Until the flip the collector only darkens objects, and nothing becomes  *)
(* black but a gray object that is scanned.                                *)
Darkened ==
    \A o \in Objects :
        /\ color'[o] = "free" <=> color[o] = "free"
        /\ color'[o] = "white" => color[o] = "white"
        /\ color[o] = "black" => color'[o] = "black"

LEMMA Darkening ==
    ASSUME TypeOK, Entered \/ CollectorStep, ~Flip
    PROVE  /\ Darkened
           /\ Allocated' = Allocated
           /\ \A o \in Objects : color'[o] = "black" =>
                  color[o] = "black" \/ (Blacken(o) /\ phase' = phase)
<1> DEFINE Only == \A o \in Objects : color'[o] = "black" =>
                      color[o] = "black" \/ (Blacken(o) /\ phase' = phase)
<1>0. SUFFICES Darkened /\ Only
  BY DEF Allocated, Darkened
<1>1. CASE UNCHANGED color
  BY <1>1 DEF Darkened
<1>2. CASE ScanRoot
  BY <1>2, ShadedIs DEF ScanRoot, Darkened, TypeOK
<1>3. ASSUME NEW g \in Objects, Blacken(g)  PROVE Darkened /\ Only
  <2> DEFINE col == [color EXCEPT ![g] = "black"]
  <2>1. col \in [Objects -> Colors]
    BY DEF Colors, TypeOK
  <2>2. color' = Shaded(col, Strong(g)) /\ color[g] = "gray" /\ phase' = phase
    BY <1>3 DEF Blacken
  <2>3. col[g] = "black" /\ \A o \in Objects \ {g} : col[o] = color[o]
    BY DEF TypeOK
  <2> HIDE DEF col
  <2>4. Darkened
    BY <2>1, <2>2, <2>3, ShadedIs DEF Darkened
  <2>5. \A o \in Objects : color'[o] = "black" => color[o] = "black" \/ o = g
    BY <2>1, <2>2, <2>3, ShadedIs
  <2> QED  BY <1>3, <2>2, <2>4, <2>5
<1>4. CASE ScanBucket
  BY <1>4, ShadedIs DEF ScanBucket, Darkened, TypeOK
<1>5. CASE Reblacken
  BY <1>5, ShadedIs DEF Reblacken, Darkened, TypeOK
<1>6. CASE TerminateExternals
  <2>1. PICK S : color' = Shaded(color, S)
    BY <1>6 DEF TerminateExternals
  <2> QED  BY <2>1, ShadedIs DEF Darkened, TypeOK
<1>7. CASE Entered
  BY <1>1, <1>7 DEF Entered, StartIncrement, GcNow, CloseStore
<1>8. CASE OutOfTime \/ Return \/ StartCycle \/ RootsScanned
  BY <1>1, <1>8 DEF OutOfTime, Return, StartCycle, RootsScanned
<1>9. CASE Traversed \/ LeaveBuckets \/ Reblackened \/ StartTermination \/ HandOver
  BY <1>1, <1>9 DEF Traversed, LeaveBuckets, Reblackened, StartTermination, HandOver
<1> QED  BY <1>2, <1>3, <1>4, <1>5, <1>6, <1>7, <1>8, <1>9 DEF CollectorStep

(* What is found at the end of a cycle: everything that is held, and       *)
(* everything it leads to.                                                 *)
LEMMA FlipFrees ==
    ASSUME TypeOK, Held_allocated, Tricolour, WeakNoted, Terminating, Flip
    PROVE  Held_allocated'
<1> DEFINE Black == {o \in Objects : color[o] = "black"}
<1>1. /\ phase = "TERMINATE_T" /\ regray = <<>>
      /\ \A o \in Objects : color[o] \in {"free", "white", "black"}
  BY DEF Flip, Terminated, NoGray, Terminating, TypeOK, Colors
<1>2. Allocated' = Black
  BY DEF Flip, Allocated
<1>3. \A v \in Allocated : ~White(v) => v \in Black
  BY <1>1 DEF White, Allocated
<1>4. \A n \in 1..(NCells + 1), v \in Objects : v \notin RootsAt(n) \/ ~White(v)
  BY <1>1 DEF Terminating
<1>5. \A c \in Cells : cell[c] \in Black \cup {Nil}
  <2> TAKE c \in Cells
  <2>1. c \in 1..(NCells + 1) /\ cell[c] \in RootsAt(c)
    BY RootsAssumption DEF Cells, RootsAt
  <2> QED  BY <1>3, <1>4, <2>1 DEF Held_allocated, Allocated
<1>6. finlist \cup Listed(sigq) \subseteq Black
  <2>1. NCells + 1 \in 1..(NCells + 1) /\ NCells + 1 \notin Cells
    BY RootsAssumption DEF Cells
  <2>2. RootsAt(NCells + 1) = Listed(sigq) \cup finlist
    BY <2>1 DEF RootsAt
  <2> QED  BY <1>3, <1>4, <2>1, <2>2 DEF Held_allocated, Allocated
<1>7. \A x \in PSlots : StoreOf[x] \in open => pslot[x] \in Black \cup {Nil}
  <2>1. \A x \in OpenSlots : ~White(pslot[x])
    BY <1>1 DEF Terminating
  <2> QED  BY <1>3, <2>1 DEF OpenSlots, Held_allocated, Allocated
<1>8. fzable \subseteq Black
  BY <1>3 DEF Flip, Held_allocated
<1>9. \A o \in Black, s \in Slots : heap'[o][s] \in Black \cup {Nil}
  <2> TAKE o \in Black, s \in Slots
  <2> DEFINE v == heap[o][s]
             lost == o \in wkslot /\ s = FirstSlot /\ White(v)
  <2>1. heap'[o][s] = IF lost THEN Nil ELSE v
    BY DEF Flip, White
  <2>2. v \in Allocated \cup {Nil}
    BY DEF Held_allocated, Allocated
  <2>3. v \in Strong(o) => ~White(v)
    BY <1>1, ListedEmpty DEF Tricolour
  <2>4. Weak(o, s) => o \in wkslot /\ s = FirstSlot
    BY DEF Weak, WeakNoted
  <2>5. Weak(o, s) \/ v \in Strong(o)
    BY DEF Strong
  <2> HIDE DEF v
  <2> QED  BY <1>3, <2>1, <2>2, <2>3, <2>4, <2>5
<1>10. Listed(sigq') \subseteq Listed(sigq)
  BY EnqueuedIs DEF Flip, TypeOK
<1>11. UNCHANGED <<cell, pslot, finlist, fzable, open>>
  BY DEF Flip
<1> HIDE DEF Black
<1> QED  BY <1>2, <1>5, <1>6, <1>7, <1>8, <1>9, <1>10, <1>11 DEF Held_allocated

LEMMA DanglingCollector ==
    ASSUME TypeOK, Held_allocated, Tricolour, WeakNoted, Terminating, Entered \/ CollectorStep
    PROVE  Held_allocated'
<1> USE DEF program
<1>1. CASE Flip
  BY <1>1, FlipFrees
<1>2. CASE ~Flip
  <2>1. Allocated' = Allocated
    BY <1>2, Darkening
  <2>2. CASE HandOver
    <3> DEFINE dead == {o \in fzable : White(o)}
    <3>1. dead \in SUBSET Objects /\ dead \subseteq fzable
      BY DEF TypeOK
    <3>2. sigq' = Enqueued(dead)
      BY <2>2 DEF HandOver
    <3>3. Listed(sigq') \subseteq Listed(sigq) \cup fzable
      BY <3>1, <3>2, EnqueuedIs DEF TypeOK
    <3> QED  BY <2>1, <2>2, <3>3, DanglingFrame DEF HandOver
  <2>3. CASE Entered
    BY <2>1, <2>3, DanglingFrame DEF Entered, StartIncrement, GcNow, CloseStore
  <2>4. CASE OutOfTime \/ Return \/ StartCycle \/ ScanRoot \/ RootsScanned
    BY <2>1, <2>4, DanglingFrame DEF OutOfTime, Return, StartCycle, ScanRoot, RootsScanned
  <2>5. ASSUME NEW g \in Objects, Blacken(g)  PROVE Held_allocated'
    BY <2>1, <2>5, DanglingFrame DEF Blacken
  <2>6. CASE Traversed \/ ScanBucket \/ LeaveBuckets \/ Reblacken
    BY <2>1, <2>6, DanglingFrame DEF Traversed, ScanBucket, LeaveBuckets, Reblacken
  <2>7. CASE Reblackened \/ StartTermination \/ TerminateExternals
    BY <2>1, <2>7, DanglingFrame DEF Reblackened, StartTermination, TerminateExternals
  <2> QED  BY <1>2, <2>2, <2>3, <2>4, <2>5, <2>6, <2>7 DEF CollectorStep
<1> QED  BY <1>1, <1>2

-----------------------------------------------------------------------------
(* The tricolour invariant.  The program breaks it only by a store that    *)
(* the barrier sees: an allocation makes an object that nothing refers to. *)

LEMMA TricolourMutator ==
    TypeOK /\ Held_allocated /\ Tricolour /\ MutatorStep => Tricolour'
<1> SUFFICES ASSUME TypeOK, Held_allocated, Tricolour, MutatorStep,
                    NEW g \in Objects, color'[g] = "black"
             PROVE  (\A v \in Strong(g)' : ~White(v)') \/ g \in Listed(regray')
  BY DEF Tricolour
<1> DEFINE Goal == (\A v \in Strong(g)' : ~White(v)') \/ g \in Listed(regray')
<1>1. ASSUME NEW c \in Cells, NEW o \in Objects, Allocate(c, o)  PROVE Goal
  <2>1. /\ color' = [color EXCEPT ![o] = "white"]
        /\ heap' = [heap EXCEPT ![o] = [s \in Slots |-> Nil]]
        /\ color[o] = "free" /\ regray' = regray
    BY <1>1 DEF Allocate
  <2>2. g # o /\ color[g] = "black" /\ heap'[g] = heap[g]
    BY <2>1 DEF TypeOK
  <2>3. Strong(g)' = Strong(g)
    BY <2>2 DEF Strong
  <2>4. o \notin Strong(g)
    <3>1. g \in Allocated /\ o \notin Allocated /\ o # Nil
      BY <2>1, <2>2, ObjectsAssumption DEF Allocated
    <3>2. \A s \in Slots : heap[g][s] # o
      BY <3>1 DEF Held_allocated
    <3> QED  BY <3>2 DEF Strong
  <2>5. \A v : v # o /\ ~White(v) => ~White(v)'
    BY <2>1 DEF White, TypeOK
  <2> QED  BY <2>1, <2>2, <2>3, <2>4, <2>5 DEF Tricolour
<1>2. ASSUME NEW l \in Objects, NEW t \in Slots, NEW w \in Objects \cup {Nil}, Store(l, t, w)
      PROVE  Goal
  <2>1. /\ heap' = [heap EXCEPT ![l][t] = w] /\ color' = color
        /\ regray' = IF w = Nil THEN regray ELSE WriteBarrier(l, w)
    BY <1>2 DEF Store
  <2>2. \A v : White(v)' <=> White(v)
    BY <2>1 DEF White
  <2>3. Listed(regray) \subseteq Listed(regray')
    BY <2>1, BarrierKeeps DEF TypeOK
  <2>4. CASE g # l
    <3>1. heap'[g] = heap[g]
      BY <2>1, <2>4 DEF TypeOK
    <3>2. Strong(g)' = Strong(g)
      BY <3>1 DEF Strong
    <3> QED  BY <2>1, <2>2, <2>3, <3>2 DEF Tricolour
  <2>5. CASE g = l /\ White(w)
    <3>1. w # Nil /\ color[w] = "white" /\ color[l] = "black"
      BY <2>1, <2>5, ObjectsAssumption DEF White
    <3>2. l \in Listed(WriteBarrier(l, w))
      BY <3>1, BarrierKeeps DEF TypeOK
    <3> QED  BY <2>1, <2>5, <3>1, <3>2
  <2>6. CASE g = l /\ ~White(w)
    <3>1. \A s \in Slots : heap'[g][s] = heap[g][s] \/ heap'[g][s] = w
      BY <2>1, <2>6 DEF TypeOK
    <3>2. \A v \in Strong(g)' : v \in Strong(g) \/ v = w
      BY <3>1 DEF Strong, Weak
    <3> QED  BY <2>1, <2>2, <2>3, <2>6, <3>2 DEF Tricolour
  <2> QED  BY <2>4, <2>5, <2>6
<1>3. CASE UNCHANGED <<heap, color, regray>>
  BY <1>3 DEF Tricolour, Strong, White
<1>4. ASSUME NEW c \in Cells, NEW o \in Objects, NEW v \in Objects \cup {Nil},
             Finalize(o, c) \/ SetCell(c, v)
      PROVE  Goal
  BY <1>3, <1>4 DEF Finalize, SetCell
<1>5. ASSUME NEW x \in PSlots, NEW v \in Objects \cup {Nil}, StorePersistent(x, v)  PROVE Goal
  BY <1>3, <1>5 DEF StorePersistent
<1>6. ASSUME NEW st \in Stores, NEW written \in SUBSET PSlots,
             Commit(st) \/ CommitFails(st, written)
      PROVE  Goal
  BY <1>3, <1>6 DEF Commit, CommitFails
<1>7. ASSUME NEW o \in Objects, RegisterForFinalization(o) \/ TakeSignal  PROVE Goal
  BY <1>3, <1>7 DEF RegisterForFinalization, TakeSignal
<1> QED  BY <1>1, <1>2, <1>4, <1>5, <1>6, <1>7 DEF MutatorStep

LEMMA TricolourCollector ==
    TypeOK /\ Tricolour /\ (Entered \/ CollectorStep) => Tricolour'
<1> SUFFICES ASSUME TypeOK, Tricolour, Entered \/ CollectorStep,
                    NEW g \in Objects, color'[g] = "black"
             PROVE  (\A v \in Strong(g)' : ~White(v)') \/ g \in Listed(regray')
  BY DEF Tricolour
<1> DEFINE Goal == (\A v \in Strong(g)' : ~White(v)') \/ g \in Listed(regray')
<1> USE DEF program
<1>1. CASE Flip
  <2>1. color'[g] # "black"
    BY <1>1 DEF Flip
  <2> QED  BY <2>1
<1>2. CASE ~Flip
  <2>1. /\ \A v : ~White(v) => ~White(v)'
        /\ color[g] = "black" \/ Blacken(g)
    BY <1>2, Darkening DEF Darkened, White
  <2>2. heap' = heap
    BY <1>2 DEF Entered, StartIncrement, GcNow, CloseStore, CollectorStep, OutOfTime, Return,
                StartCycle, ScanRoot, RootsScanned, Blacken, Traversed, ScanBucket, LeaveBuckets,
                Reblacken, Reblackened, StartTermination, TerminateExternals, HandOver
  <2>3. Strong(g)' = Strong(g)
    BY <2>2 DEF Strong
  <2>4. CASE Blacken(g)
    <3> DEFINE col == [color EXCEPT ![g] = "black"]
    <3>1. color' = Shaded(col, Strong(g)) /\ col \in [Objects -> Colors]
      BY <2>4 DEF Blacken, TypeOK, Colors
    <3> HIDE DEF col
    <3>2. \A v \in Strong(g) : ~White(v)'
      BY <3>1, ShadedIs DEF White
    <3> QED  BY <2>3, <3>2
  <2>5. CASE color[g] = "black" /\ Reblacken
    <3>1. /\ color' = Shaded(color, StrongFrom(Head(regray)))
          /\ Listed(regray) = Head(regray) \cup Listed(regray')
      BY <2>5, ListedHead DEF Reblacken, TypeOK
    <3>2. CASE g \in Head(regray)
      <4> DEFINE S == StrongFrom(Head(regray))
      <4>1. color' = Shaded(color, S) /\ \A v \in Strong(g) : v \in S
        BY <3>1, <3>2 DEF StrongFrom
      <4>2. color \in [Objects -> Colors]
        BY DEF TypeOK
      <4> HIDE DEF S
      <4>3. \A v \in Strong(g) : ~White(v)'
        BY <4>1, <4>2, ShadedIs DEF White
      <4> QED  BY <2>3, <4>3
    <3>3. CASE g \notin Head(regray)
      BY <2>1, <2>3, <2>5, <3>1, <3>3 DEF Tricolour
    <3> QED  BY <3>2, <3>3
  <2>6. CASE color[g] = "black" /\ ~Reblacken
    <3>1. regray' = regray
      BY <1>2, <2>6
         DEF Entered, StartIncrement, GcNow, CloseStore, CollectorStep, OutOfTime, Return,
             StartCycle, ScanRoot, RootsScanned, Blacken, Traversed, ScanBucket, LeaveBuckets,
             Reblackened, StartTermination, TerminateExternals, HandOver
    <3> QED  BY <2>1, <2>3, <2>6, <3>1 DEF Tricolour
  <2> QED  BY <2>1, <2>4, <2>5, <2>6
<1> QED  BY <1>1, <1>2

-----------------------------------------------------------------------------
(* The program runs alone, and blackens nothing.                           *)
Alone ==
    /\ ~running /\ UNCHANGED <<wkslot, running, phase>>
    /\ color' = color \/ \E o \in Objects : color' = [color EXCEPT ![o] = "white"]

LEMMA MutatorKeeps == MutatorStep => Alone
<1> SUFFICES ASSUME MutatorStep PROVE Alone
  OBVIOUS
<1> USE DEF Alone, collector
<1>1. ASSUME NEW c \in Cells, NEW o \in Objects, Allocate(c, o) \/ Finalize(o, c)  PROVE Alone
  BY <1>1 DEF Allocate, Finalize
<1>2. ASSUME NEW c \in Cells, NEW v \in Objects \cup {Nil}, SetCell(c, v)  PROVE Alone
  BY <1>2 DEF SetCell
<1>3. ASSUME NEW l \in Objects, NEW s \in Slots, NEW v \in Objects \cup {Nil}, Store(l, s, v)
      PROVE  Alone
  BY <1>3 DEF Store
<1>4. ASSUME NEW x \in PSlots, NEW v \in Objects \cup {Nil}, StorePersistent(x, v)
      PROVE  Alone
  BY <1>4 DEF StorePersistent
<1>5. ASSUME NEW st \in Stores, Commit(st)  PROVE Alone
  BY <1>5 DEF Commit
<1>6. ASSUME NEW st \in Stores, NEW written \in SUBSET PSlots, CommitFails(st, written)
      PROVE  Alone
  BY <1>6 DEF CommitFails
<1>7. ASSUME NEW o \in Objects, RegisterForFinalization(o)  PROVE Alone
  BY <1>7 DEF RegisterForFinalization
<1>8. CASE TakeSignal
  BY <1>8 DEF TakeSignal
<1> QED
  <2> HIDE DEF Alone
  <2> QED  BY <1>1, <1>2, <1>3, <1>4, <1>5, <1>6, <1>7, <1>8 DEF MutatorStep

(* Scanned weak objects are noted.                                         *)
LEMMA WeakStep ==
    TypeOK /\ WeakNoted /\ Next => WeakNoted'
<1> SUFFICES ASSUME TypeOK, WeakNoted, Next,
                    NEW g \in WeakObjects, color'[g] = "black"
             PROVE  g \in wkslot'
  BY DEF WeakNoted
<1>0. g \in Objects
  BY ObjectsAssumption
<1>1. CASE MutatorStep
  <2>1. wkslot' = wkslot
    BY <1>1, MutatorKeeps DEF Alone
  <2>2. color' = color \/ \E o \in Objects : color' = [color EXCEPT ![o] = "white"]
    BY <1>1, MutatorKeeps DEF Alone
  <2>3. color[g] = "black"
    BY <1>0, <2>2 DEF TypeOK
  <2> QED  BY <2>1, <2>3 DEF WeakNoted
<1>2. CASE (Entered \/ CollectorStep) /\ ~Flip
  <2>1. color[g] = "black" \/ Blacken(g)
    BY <1>0, <1>2, Darkening
  <2>2. wkslot \subseteq wkslot'
    BY <1>2 DEF Entered, StartIncrement, GcNow, CloseStore, CollectorStep, OutOfTime, Return,
                StartCycle, ScanRoot, RootsScanned, Blacken, Traversed, ScanBucket, LeaveBuckets,
                Reblacken, Reblackened, StartTermination, TerminateExternals, HandOver
  <2>3. Blacken(g) => g \in wkslot'
    BY DEF Blacken
  <2> QED  BY <2>1, <2>2, <2>3 DEF WeakNoted
<1>3. CASE Flip
  <2>1. color'[g] # "black"
    BY <1>0, <1>3 DEF Flip
  <2> QED  BY <2>1
<1> QED  BY <1>1, <1>2, <1>3 DEF Next

(* What keeps the list of pointers from stores complete.                   *)
Disciplined == "commit one of several" \notin Risks /\ "many externals" \notin Risks

LEMMA ListedStep ==
    TypeOK /\ PointersListed /\ Disciplined /\ Next => PointersListed'
<1> SUFFICES ASSUME TypeOK, PointersListed, Disciplined, Next PROVE PointersListed'
  OBVIOUS
<1>1. ASSUME NEW y \in PSlots, NEW v \in Objects \cup {Nil}, StorePersistent(y, v)
      PROVE  PointersListed'
  <2>1. pslot' = [pslot EXCEPT ![y] = v]
    BY <1>1 DEF StorePersistent
  <2>2. CASE v # Nil /\ ~noted[y]
    <3>1. /\ noted' = [noted EXCEPT ![y] = TRUE]
          /\ externals' = ListAdd(externals, y)
          /\ Len(externals') <= MaxBuckets
      BY <1>1, <2>2 DEF StorePersistent, Disciplined
    <3>2. externals \in Seq(SUBSET PSlots)
      BY DEF TypeOK
    <3>3. \A x : x \in Listed(externals') <=> x \in Listed(externals) \/ x = y
      BY <3>1, <3>2, ListAddAdds
    <3>4. \A x \in PSlots : x # y => pslot'[x] = pslot[x] /\ noted'[x] = noted[x]
      BY <2>1, <3>1 DEF TypeOK
    <3> QED  BY <3>1, <3>3, <3>4 DEF PointersListed
  <2>3. CASE v = Nil \/ noted[y]
    <3>1. UNCHANGED <<noted, externals>>
      BY <1>1, <2>3 DEF StorePersistent
    <3>2. \A x \in PSlots : pslot'[x] # Nil => pslot[x] # Nil \/ noted[x]
      BY <2>1, <2>3 DEF TypeOK
    <3> QED  BY <3>1, <3>2 DEF PointersListed
  <2> QED  BY <2>2, <2>3
<1>2. ASSUME NEW st \in Stores, Commit(st)  PROVE PointersListed'
  <2>1. \A x \in PSlots : pslot[x] = Nil /\ (StoreOf[x] # st => ~noted[x])
    BY <1>2 DEF Commit, Disciplined, SlotsOf
  <2>2. \A x \in PSlots : pslot'[x] = Nil /\ ~noted'[x]
    BY <1>2, <2>1 DEF Commit
  <2>3. externals' = <<>> /\ Len(externals') = 0
    <3>1. externals' = <<>>
      BY <1>2 DEF Commit
    <3> QED  BY <3>1
  <2> QED  BY <2>2, <2>3, SizesAssumption DEF PointersListed
<1>3. ASSUME NEW st \in Stores, NEW written \in SUBSET PSlots, CommitFails(st, written)
      PROVE  PointersListed'
  <2>1. \A x \in PSlots : noted'[x] => noted[x]
    BY <1>3 DEF CommitFails
  <2> QED  BY <1>3, <2>1 DEF CommitFails, PointersListed
<1>4. CASE UNCHANGED <<pslot, noted, externals>>
  BY <1>4 DEF PointersListed
<1>5. CASE MutatorStep
  BY <1>1, <1>2, <1>3, <1>4, <1>5
     DEF MutatorStep, Allocate, Finalize, SetCell, Store, RegisterForFinalization, TakeSignal
<1>6. CASE Entered \/ CollectorStep
  <2>1. UNCHANGED <<pslot, noted, externals>>
    BY <1>6 DEF program, Entered, StartIncrement, GcNow, CloseStore, CollectorStep, OutOfTime,
                Return, StartCycle, ScanRoot, RootsScanned, Blacken, Traversed, ScanBucket,
                LeaveBuckets, Reblacken, Reblackened, StartTermination, TerminateExternals,
                HandOver, Flip
  <2> QED  BY <1>4, <2>1
<1> QED  BY <1>5, <1>6 DEF Next

-----------------------------------------------------------------------------
(* An attempt to terminate finds every root and every pointer from a store *)
(* while the program stands still.                                         *)

Attempting == {"TERMINATE", "TERMINATE_T"}

LEMMA TerminatingFrame ==
    ASSUME phase' \notin Attempting, running' \/ phase' = "RETURN"
    PROVE  Terminating'
  BY DEF Terminating, Attempting

LEMMA RootsFrame ==
    ASSUME UNCHANGED <<cell, sigq, finlist>>, NEW n
    PROVE  RootsAt(n)' = RootsAt(n)
  BY DEF RootsAt, Listed

LEMMA TerminatingStep ==
    TypeOK /\ PointersListed /\ Terminating /\ Next => Terminating'
<1> SUFFICES ASSUME TypeOK, PointersListed, Terminating, Next PROVE Terminating'
  OBVIOUS
<1> USE DEF program, collector
<1>1. CASE MutatorStep
  <2>1. ~running /\ UNCHANGED <<running, phase>>
    BY <1>1, MutatorKeeps DEF Alone
  <2> QED  BY <2>1, TerminatingFrame DEF Terminating, Attempting
<1>2. CASE Entered
  <2>1. running' /\ phase' = state
    BY <1>2 DEF Entered, StartIncrement, GcNow, CloseStore
  <2> QED  BY <2>1, TerminatingFrame DEF TypeOK, Saved, Attempting
<1>3. CASE OutOfTime \/ StartCycle \/ HandOver \/ Flip
  BY <1>3, TerminatingFrame DEF OutOfTime, StartCycle, HandOver, Flip, Attempting
<1>4. CASE Return
  BY <1>4, TerminatingFrame DEF Return, Attempting
<1>5. CASE RootsScanned \/ LeaveBuckets \/ ScanBucket \/ Reblacken \/ Reblackened
  BY <1>5, TerminatingFrame
     DEF RootsScanned, RootScans, LeaveBuckets, ScanBucket, Reblacken, Reblackened, Attempting
<1>6. CASE Traversed
  BY <1>6, TerminatingFrame DEF Traversed, Traversals, Attempting
<1>7. CASE ScanRoot
  <2>1. CASE phase = "TERMINATE"
    <3>1. /\ running' /\ phase' = "TERMINATE" /\ next' = next + 1
          /\ regray' = regray /\ regray = <<>>
          /\ color' = Shaded(color, RootsAt(next))
      BY <1>7, <2>1 DEF ScanRoot, Terminating
    <3>2. \A n : RootsAt(n)' = RootsAt(n)
      BY <1>7, RootsFrame DEF ScanRoot
    <3>3. \A v \in Objects : White(v)' <=> White(v) /\ v \notin RootsAt(next)
      BY <3>1, ShadedIs DEF White, TypeOK
    <3>4. ASSUME NEW n \in 1..(NCells + 1), NEW v \in Objects, n < next'
          PROVE  v \notin RootsAt(n)' \/ ~White(v)'
      <4>1. n < next \/ n = next
        BY <3>1, <3>4, RootsAssumption DEF TypeOK
      <4> QED  BY <2>1, <3>2, <3>3, <4>1 DEF Terminating
    <3> QED  BY <3>1, <3>4 DEF Terminating
  <2>2. CASE phase # "TERMINATE"
    BY <1>7, <2>2, TerminatingFrame DEF ScanRoot, RootScans, Attempting
  <2> QED  BY <2>1, <2>2
<1>8. ASSUME NEW g \in Objects, Blacken(g)  PROVE Terminating'
  <2>1. CASE phase = "TERMINATE_T"
    <3>1. /\ running' /\ phase' = "TERMINATE_T" /\ regray' = regray
          /\ UNCHANGED <<pslot, open>>
      BY <1>8, <2>1 DEF Blacken
    <3>2. \A n : RootsAt(n)' = RootsAt(n)
      BY <1>8, RootsFrame DEF Blacken
    <3>3. ~Flip
      BY <1>8 DEF Blacken, Flip, Terminated, NoGray
    <3>4. \A v : ~White(v) => ~White(v)'
      BY <1>8, <3>3, Darkening DEF CollectorStep, Darkened, White
    <3> QED  BY <2>1, <3>1, <3>2, <3>4 DEF Terminating, OpenSlots
  <2>2. CASE phase # "TERMINATE_T"
    BY <1>8, <2>2, TerminatingFrame DEF Blacken, Traversals, Attempting
  <2> QED  BY <2>1, <2>2
<1>9. CASE StartTermination
  <2>1. running' /\ phase' = "TERMINATE" /\ next' = 1 /\ regray' = <<>>
    BY <1>9 DEF StartTermination
  <2> QED  BY <2>1 DEF Terminating
<1>10. CASE TerminateExternals
  <2> DEFINE paid == {i \in 1..Len(externals) : i <= MaxBuckets}
             S == PointersIn(UNION {externals[i] : i \in paid})
  <2>1. /\ running' /\ phase' = "TERMINATE_T" /\ phase = "TERMINATE" /\ next > LastRoot
        /\ regray' = <<>> /\ color' = Shaded(color, S)
        /\ UNCHANGED <<pslot, open>>
    BY <1>10 DEF TerminateExternals, Terminating
  <2>2. \A n \in 1..(NCells + 1) : n < next
    BY <2>1, RootsAssumption DEF LastRoot, TypeOK
  <2>3. \A n : RootsAt(n)' = RootsAt(n)
    BY <1>10, RootsFrame DEF TerminateExternals
  <2>4. \A x \in PSlots : pslot[x] # Nil => pslot[x] \in S
    <3> TAKE x \in PSlots
    <3> HAVE pslot[x] # Nil
    <3>1. x \in Listed(externals)
      BY DEF PointersListed
    <3>2. PICK i \in 1..Len(externals) : x \in externals[i]
      BY <3>1 DEF Listed
    <3>3. Len(externals) \in Nat /\ Len(externals) <= MaxBuckets
      BY LenProperties DEF TypeOK, PointersListed
    <3>4. i \in paid
      BY <3>3, SizesAssumption
    <3> QED  BY <3>2, <3>4 DEF PointersIn
  <2> HIDE DEF S
  <2>5. \A v \in Objects : White(v)' <=> White(v) /\ v \notin S
    BY <2>1, ShadedIs DEF White, TypeOK
  <2>6. ASSUME NEW x \in OpenSlots'  PROVE ~White(pslot[x])'
    <3>1. x \in PSlots /\ pslot'[x] = pslot[x]
      BY <2>1, <2>6 DEF OpenSlots
    <3> QED  BY <2>4, <2>5, <3>1, ObjectsAssumption DEF White
  <2>7. ASSUME NEW n \in 1..(NCells + 1), NEW v \in Objects
        PROVE  v \notin RootsAt(n)' \/ ~White(v)'
    BY <2>1, <2>2, <2>3, <2>5 DEF Terminating
  <2> QED  BY <2>1, <2>6, <2>7 DEF Terminating
<1> QED  BY <1>1, <1>2, <1>3, <1>4, <1>5, <1>6, <1>7, <1>8, <1>9, <1>10 DEF Next, CollectorStep

-----------------------------------------------------------------------------
(* The invariant holds at first, and every step keeps it.                  *)

LEMMA InitInvariant == Init => CollectorInvariant
<1> SUFFICES ASSUME Init PROVE CollectorInvariant
  OBVIOUS
<1>1. regray = <<>> /\ externals = <<>> /\ sigq = <<>>
  BY DEF Init
<1>2. /\ regray \in Seq(SUBSET Objects) /\ sigq \in Seq(SUBSET Objects)
      /\ externals \in Seq(SUBSET PSlots) /\ Len(externals) = 0
  BY <1>1
<1>3. TypeOK
  <2>1. /\ heap \in [Objects -> [Slots -> Objects \cup {Nil}]]
        /\ color \in [Objects -> Colors]
        /\ cell \in [Cells -> Objects \cup {Nil}]
        /\ pslot \in [PSlots -> Objects \cup {Nil}]
        /\ noted \in [PSlots -> BOOLEAN]
    BY DEF Init, Colors
  <2>2. /\ phase \in Phases /\ state \in Saved /\ state = "IDLE"
        /\ next \in 1..(NCells + 2) /\ xiter \in Nat
        /\ fullgc \in {"no", "first", "second"}
    BY RootsAssumption DEF Init, Phases, Saved
  <2>3. /\ open \subseteq Stores /\ fzable \subseteq Objects /\ wkslot \subseteq WeakObjects
        /\ finlist \subseteq Objects /\ running \in BOOLEAN /\ closing \in open \cup {Nil}
    BY DEF Init
  <2> QED  BY <1>2, <2>1, <2>2, <2>3 DEF TypeOK
<1>4. Allocated = {} /\ Listed(sigq) = {}
  BY <1>1, ListedEmpty DEF Init, Allocated
<1>5. NoDangling
  BY <1>4 DEF Init, NoDangling, Held, InHand, PointersIn, OpenSlots
<1>6. Tricolour /\ WeakNoted
  BY ObjectsAssumption DEF Init, Tricolour, WeakNoted
<1>7. PointersListed
  BY <1>2, SizesAssumption DEF Init, PointersListed
<1>8. Terminating
  BY DEF Init, Terminating
<1> QED  BY <1>3, <1>5, <1>6, <1>7, <1>8 DEF CollectorInvariant

LEMMA StepInvariant ==
    Disciplined /\ CollectorInvariant /\ [Next]_vars => CollectorInvariant'
<1> SUFFICES ASSUME Disciplined, CollectorInvariant, [Next]_vars PROVE CollectorInvariant'
  OBVIOUS
<1>1. TypeOK /\ NoDangling /\ Tricolour /\ WeakNoted /\ PointersListed /\ Terminating
  BY DEF CollectorInvariant
<1>2. CASE Next
  <2>1. TypeOK'
    BY <1>1, <1>2, TypeMutator, TypeCollector DEF Next
  <2>2. Held_allocated
    BY <1>1, DanglingIs
  <2>3. NoDangling'
    BY <1>1, <1>2, <2>1, <2>2, DanglingIs, DanglingMutator, DanglingCollector DEF Next
  <2>4. Tricolour'
    BY <1>1, <1>2, <2>2, TricolourMutator, TricolourCollector DEF Next
  <2>5. WeakNoted' /\ PointersListed' /\ Terminating'
    BY <1>1, <1>2, WeakStep, ListedStep, TerminatingStep
  <2> QED  BY <2>1, <2>3, <2>4, <2>5 DEF CollectorInvariant
<1>3. CASE UNCHANGED vars
  <2> USE <1>1, <1>3 DEF vars
  <2>1. TypeOK'
    BY DEF TypeOK
  <2>2. NoDangling'
    BY DEF NoDangling, Held, InHand, PointersIn, OpenSlots, Allocated, Listed
  <2>3. Tricolour'
    BY DEF Tricolour, Strong, White
  <2>5. WeakNoted' /\ PointersListed'
    BY DEF WeakNoted, PointersListed
  <2>4. Terminating'
    <3>1. \A n : RootsAt(n)' = RootsAt(n)
      BY RootsFrame
    <3> QED  BY <3>1 DEF Terminating, White, OpenSlots
  <2> QED  BY <2>1, <2>2, <2>3, <2>4, <2>5 DEF CollectorInvariant
<1> QED  BY <1>2, <1>3

LEMMA Invariance == Disciplined => (Spec => []CollectorInvariant)
<1> SUFFICES ASSUME Disciplined PROVE Spec => []CollectorInvariant
  OBVIOUS
<1>1. Init => CollectorInvariant
  BY InitInvariant
<1>2. CollectorInvariant /\ [Next]_vars => CollectorInvariant'
  BY StepInvariant
<1> QED  BY <1>1, <1>2, PTL DEF Spec

(* Every variable keeps to its type, whatever is allocated, stored,        *)
(* committed and collected.                                                *)
THEOREM HeapTypes ==
    ASSUME Disciplined
    PROVE  Spec => []TypeOK
  BY Invariance, PTL DEF CollectorInvariant

(* Nothing is reclaimed that could still be used: whatever the program     *)
(* does between the increments, what it holds, what objects in use refer   *)
(* to and what waits for finalization are never freed                      *)
(* (IRC_tripWriteBarrier, run_gen, attempt_termination, generationFlip).   *)
THEOREM NothingDangles ==
    ASSUME Disciplined
    PROVE  Spec => []NoDangling
  BY Invariance, PTL DEF CollectorInvariant

(* A scanned object refers to a white one only while it is on the regray   *)
(* list: the barrier of gvec_write is enough, and none is needed for       *)
(* allocations, registers and the stack.                                   *)
THEOREM TricolourKept ==
    ASSUME Disciplined
    PROVE  Spec => []Tricolour
  BY Invariance, PTL DEF CollectorInvariant

-----------------------------------------------------------------------------
(***************************************************************************)
(* The program and the incremental collector together implement HeapSpec,  *)
(* a graph from which only what cannot be reached disappears: a flip is a  *)
(* collection of it, the end of a cycle that finds objects to finalize     *)
(* hands them over, and the other steps of the collector are nothing at    *)
(* all.                                                                    *)
(***************************************************************************)

(* What the program can get hold of.                                       *)
InReach == Promised!Usable(Held \cup Listed(sigq))

LEMMA HeldInReach ==
    ASSUME NoDangling
    PROVE  Held \cup Listed(sigq) \subseteq InReach
  BY DEF NoDangling, InReach, Promised!Usable

LEMMA LoadsInReach ==
    ASSUME NoDangling, NEW o \in Held, NEW s \in Slots
    PROVE  heap[o][s] \in InReach \cup {Nil}
<1> SUFFICES ASSUME heap[o][s] # Nil PROVE heap[o][s] \in InReach
  OBVIOUS
<1>1. o \in Allocated
  BY DEF NoDangling
<1>2. heap[o][s] \in Allocated
  BY <1>1 DEF NoDangling
<1>3. ASSUME NEW S \in SUBSET Objects, Held \cup Listed(sigq) \subseteq S, Promised!FullClosed(S)
      PROVE  heap[o][s] \in S
  BY <1>3 DEF Promised!FullClosed
<1> QED  BY <1>2, <1>3 DEF InReach, Promised!Usable

LEMMA CellsAreHeld == InHand \subseteq Held \cup {Nil}
  BY DEF Held

-----------------------------------------------------------------------------
(* Steps that leave the graph as it is, and steps of the program.          *)

GraphSame == UNCHANGED <<heap, Allocated, Held, fzable, Listed(sigq)>>

LEMMA SameIs == GraphSame => UNCHANGED Promised!vars
  BY DEF GraphSame, Promised!vars

LEMMA SameFrame ==
    ASSUME UNCHANGED <<heap, cell, pslot, open, finlist, fzable, sigq>>, Allocated' = Allocated
    PROVE  GraphSame
  BY DEF GraphSame, Held, InHand, PointersIn, OpenSlots, Listed

LEMMA ProgramFrame ==
    ASSUME UNCHANGED heap, Allocated' = Allocated, Held' \subseteq InReach,
           fzable \subseteq fzable', fzable' \subseteq fzable \cup InReach,
           Listed(sigq') \subseteq Listed(sigq)
    PROVE  Promised!Program
  BY DEF Promised!Program, InReach

-----------------------------------------------------------------------------
(* What the program does.                                                  *)
LEMMA ProgramStep ==
    ASSUME TypeOK, NoDangling, MutatorStep
    PROVE  Promised!Program \/ GraphSame
<1> DEFINE Goal == Promised!Program \/ GraphSame
<1> USE DEF program, collector
<1>0. Held \subseteq InReach /\ Listed(sigq) \subseteq InReach
  BY HeldInReach
<1>1. ASSUME NEW c \in Cells, NEW o \in Objects, Allocate(c, o)  PROVE Goal
  <2>1. /\ heap' = [heap EXCEPT ![o] = [s \in Slots |-> Nil]]
        /\ UNCHANGED <<fzable, sigq>>
        /\ cell' = [cell EXCEPT ![c] = o] /\ UNCHANGED <<pslot, open, finlist>>
    BY <1>1 DEF Allocate
  <2>2. Allocated' = Allocated \cup {o} /\ o \notin Allocated
    BY <1>1 DEF Allocate, Allocated, TypeOK
  <2>3. Held' \subseteq Held \cup {o}
    BY <2>1 DEF Held, InHand, PointersIn, OpenSlots, TypeOK
  <2>4. \A g \in Allocated, s \in Slots : heap'[g][s] = heap[g][s]
    BY <2>1, <2>2 DEF Allocated, TypeOK
  <2>5. \A g \in Allocated' \ Allocated, s \in Slots : heap'[g][s] = Nil
    BY <2>1, <2>2 DEF TypeOK
  <2>6. Listed(sigq') = Listed(sigq)
    BY <2>1
  <2> QED  BY <1>0, <2>1, <2>2, <2>3, <2>4, <2>5, <2>6 DEF Promised!Program, InReach
<1>2. ASSUME NEW c \in Cells, NEW o \in Objects, Finalize(o, c)  PROVE Goal
  <2>1. /\ UNCHANGED <<heap, color, fzable, sigq, pslot, open>>
        /\ o \in finlist /\ finlist' = finlist \ {o}
        /\ cell' \in {cell, [cell EXCEPT ![c] = o]}
    BY <1>2 DEF Finalize
  <2>2. Held' \subseteq Held
    BY <2>1 DEF Held, InHand, PointersIn, OpenSlots, TypeOK
  <2> QED  BY <1>0, <2>1, <2>2, ProgramFrame DEF Allocated
<1>3. ASSUME NEW c \in Cells, NEW v \in Objects \cup {Nil}, SetCell(c, v)  PROVE Goal
  <2>1. v \in InReach \cup {Nil}
    BY <1>0, <1>3, LoadsInReach, CellsAreHeld DEF SetCell, Held, PointersIn, OpenSlots
  <2>2. Held' \subseteq Held \cup ({v} \ {Nil})
    BY <1>3 DEF SetCell, Held, InHand, PointersIn, OpenSlots, TypeOK
  <2>3. Held' \subseteq InReach
    BY <1>0, <2>1, <2>2
  <2> QED  BY <1>3, <2>3, ProgramFrame DEF SetCell, Allocated
<1>4. ASSUME NEW l \in Objects, NEW t \in Slots, NEW v \in Objects \cup {Nil}, Store(l, t, v)
      PROVE  Goal
  <2>1. l \in InReach /\ v \in InReach \cup {Nil}
    BY <1>0, <1>4, CellsAreHeld, ObjectsAssumption DEF Store
  <2>2. /\ heap' = [heap EXCEPT ![l][t] = v]
        /\ UNCHANGED <<color, cell, pslot, open, finlist, fzable, sigq>>
    BY <1>4 DEF Store
  <2>3. \A g \in Allocated, s \in Slots :
            heap'[g][s] # heap[g][s] => g = l /\ heap'[g][s] = v
    BY <2>2 DEF Allocated, TypeOK
  <2>4. Allocated' = Allocated /\ Held' = Held /\ Listed(sigq') = Listed(sigq)
    BY <2>2 DEF Allocated, Held, InHand, PointersIn, OpenSlots
  <2> QED  BY <1>0, <2>1, <2>2, <2>3, <2>4 DEF Promised!Program, InReach
<1>5. ASSUME NEW x \in PSlots, NEW v \in Objects \cup {Nil}, StorePersistent(x, v)  PROVE Goal
  <2>1. v \in InReach \cup {Nil}
    BY <1>0, <1>5, CellsAreHeld DEF StorePersistent
  <2>2. Held' \subseteq Held \cup ({v} \ {Nil})
    BY <1>5 DEF StorePersistent, Held, InHand, PointersIn, OpenSlots, TypeOK
  <2>3. Held' \subseteq InReach
    BY <1>0, <2>1, <2>2
  <2> QED  BY <1>5, <2>3, ProgramFrame DEF StorePersistent, Allocated
<1>6. ASSUME NEW st \in Stores, Commit(st)  PROVE Goal
  BY <1>6, SameFrame DEF Commit, Allocated
<1>7. ASSUME NEW st \in Stores, NEW written \in SUBSET PSlots, CommitFails(st, written)
      PROVE  Goal
  BY <1>7, SameFrame DEF CommitFails, Allocated
<1>8. ASSUME NEW o \in Objects, RegisterForFinalization(o)  PROVE Goal
  <2>1. o \in InReach
    BY <1>0, <1>8, CellsAreHeld, ObjectsAssumption DEF RegisterForFinalization
  <2>2. /\ fzable' = fzable \cup {o}
        /\ UNCHANGED <<heap, color, cell, pslot, open, finlist, sigq>>
    BY <1>8 DEF RegisterForFinalization
  <2>3. Allocated' = Allocated /\ Held' = Held
    BY <2>2 DEF Allocated, Held, InHand, PointersIn, OpenSlots
  <2> QED  BY <1>0, <2>1, <2>2, <2>3, ProgramFrame
<1>9. CASE TakeSignal
  <2>1. Listed(sigq) = Head(sigq) \cup Listed(sigq')
    BY <1>9, ListedHead DEF TakeSignal, TypeOK
  <2>2. /\ finlist' = finlist \cup Head(sigq)
        /\ UNCHANGED <<heap, color, cell, pslot, open, fzable>>
    BY <1>9 DEF TakeSignal
  <2>3. Held' \subseteq Held \cup Listed(sigq)
    BY <2>1, <2>2 DEF Held, InHand, PointersIn, OpenSlots
  <2>4. Held' \subseteq InReach
    BY <1>0, <2>3
  <2> QED  BY <2>1, <2>2, <2>4, ProgramFrame DEF Allocated
<1> QED  BY <1>1, <1>2, <1>3, <1>4, <1>5, <1>6, <1>7, <1>8, <1>9 DEF MutatorStep

-----------------------------------------------------------------------------
(* When an attempt to terminate has nothing left to scan, the black        *)
(* objects are closed, and everything the program holds is among them.     *)

Black == {o \in Objects : color[o] = "black"}

LEMMA TerminationFinds ==
    ASSUME CollectorInvariant, Terminated
    PROVE  /\ Held \cup Listed(sigq) \subseteq Black
           /\ Promised!Closed(Black)
           /\ \A v \in Allocated : ~White(v) => v \in Black
<1>0. TypeOK /\ NoDangling /\ Tricolour /\ Terminating
  BY DEF CollectorInvariant
<1>1. /\ phase = "TERMINATE_T" /\ regray = <<>>
      /\ \A o \in Objects : color[o] \in {"free", "white", "black"}
  BY <1>0 DEF Terminated, NoGray, Terminating, TypeOK, Colors
<1>2. \A v \in Allocated : ~White(v) => v \in Black
  BY <1>1 DEF White, Allocated, Black
<1>3. \A n \in 1..(NCells + 1), v \in Objects : v \notin RootsAt(n) \/ ~White(v)
  BY <1>0, <1>1 DEF Terminating
<1>4. \A x \in OpenSlots : ~White(pslot[x])
  BY <1>0, <1>1 DEF Terminating
<1>5. \A c \in Cells : ~White(cell[c])
  <2> TAKE c \in Cells
  <2>1. c \in 1..(NCells + 1) /\ cell[c] \in RootsAt(c)
    BY RootsAssumption DEF Cells, RootsAt
  <2> QED  BY <1>3, <2>1 DEF White
<1>6. \A v \in finlist \cup Listed(sigq) : ~White(v)
  <2>1. NCells + 1 \in 1..(NCells + 1) /\ NCells + 1 \notin Cells
    BY RootsAssumption DEF Cells
  <2>2. RootsAt(NCells + 1) = Listed(sigq) \cup finlist
    BY <2>1 DEF RootsAt
  <2> QED  BY <1>3, <2>1, <2>2 DEF White
<1>7. \A v \in Held \cup Listed(sigq) : ~White(v) /\ v \in Allocated
  BY <1>0, <1>4, <1>5, <1>6 DEF NoDangling, Held, InHand, PointersIn
<1>8. ASSUME NEW o \in Black, NEW s \in Slots, ~Promised!Weak(o, s)
      PROVE  heap[o][s] \in Black \cup {Nil}
  <2>1. heap[o][s] \in Strong(o)
    BY <1>8 DEF Strong, Weak, Promised!Weak
  <2>2. ~White(heap[o][s])
    BY <1>0, <1>1, <2>1, ListedEmpty DEF Tricolour, Black
  <2>3. heap[o][s] \in Allocated \cup {Nil}
    BY <1>0 DEF NoDangling, Allocated, Black
  <2> QED  BY <1>2, <2>2, <2>3
<1> QED  BY <1>2, <1>7, <1>8 DEF Promised!Closed

(* What is around the roots of a closed set contains all they lead to.     *)
LEMMA NotReachable ==
    ASSUME NEW from \in SUBSET Objects, from \subseteq Black, Promised!Closed(Black)
    PROVE  Promised!Reachable(from) \subseteq Black
<1>1. Black \in SUBSET Objects
  BY DEF Black
<1> QED  BY <1>1 DEF Promised!Reachable

(* A flip collects what is white.                                          *)
LEMMA FlipCollects ==
    ASSUME CollectorInvariant, Flip
    PROVE  \E S \in SUBSET Allocated : Promised!Collect(S)
<1> DEFINE S == {o \in Objects : White(o)}
<1>0. TypeOK /\ NoDangling /\ WeakNoted /\ Terminated
  BY DEF CollectorInvariant, Flip
<1>1. /\ Held \cup Listed(sigq) \subseteq Black
      /\ Promised!Closed(Black)
      /\ \A v \in Allocated : ~White(v) => v \in Black
  BY <1>0, TerminationFinds
<1>2. fzable \subseteq Black
  BY <1>0, <1>1 DEF Flip, NoDangling
<1>3. Promised!Reachable((Held \cup Listed(sigq)) \cup fzable) \subseteq Black
  BY <1>1, <1>2, NotReachable DEF Black
<1>4. S \subseteq Allocated /\ S \cap Black = {}
  BY DEF White, Allocated, Black
<1>5. Allocated' = Black
  BY DEF Flip, Allocated, Black
<1>6. Allocated' = Allocated \ S
  BY <1>1, <1>4, <1>5 DEF Black, Allocated
<1>7. ASSUME NEW o \in Allocated', NEW s \in Slots
      PROVE  heap'[o][s] = IF Promised!Weak(o, s) /\ heap[o][s] \in S THEN Nil ELSE heap[o][s]
  <2>1. o \in Objects /\ color[o] = "black" /\ ~White(o)
    BY <1>5, <1>7 DEF Black, White
  <2>2. heap'[o][s] = IF o \in wkslot /\ s = FirstSlot /\ White(heap[o][s])
                      THEN Nil ELSE heap[o][s]
    BY <2>1 DEF Flip
  <2>3. o \in wkslot <=> o \in WeakObjects
    BY <1>0, <2>1 DEF WeakNoted, TypeOK
  <2>4. heap[o][s] \in S <=> White(heap[o][s])
    BY DEF White
  <2> HIDE DEF S
  <2> QED  BY <2>2, <2>3, <2>4 DEF Promised!Weak
<1>8. Listed(sigq') = Listed(sigq)
  <2>1. sigq' = Enqueued({}) /\ sigq \in Seq(SUBSET Objects) /\ {} \in SUBSET Objects
    BY <1>0 DEF Flip, TypeOK
  <2>2. CASE Len(sigq) < MaxSig
    <3>1. sigq' = Append(sigq, {})
      BY <2>1, <2>2 DEF Enqueued
    <3>2. Listed(Append(sigq, {})) = Listed(sigq) \cup {}
      BY <2>1, ListedAppend
    <3> QED  BY <3>1, <3>2
  <2>3. CASE ~(Len(sigq) < MaxSig)
    BY <2>1, <2>3 DEF Enqueued
  <2> QED  BY <2>2, <2>3
<1>9. Held' = Held /\ fzable' = fzable
  BY DEF Flip, Held, InHand, PointersIn, OpenSlots
<1> HIDE DEF S
<1>10. S \cap Promised!Reachable((Held \cup Listed(sigq)) \cup fzable) = {}
  BY <1>3, <1>4
<1>11. Promised!Collect(S)
  BY <1>6, <1>7, <1>8, <1>9, <1>10 DEF Promised!Collect
<1> QED  BY <1>4, <1>11

-----------------------------------------------------------------------------
(* There is room for what an increment, or a full collection, enqueues.    *)
RoomForSignals ==
    running =>
        /\ phase # "RETURN" \/ fullgc = "first" => Len(sigq) + 1 <= MaxSig
        /\ phase # "RETURN" /\ fullgc = "first" => Len(sigq) + 2 <= MaxSig

LEMMA OneLess ==
    ASSUME NEW n \in Nat, NEW m \in Nat, n + 2 <= m
    PROVE  n + 1 <= m /\ (n + 1) + 1 <= m
  OBVIOUS

LEMMA RoomStep ==
    ASSUME "signals waiting" \notin Risks, TypeOK, RoomForSignals, Next
    PROVE  RoomForSignals'
<1>0. Len(sigq) \in Nat /\ MaxSig \in Nat
  BY LenProperties, SizesAssumption DEF TypeOK
<1>1. CASE MutatorStep
  BY <1>1, MutatorKeeps DEF Alone, RoomForSignals
<1>2. CASE Entered
  <2>1. sigq' = sigq /\ Len(sigq) + 2 <= MaxSig
    BY <1>2 DEF Entered, StartIncrement, GcNow, CloseStore, SignalsFit
  <2>2. Len(sigq') = Len(sigq)
    BY <2>1
  <2>3. Len(sigq) + 1 <= MaxSig
    BY <1>0, <2>1, OneLess
  <2> QED  BY <2>1, <2>2, <2>3 DEF RoomForSignals
<1>3. CASE HandOver \/ Flip
  <2>1. PICK B \in SUBSET Objects : sigq' = Enqueued(B)
    BY <1>3 DEF HandOver, Flip, TypeOK
  <2>2. Len(sigq') \in {Len(sigq), Len(sigq) + 1}
    <3>1. CASE Len(sigq) < MaxSig
      <4>1. sigq' = Append(sigq, B)
        BY <2>1, <3>1 DEF Enqueued
      <4>2. Len(Append(sigq, B)) = Len(sigq) + 1
        BY ListedAppend DEF TypeOK
      <4> QED  BY <4>1, <4>2
    <3>2. CASE ~(Len(sigq) < MaxSig)
      BY <2>1, <3>2 DEF Enqueued
    <3> QED  BY <3>1, <3>2
  <2>3. running /\ phase = "TERMINATE_T" /\ phase' = "RETURN" /\ fullgc' = fullgc
    BY <1>3 DEF HandOver, Flip, Terminated
  <2>4. fullgc = "first" => Len(sigq) + 2 <= MaxSig
    BY <2>3 DEF RoomForSignals
  <2>5. fullgc = "first" => Len(sigq') + 1 <= MaxSig
    <3> HAVE fullgc = "first"
    <3>1. Len(sigq) + 2 <= MaxSig
      BY <2>4
    <3>2. Len(sigq) + 1 <= MaxSig
      BY <1>0, <3>1, OneLess
    <3>3. (Len(sigq) + 1) + 1 <= MaxSig
      BY <1>0, <3>1, OneLess
    <3> QED  BY <2>2, <3>2, <3>3
  <2> QED  BY <2>3, <2>5 DEF RoomForSignals
<1>4. CASE Return
  <2>1. CASE fullgc = "first"
    BY <1>0, <1>4, <2>1 DEF Return, RoomForSignals
  <2>2. CASE fullgc # "first"
    BY <1>4, <2>2 DEF Return, RoomForSignals
  <2> QED  BY <2>1, <2>2
<1>5. CASE OutOfTime
  BY <1>0, <1>5 DEF OutOfTime, RoomForSignals
<1>6. CASE CollectorStep /\ ~(HandOver \/ Flip \/ Return \/ OutOfTime)
  <2>1. running /\ UNCHANGED <<sigq, fullgc>> /\ phase # "RETURN"
    BY <1>6 DEF CollectorStep, StartCycle, ScanRoot, RootsScanned, RootScans, Blacken, Traversals,
                Traversed, ScanBucket, LeaveBuckets, Reblacken, Reblackened, StartTermination,
                TerminateExternals
  <2> QED  BY <1>0, <2>1 DEF RoomForSignals
<1> QED  BY <1>1, <1>2, <1>3, <1>4, <1>5, <1>6 DEF Next

(* The end of a cycle that finds dead objects to finalize hands them over. *)
LEMMA HandOverHandsOver ==
    ASSUME CollectorInvariant, RoomForSignals, HandOver
    PROVE  \E S \in SUBSET fzable : Promised!HandOver(S)
<1> DEFINE dead == {o \in fzable : White(o)}
<1>0. TypeOK /\ NoDangling /\ Terminated
  BY DEF CollectorInvariant, HandOver
<1>1. /\ Held \cup Listed(sigq) \subseteq Black
      /\ Promised!Closed(Black)
  BY <1>0, TerminationFinds
<1>2. Promised!Reachable(Held \cup Listed(sigq)) \subseteq Black
  BY <1>1, NotReachable DEF Black
<1>3. dead \in SUBSET fzable /\ dead \in SUBSET Objects /\ dead \cap Black = {}
  BY <1>0 DEF TypeOK, White, Black
<1>4. fzable' = fzable \ dead /\ sigq' = Enqueued(dead)
  BY DEF HandOver
<1> HIDE DEF dead
<1>5. Listed(sigq') = Listed(sigq) \cup dead
  <2>1. sigq \in Seq(SUBSET Objects) /\ Len(sigq) \in Nat /\ MaxSig \in Nat
    BY <1>0, LenProperties, SizesAssumption DEF TypeOK
  <2>2. Len(sigq) < MaxSig
    BY <1>0, <2>1 DEF RoomForSignals, Terminated
  <2>3. sigq' = Append(sigq, dead)
    BY <1>4, <2>2 DEF Enqueued
  <2> QED  BY <1>3, <2>1, <2>3, ListedAppend
<1>6. UNCHANGED <<heap, Allocated, Held>>
  BY DEF HandOver, Allocated, Held, InHand, PointersIn, OpenSlots
<1>7. Promised!HandOver(dead)
  BY <1>2, <1>3, <1>4, <1>5, <1>6 DEF Promised!HandOver
<1> QED  BY <1>3, <1>7

-----------------------------------------------------------------------------
(* What the collector does: a flip and a hand-over are steps of the graph, *)
(* a store that is closed is given up by the program, and the rest is not  *)
(* seen.                                                                   *)
LEMMA CollectorRefines ==
    ASSUME CollectorInvariant, RoomForSignals, Entered \/ CollectorStep
    PROVE  Promised!Next \/ GraphSame
<1> USE DEF program
<1>0. TypeOK /\ NoDangling
  BY DEF CollectorInvariant
<1>1. CASE Flip
  BY <1>1, FlipCollects DEF Promised!Next
<1>2. CASE HandOver
  BY <1>2, HandOverHandsOver DEF Promised!Next
<1>3. CASE ~Flip /\ ~HandOver
  <2>1. Allocated' = Allocated
    BY <1>0, <1>3, Darkening
  <2>2. CASE Return
    <3>1. UNCHANGED <<heap, cell, pslot, finlist, fzable, sigq>> /\ open' \subseteq open
      BY <2>2 DEF Return
    <3>2. Held' \subseteq Held
      BY <3>1 DEF Held, InHand, PointersIn, OpenSlots
    <3>3. Promised!Program
      BY <1>0, <2>1, <3>1, <3>2, HeldInReach, ProgramFrame
    <3> QED  BY <3>3 DEF Promised!Next
  <2>3. CASE ~Return
    <3>1. UNCHANGED <<heap, cell, pslot, open, finlist, fzable, sigq>>
      BY <1>3, <2>3
         DEF Entered, StartIncrement, GcNow, CloseStore, CollectorStep, OutOfTime, StartCycle,
             ScanRoot, RootsScanned, Blacken, Traversed, ScanBucket, LeaveBuckets, Reblacken,
             Reblackened, StartTermination, TerminateExternals
    <3> QED  BY <2>1, <3>1, SameFrame
  <2> QED  BY <2>2, <2>3
<1> QED  BY <1>1, <1>2, <1>3

(* The heap is a graph from which only what cannot be reached disappears,  *)
(* and in which objects are handed over for finalization only when they    *)
(* cannot be reached, and before they disappear; increments, colours and   *)
(* the write barrier cannot be seen (HeapSpec; run_gen, generationFlip,    *)
(* gc_cycle_finish_ok, IRC_tripWriteBarrier).                              *)
THEOREM HeapKept ==
    ASSUME Disciplined, "signals waiting" \notin Risks
    PROVE  Spec => HeapImplemented
<1>1. Init => RoomForSignals
  BY DEF Init, RoomForSignals
<1>2. ASSUME CollectorInvariant, RoomForSignals, [Next]_vars  PROVE RoomForSignals'
  <2>1. CASE Next
    BY <1>2, <2>1, RoomStep DEF CollectorInvariant
  <2>2. CASE UNCHANGED vars
    BY <1>2, <2>2 DEF vars, RoomForSignals
  <2> QED  BY <1>2, <2>1, <2>2
<1>3. Init => Promised!Init
  <2> SUFFICES ASSUME Init PROVE Promised!Init
    OBVIOUS
  <2>1. Listed(sigq) = {}
    BY ListedEmpty DEF Init
  <2>2. Allocated = {} /\ Held = {}
    BY DEF Init, Allocated, Held, InHand, PointersIn, OpenSlots
  <2> QED  BY <2>1, <2>2 DEF Init, Promised!Init
<1>4. ASSUME CollectorInvariant, RoomForSignals, [Next]_vars
      PROVE  [Promised!Next]_(Promised!vars)
  <2>0. TypeOK /\ NoDangling
    BY <1>4 DEF CollectorInvariant
  <2>1. CASE MutatorStep
    BY <2>0, <2>1, ProgramStep, SameIs DEF Promised!Next
  <2>2. CASE Entered \/ CollectorStep
    BY <1>4, <2>2, CollectorRefines, SameIs
  <2>3. CASE UNCHANGED vars
    <3>1. GraphSame
      BY <2>3, SameFrame DEF vars, Allocated
    <3> QED  BY <3>1, SameIs
  <2> QED  BY <1>4, <2>1, <2>2, <2>3 DEF Next
<1>5. Spec => []CollectorInvariant
  BY Invariance
<1> QED  BY <1>1, <1>2, <1>3, <1>4, <1>5, PTL DEF Spec, HeapImplemented, Promised!Spec
=============================================================================
