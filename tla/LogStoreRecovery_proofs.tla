----------------------- MODULE LogStoreRecovery_proofs -----------------------
(***************************************************************************)
(* Proofs about LogStore, for clients and crashes as Disciplined says:     *)
(* that clients read what they wrote, that every commit can be read, that  *)
(* the store can be opened again unless a hint has gone astray, and that   *)
(* the commits survive crashes (StableStore).                              *)
(***************************************************************************)
EXTENDS LogStore_proofs

\* What the store does not promise: that a commit is found where the end of the file is
\* not a commit record and the header names none (blind, lssv3.c:1433), that the power may
\* fail after records were moved to a volume which is not synced (unsynced move), or after
\* lss_openx has taken up what a dead process had not synced (unsynced recovery), and that
\* a volume is favored which has fewer generations than another (backlevel).
Disciplined ==
  /\ "blind" \notin Risks /\ "unsynced move" \notin Risks
  /\ "unsynced recovery" \notin Risks /\ "backlevel" \notin Risks

-----------------------------------------------------------------------------
(* What a commit record leads to, in any volumes L                         *)

Has(L, at) == at[2] \in 1 .. Len(L[at[1]])
Rec(L, at) == L[at[1]][at[2]]
HasKind(L, at, kind) == Has(L, at) /\ Rec(L, at).kind = kind

LineAtOf(L, c) == Rec(L, c.mix).lineAt
LinesOf(L, c) == Rec(L, c.mix).lines

\* That the index line l is at a locator.
HasLine(L, at, l) == HasKind(L, at, "INDX") /\ Rec(L, at).line = l

Readable(L, c) ==
  /\ HasKind(L, c.mix, "MIDX")
  /\ \A l \in LinesOf(L, c) : HasLine(L, LineAtOf(L, c)[l], l)

EntryOf(L, c) ==
  [r \in Record |->
     IF LineOf[r] \notin LinesOf(L, c) THEN Nowhere
     ELSE IF c.diffs[r] # NoDiff THEN c.diffs[r]
     ELSE Rec(L, LineAtOf(L, c)[LineOf[r]]).entry[r]]

\* That val is what is read at a locator.
LeadsIn(L, at, val) ==
  IF at = Nowhere THEN val = Absent ELSE HasKind(L, at, "DATA") /\ Rec(L, at).val = val

LeadsTo(L, c, left) ==
  Readable(L, c) /\ \A r \in Record : LeadsIn(L, EntryOf(L, c)[r], left[r])

\* All that has to be there for c to be read.
RefsOf(L, c) ==
  {c.mix} \cup {LineAtOf(L, c)[l] : l \in LinesOf(L, c)}
    \cup ({EntryOf(L, c)[r] : r \in Record} \ {Nowhere})

SameAt(L, M, at) == Has(M, at) /\ Rec(M, at) = Rec(L, at)

\* A commit record leads to the same in other volumes that have all that it refers to.
LEMMA Carries ==
  ASSUME NEW L, NEW M, NEW c, Readable(L, c),
         \A at \in RefsOf(L, c) : SameAt(L, M, at)
  PROVE  /\ Readable(M, c) /\ LinesOf(M, c) = LinesOf(L, c)
         /\ LineAtOf(M, c) = LineAtOf(L, c)
         /\ EntryOf(M, c) = EntryOf(L, c) /\ RefsOf(M, c) = RefsOf(L, c)
<1>1. SameAt(L, M, c.mix)
  BY DEF RefsOf
<1>2. LinesOf(M, c) = LinesOf(L, c) /\ LineAtOf(M, c) = LineAtOf(L, c)
  BY <1>1 DEF SameAt, LinesOf, LineAtOf
<1>3. \A l \in LinesOf(L, c) : SameAt(L, M, LineAtOf(L, c)[l])
  BY DEF RefsOf
<1>4. HasKind(M, c.mix, "MIDX")
  BY <1>1 DEF SameAt, Readable, HasKind
<1>5. \A l \in LinesOf(L, c) : HasLine(M, LineAtOf(L, c)[l], l)
  BY <1>3 DEF SameAt, Readable, HasKind, HasLine
<1>6. EntryOf(M, c) = EntryOf(L, c)
  <2>1. ASSUME NEW r \in Record  PROVE EntryOf(M, c)[r] = EntryOf(L, c)[r]
    BY <1>2, <1>3 DEF EntryOf, SameAt
  <2> QED  BY <2>1 DEF EntryOf
<1>7. RefsOf(M, c) = RefsOf(L, c)
  BY <1>2, <1>6 DEF RefsOf
<1> QED  BY <1>2, <1>4, <1>5, <1>6, <1>7 DEF Readable

LEMMA CarriesLeads ==
  ASSUME NEW L, NEW M, NEW c, NEW left, LeadsTo(L, c, left),
         \A at \in RefsOf(L, c) : SameAt(L, M, at)
  PROVE  LeadsTo(M, c, left) /\ RefsOf(M, c) = RefsOf(L, c)
<1>1. Readable(M, c) /\ EntryOf(M, c) = EntryOf(L, c) /\ RefsOf(M, c) = RefsOf(L, c)
  BY Carries DEF LeadsTo
<1>2. ASSUME NEW r \in Record  PROVE LeadsIn(M, EntryOf(L, c)[r], left[r])
  <2> DEFINE at == EntryOf(L, c)[r]
  <2>1. CASE at = Nowhere
    BY <2>1 DEF LeadsTo, LeadsIn
  <2>2. CASE at # Nowhere
    <3>1. SameAt(L, M, at)
      BY <2>2 DEF RefsOf
    <3>2. LeadsIn(L, at, left[r])
      BY DEF LeadsTo
    <3> HIDE DEF at
    <3>3. LeadsIn(M, at, left[r])
      BY <2>2, <3>1, <3>2 DEF LeadsIn, HasKind, SameAt
    <3> QED  BY <3>3 DEF at
  <2> QED  BY <2>1, <2>2
<1> QED  BY <1>1, <1>2 DEF LeadsTo

LEMMA RefsPresent ==
  ASSUME NEW L, NEW c, NEW left, LeadsTo(L, c, left), NEW at \in RefsOf(L, c)
  PROVE  Has(L, at)
<1>1. CASE at = c.mix
  BY <1>1 DEF LeadsTo, Readable, HasKind
<1>2. ASSUME NEW l \in LinesOf(L, c), at = LineAtOf(L, c)[l]  PROVE Has(L, at)
  BY <1>2 DEF LeadsTo, Readable, HasKind, HasLine
<1>3. ASSUME NEW r \in Record, at = EntryOf(L, c)[r], at # Nowhere  PROVE Has(L, at)
  BY <1>3 DEF LeadsTo, LeadsIn, HasKind
<1> QED  BY <1>1, <1>2, <1>3 DEF RefsOf

\* No locator is nowhere that a record is at.
LEMMA HasNotNowhere ==
  ASSUME NEW L, NEW at, Has(L, at)  PROVE at # Nowhere
<1>1. Nowhere[2] = 0
  BY DEF Nowhere
<1> QED  BY <1>1 DEF Has

-----------------------------------------------------------------------------
(* The same in the volumes of a state                                      *)

LEMMA StoreHas ==
  ASSUME TypeOK, NEW at, at[1] \in Volume
  PROVE  /\ InStore(at) <=> Has(Logs, at)
         /\ RecordAt(at) = Rec(Logs, at)
         /\ \A kind : IsAt(at, kind) <=> HasKind(Logs, at, kind)
<1>1. RecordAt(at) = Rec(Logs, at)
  BY DEF RecordAt, Rec, Logs
<1>2. InStore(at) <=> Has(Logs, at)
  BY LogFacts DEF InStore, Has
<1> QED  BY <1>1, <1>2 DEF IsAt, HasKind

LEMMA CommitParts ==
  ASSUME NEW c \in CommitRecordType
  PROVE  /\ c.gen \in Nat /\ c.prev \in Locator /\ c.self \in Locator /\ c.mark \in Locator
         /\ c.mix \in Locator /\ c.diffs \in [Record -> Locator \cup {NoDiff}]
         /\ c.fuel \in Int
  BY DEF CommitRecordType

LEMMA StoreLoads ==
  ASSUME TypeOK, NEW c \in CommitRecordType
  PROVE  /\ LoadLines(c) = LinesOf(Logs, c) /\ LoadLineAt(c) = LineAtOf(Logs, c)
         /\ Loadable(c) <=> Readable(Logs, c)
         /\ Readable(Logs, c) =>
              /\ LoadEntry(c) = EntryOf(Logs, c)
              /\ LinesOf(Logs, c) \subseteq Line /\ LineAtOf(Logs, c) \in [Line -> Locator]
              /\ EntryOf(Logs, c) \in [Record -> Locator]
              /\ RefsOf(Logs, c) \subseteq Locator
<1>1. c.mix \in Locator /\ c.mix[1] \in Volume
  BY CommitParts, Locators
<1>2. RecordAt(c.mix) = Rec(Logs, c.mix)
      /\ (IsAt(c.mix, "MIDX") <=> HasKind(Logs, c.mix, "MIDX"))
  BY <1>1, StoreHas
<1>3. LoadLines(c) = LinesOf(Logs, c) /\ LoadLineAt(c) = LineAtOf(Logs, c)
  BY <1>2 DEF LoadLines, LinesOf, LoadLineAt, LineAtOf
<1>4. ASSUME HasKind(Logs, c.mix, "MIDX")
      PROVE  /\ LinesOf(Logs, c) \subseteq Line /\ LineAtOf(Logs, c) \in [Line -> Locator]
             /\ \A l \in LinesOf(Logs, c) :
                  LET at == LineAtOf(Logs, c)[l]
                  IN  /\ at[1] \in Volume /\ RecordAt(at) = Rec(Logs, at)
                      /\ IsAt(at, "INDX") <=> HasKind(Logs, at, "INDX")
  <2>1. RecordAt(c.mix) \in RecordType /\ RecordAt(c.mix).kind = "MIDX"
    BY <1>1, <1>2, <1>4, StoredRecord DEF IsAt
  <2>2. LoadLines(c) \subseteq Line /\ LoadLineAt(c) \in [Line -> Locator]
    BY <2>1, RecordParts DEF LoadLines, LoadLineAt
  <2>3. ASSUME NEW l \in LinesOf(Logs, c)
        PROVE  LET at == LineAtOf(Logs, c)[l]
               IN  /\ at[1] \in Volume /\ RecordAt(at) = Rec(Logs, at)
                   /\ IsAt(at, "INDX") <=> HasKind(Logs, at, "INDX")
    <3> DEFINE at == LineAtOf(Logs, c)[l]
    <3>1. at \in Locator
      BY <1>3, <2>2
    <3> HIDE DEF at
    <3>2. at[1] \in Volume
      BY <3>1, Locators
    <3>3. RecordAt(at) = Rec(Logs, at) /\ (IsAt(at, "INDX") <=> HasKind(Logs, at, "INDX"))
      BY <3>2, StoreHas
    <3> QED  BY <3>2, <3>3 DEF at
  <2> QED  BY <1>3, <2>2, <2>3
<1>5. Loadable(c) <=> Readable(Logs, c)
  BY <1>2, <1>3, <1>4 DEF Loadable, Readable, HasLine
<1>6. ASSUME Readable(Logs, c)
      PROVE  /\ LoadEntry(c) = EntryOf(Logs, c) /\ EntryOf(Logs, c) \in [Record -> Locator]
             /\ LinesOf(Logs, c) \subseteq Line /\ LineAtOf(Logs, c) \in [Line -> Locator]
             /\ RefsOf(Logs, c) \subseteq Locator
  <2>1. Loadable(c) /\ HasKind(Logs, c.mix, "MIDX")
    BY <1>5, <1>6 DEF Readable
  <2>2. ASSUME NEW r \in Record  PROVE LoadEntry(c)[r] = EntryOf(Logs, c)[r]
    BY <1>3, <1>4, <2>1 DEF LoadEntry, EntryOf
  <2>3. LoadEntry(c) = EntryOf(Logs, c)
    BY <2>2 DEF LoadEntry, EntryOf
  <2>4. LoadEntry(c) \in [Record -> Locator]
    BY <2>1, LoadedTypes
  <2>5. RefsOf(Logs, c) \subseteq Locator
    BY <1>1, <1>4, <2>1, <2>3, <2>4 DEF RefsOf
  <2> QED  BY <1>4, <2>1, <2>3, <2>4, <2>5
<1> QED  BY <1>3, <1>5, <1>6

\* What a client reads where a snapshot is led to.
LEMMA ContentsAre ==
  ASSUME TypeOK, NEW at \in [Record -> Locator], NEW left \in Snapshot,
         \A r \in Record : LeadsIn(Logs, at[r], left[r])
  PROVE  Contents(at) = left
<1>1. left \in [Record -> Value \cup {Absent}]
  BY DEF Snapshot
<1>2. ASSUME NEW r \in Record  PROVE Contents(at)[r] = left[r]
  <2> DEFINE a == at[r]
  <2>1. a[1] \in Volume
    BY Locators
  <2> HIDE DEF a
  <2>2. RecordAt(a) = Rec(Logs, a) /\ (IsAt(a, "DATA") <=> HasKind(Logs, a, "DATA"))
    BY <2>1, StoreHas
  <2>3. LeadsIn(Logs, a, left[r])
    BY DEF a
  <2>4. left[r] = IF a = Nowhere THEN Absent
                  ELSE IF IsAt(a, "DATA") THEN RecordAt(a).val ELSE "garbage"
    BY <2>2, <2>3 DEF LeadsIn
  <2> QED  BY <2>4 DEF Contents, a
<1> QED  BY <1>1, <1>2 DEF Contents

\* Nothing is changed in the volumes, but something may be added.
Extends == \A v \in Volume : Begins(Logs[v], Logs'[v])

LogTypes == \A v \in Volume : Logs[v] \in Seq(RecordType) /\ Len(Logs[v]) \in Nat

LEMMA LogTypesHold == TypeOK => LogTypes
  BY LogFacts DEF LogTypes

LEMMA LogTypesNext == TypeOK' => LogTypes'
  BY LogTypesHold, PTL

LEMMA ExtendsSame ==
  ASSUME TypeOK, TypeOK', Extends, NEW at \in Locator, Has(Logs, at)
  PROVE  SameAt(Logs, Logs', at)
<1>1. at[1] \in Volume /\ at[2] \in Nat
  BY Locators
<1>2. Logs[at[1]] \in Seq(RecordType) /\ Logs'[at[1]] \in Seq(RecordType)
      /\ Len(Logs[at[1]]) \in Nat /\ Len(Logs'[at[1]]) \in Nat
  BY <1>1, LogTypesHold, LogTypesNext DEF LogTypes
<1>3. Begins(Logs[at[1]], Logs'[at[1]])
  BY <1>1 DEF Extends
<1> QED  BY <1>1, <1>2, <1>3 DEF SameAt, Has, Rec, Begins

-----------------------------------------------------------------------------
(* The index in memory                                                     *)

\* The volumes that will still be open when the commit is done.
InUse == attached \ detaching

\* The index line l is at a locator, with the entries that are in memory.
LineRight(L, at, l, e) ==
  HasLine(L, at, l) /\ \A r \in Record : LineOf[r] = l => Rec(L, at).entry[r] = e[r]

\* The index leads to what clients have written; what it has of the index in the
\* store is true, and a commit has written all of it.
InMemory ==
  /\ \A r \in Record : LeadsIn(Logs, entry[r], view[r])
  /\ \A r \in Record : entry[r] # Nowhere => LineOf[r] \in known
  /\ \A l \in Line : lineAt[l] # Nowhere => LineRight(Logs, lineAt[l], l, entry)
  /\ cr.mix # Nowhere =>
       Readable(Logs, cr) /\ LinesOf(Logs, cr) = known /\ EntryOf(Logs, cr) = entry
  /\ step \in {"header", "flush", "aux", "record", "sync"} => cr.mix # Nowhere

\* Nothing that is needed is in a volume that is closed.
Placed ==
  /\ tip \in InUse
  /\ \A r \in Record : entry[r] # Nowhere => entry[r][1] \in InUse
  /\ \A l \in Line : lineAt[l] # Nowhere => lineAt[l][1] \in InUse
  /\ cr.mix # Nowhere => \A at \in RefsOf(Logs, cr) : at[1] \in InUse
  /\ cr.self # Nowhere => cr.self[1] \in InUse /\ IsCommit(file[cr.self[1]], cr.self[2])

LEMMA SameCommit ==
  ASSUME NEW L, NEW c, NEW d, d.mix = c.mix, d.diffs = c.diffs
  PROVE  /\ Readable(L, d) <=> Readable(L, c)
         /\ LinesOf(L, d) = LinesOf(L, c) /\ LineAtOf(L, d) = LineAtOf(L, c)
         /\ EntryOf(L, d) = EntryOf(L, c) /\ RefsOf(L, d) = RefsOf(L, c)
         /\ \A left : LeadsTo(L, d, left) <=> LeadsTo(L, c, left)
<1>1. LinesOf(L, d) = LinesOf(L, c) /\ LineAtOf(L, d) = LineAtOf(L, c)
  BY DEF LinesOf, LineAtOf
<1>2. EntryOf(L, d) = EntryOf(L, c)
  BY <1>1 DEF EntryOf
<1>3. Readable(L, d) <=> Readable(L, c)
  BY <1>1 DEF Readable
<1>4. RefsOf(L, d) = RefsOf(L, c)
  BY <1>1, <1>2 DEF RefsOf
<1> QED  BY <1>1, <1>2, <1>3, <1>4 DEF LeadsTo

\* What the commit record in memory leads to is what the index in memory does.
LEMMA MemoryLeads ==
  ASSUME InMemory, cr.mix # Nowhere
  PROVE  LeadsTo(Logs, cr, view)
  BY DEF InMemory, LeadsTo

LEMMA MemoryRefs ==
  ASSUME TypeOK, InMemory, cr.mix # Nowhere, NEW at \in RefsOf(Logs, cr)
  PROVE  at \in Locator /\ Has(Logs, at)
<1>1. cr \in CommitRecordType /\ Readable(Logs, cr)
  BY DEF InMemory, TypeOK
<1>2. RefsOf(Logs, cr) \subseteq Locator
  BY <1>1, StoreLoads
<1> QED  BY <1>2, MemoryLeads, RefsPresent

\* A line that is somewhere stays there.
LEMMA LineStays ==
  ASSUME TypeOK, TypeOK', Extends, NEW at \in Locator, NEW l, NEW e, LineRight(Logs, at, l, e)
  PROVE  LineRight(Logs', at, l, e)
<1>1. SameAt(Logs, Logs', at)
  BY ExtendsSame DEF LineRight, HasLine, HasKind
<1> QED  BY <1>1 DEF LineRight, HasLine, HasKind, SameAt

LEMMA ValueStays ==
  ASSUME TypeOK, TypeOK', Extends, NEW at \in Locator, NEW val, LeadsIn(Logs, at, val)
  PROVE  LeadsIn(Logs', at, val)
<1>1. CASE at = Nowhere
  BY <1>1 DEF LeadsIn
<1>2. CASE at # Nowhere
  <2>1. SameAt(Logs, Logs', at)
    BY <1>2, ExtendsSame DEF LeadsIn, HasKind
  <2> QED  BY <1>2, <2>1 DEF LeadsIn, HasKind, SameAt
<1> QED  BY <1>1, <1>2

\* The steps that change neither the index nor what is in the volumes.
LEMMA MemoryStays ==
  ASSUME TypeOK, TypeOK', Extends, InMemory, UNCHANGED <<entry, lineAt, known, view>>,
         cr'.mix = cr.mix, cr'.diffs = cr.diffs,
         step' \in {"header", "flush", "aux", "record", "sync"} => cr.mix # Nowhere
  PROVE  InMemory' /\ (cr.mix # Nowhere => RefsOf(Logs', cr') = RefsOf(Logs, cr))
<1>1. entry \in [Record -> Locator] /\ lineAt \in [Line -> Locator]
  BY DEF TypeOK
<1>2. \A r \in Record : LeadsIn(Logs', entry'[r], view'[r])
  <2> TAKE r \in Record
  <2>1. entry[r] \in Locator /\ LeadsIn(Logs, entry[r], view[r])
    BY <1>1 DEF InMemory
  <2>2. LeadsIn(Logs', entry[r], view[r])
    BY <2>1, ValueStays
  <2> QED  BY <2>2
<1>3. \A l \in Line : lineAt'[l] # Nowhere => LineRight(Logs', lineAt'[l], l, entry')
  <2> SUFFICES ASSUME NEW l \in Line, lineAt[l] # Nowhere
               PROVE  LineRight(Logs', lineAt[l], l, entry)
    OBVIOUS
  <2>1. lineAt[l] \in Locator /\ LineRight(Logs, lineAt[l], l, entry)
    BY <1>1 DEF InMemory
  <2> QED  BY <2>1, LineStays
<1>4. ASSUME cr.mix # Nowhere
      PROVE  /\ Readable(Logs', cr') /\ LinesOf(Logs', cr') = known
             /\ EntryOf(Logs', cr') = entry /\ RefsOf(Logs', cr') = RefsOf(Logs, cr)
  <2>1. \A at \in RefsOf(Logs, cr) : SameAt(Logs, Logs', at)
    BY <1>4, MemoryRefs, ExtendsSame
  <2>2. Readable(Logs, cr) /\ LinesOf(Logs, cr) = known /\ EntryOf(Logs, cr) = entry
    BY <1>4 DEF InMemory
  <2>3. /\ Readable(Logs', cr) /\ LinesOf(Logs', cr) = known /\ EntryOf(Logs', cr) = entry
        /\ RefsOf(Logs', cr) = RefsOf(Logs, cr)
    BY <2>1, <2>2, Carries
  <2> QED  BY <2>3, SameCommit
<1>5. InMemory'
  BY <1>2, <1>3, <1>4 DEF InMemory
<1> QED  BY <1>4, <1>5

\* ... and leave the volumes open.
LEMMA PlacedStays ==
  ASSUME TypeOK, TypeOK', Grows, InMemory, Placed, UNCHANGED <<entry, lineAt, known, view>>,
         cr'.mix = cr.mix, cr'.diffs = cr.diffs, cr'.self = cr.self,
         step' \in {"header", "flush", "aux", "record", "sync"} => cr.mix # Nowhere,
         InUse \subseteq InUse', tip' \in InUse'
  PROVE  InMemory' /\ Placed'
<1>1. Extends
  BY DEF Grows, Extends
<1>2. InMemory' /\ (cr.mix # Nowhere => RefsOf(Logs', cr') = RefsOf(Logs, cr))
  BY <1>1, MemoryStays
<1>3. cr.self # Nowhere =>
        cr.self[1] \in InUse' /\ IsCommit(file'[cr.self[1]], cr.self[2])
  <2> SUFFICES ASSUME cr.self # Nowhere
               PROVE  cr.self[1] \in InUse' /\ IsCommit(file'[cr.self[1]], cr.self[2])
    OBVIOUS
  <2>1. cr.self[1] \in InUse /\ IsCommit(file[cr.self[1]], cr.self[2])
    BY DEF Placed
  <2>2. cr.self[1] \in Volume
    BY Locators, CommitParts DEF TypeOK
  <2>3. Commits(file'[cr.self[1]]) = Commits(file[cr.self[1]])
    BY <2>2 DEF Grows, Quiet
  <2> QED  BY <2>1, <2>3 DEF IsCommit, Commits
<1>4. Placed'
  BY <1>2, <1>3 DEF Placed
<1> QED  BY <1>2, <1>4

\* A difference is put into the list only if the master index tells the rest.
LEMMA StoreDiffs ==
  ASSUME TypeOK, NEW r \in Record, NEW at \in Locator, NEW fuel \in Nat,
         Store(r, at, fuel), cr'.mix # Nowhere
  PROVE  /\ cr.mix # Nowhere /\ cr'.mix = cr.mix
         /\ cr'.diffs = [cr.diffs EXCEPT ![r] = at]
         /\ at # Nowhere => LineOf[r] \in known
<1> DEFINE c == NewLine(cr, r, at)
           d == DiffStore(c, r, at)
<1>1. cr \in CommitRecordType
  BY DEF TypeOK
<1>2. ASSUME NEW b \in CommitRecordType
      PROVE  RollIn(b) \in CommitRecordType /\ RollIn(b).mix = Nowhere
  BY Locators DEF RollIn, NoDiffs, CommitRecordType
<1>3. ASSUME NEW b \in CommitRecordType
      PROVE  /\ [b EXCEPT !.diffs[r] = at] \in CommitRecordType
             /\ [b EXCEPT !.diffs[r] = at].mix = b.mix
             /\ [b EXCEPT !.diffs[r] = at].diffs = [b.diffs EXCEPT ![r] = at]
  BY DEF CommitRecordType
<1>4. c \in CommitRecordType /\ (c.mix # Nowhere => c = cr /\ (at # Nowhere => LineOf[r] \in known))
  BY <1>1, <1>2 DEF NewLine
<1> HIDE DEF c
<1>5. /\ d \in CommitRecordType
      /\ d.mix # Nowhere => /\ c.mix # Nowhere /\ d.mix = c.mix
                            /\ d.diffs = [c.diffs EXCEPT ![r] = at]
  BY <1>2, <1>3, <1>4 DEF DiffStore
<1>6. cr' = [d EXCEPT !.fuel = @ - fuel]
  BY DEF Store, c
<1> HIDE DEF d
<1>7. cr'.mix = d.mix /\ cr'.diffs = d.diffs
  BY <1>5, <1>6 DEF CommitRecordType
<1> QED  BY <1>4, <1>5, <1>7

\* Writing, deleting and moving a record.
LEMMA StoreKeeps ==
  ASSUME TypeOK, TypeOK', Grows, InMemory, Placed, step = "idle", step' = "idle",
         NEW r \in Record, NEW at \in Locator, NEW fuel \in Nat, Store(r, at, fuel),
         LeadsIn(Logs', at, view'[r]),
         \A q \in Record : q # r => view'[q] = view[q],
         at # Nowhere => at[1] \in InUse,
         UNCHANGED <<tip, attached, detaching>>
  PROVE  InMemory' /\ Placed'
<1>1. /\ entry \in [Record -> Locator] /\ lineAt \in [Line -> Locator]
      /\ LineOf \in [Record -> Line] /\ NoDiff \notin Locator /\ cr \in CommitRecordType
  BY LogStoreAssumption DEF TypeOK
<1>2. /\ entry' = [entry EXCEPT ![r] = at]
      /\ lineAt' = [lineAt EXCEPT ![LineOf[r]] = Nowhere]
      /\ known' = IF at = Nowhere THEN known ELSE known \cup {LineOf[r]}
  BY DEF Store
<1>3. /\ entry'[r] = at /\ \A q \in Record : q # r => entry'[q] = entry[q]
      /\ \A l \in Line : lineAt'[l] # Nowhere => l # LineOf[r] /\ lineAt'[l] = lineAt[l]
  BY <1>1, <1>2
<1>4. Extends /\ InUse' = InUse
  BY DEF Grows, Extends, InUse
<1>5. ASSUME NEW q \in Record  PROVE LeadsIn(Logs', entry'[q], view'[q])
  <2>1. CASE q = r
    BY <1>3, <2>1
  <2>2. CASE q # r
    <3>1. entry[q] \in Locator /\ LeadsIn(Logs, entry[q], view[q])
      BY <1>1 DEF InMemory
    <3>2. LeadsIn(Logs', entry[q], view[q])
      BY <1>4, <3>1, ValueStays
    <3> QED  BY <1>3, <2>2, <3>2
  <2> QED  BY <2>1, <2>2
<1>6. ASSUME NEW q \in Record, entry'[q] # Nowhere
      PROVE  LineOf[q] \in known' /\ entry'[q][1] \in InUse
  <2>1. CASE q = r
    BY <1>2, <1>3, <1>6, <2>1
  <2>2. CASE q # r
    <3>1. entry'[q] = entry[q]
      BY <1>3, <2>2
    <3>2. LineOf[q] \in known /\ entry[q][1] \in InUse
      BY <1>6, <3>1 DEF InMemory, Placed
    <3> QED  BY <1>2, <3>1, <3>2
  <2> QED  BY <2>1, <2>2
<1>7. ASSUME NEW l \in Line, lineAt'[l] # Nowhere
      PROVE  LineRight(Logs', lineAt'[l], l, entry') /\ lineAt'[l][1] \in InUse
  <2>1. l # LineOf[r] /\ lineAt'[l] = lineAt[l] /\ lineAt[l] \in Locator
    BY <1>1, <1>3, <1>7
  <2>2. LineRight(Logs, lineAt[l], l, entry) /\ lineAt[l][1] \in InUse
    BY <1>7, <2>1 DEF InMemory, Placed
  <2>3. LineRight(Logs', lineAt[l], l, entry)
    BY <1>4, <2>1, <2>2, LineStays
  <2> QED  BY <1>3, <2>1, <2>2, <2>3 DEF LineRight
<1>8. ASSUME cr'.mix # Nowhere
      PROVE  /\ Readable(Logs', cr') /\ LinesOf(Logs', cr') = known'
             /\ EntryOf(Logs', cr') = entry'
             /\ \A ref \in RefsOf(Logs', cr') : ref[1] \in InUse
  <2>1. /\ cr.mix # Nowhere /\ cr'.mix = cr.mix /\ cr'.diffs = [cr.diffs EXCEPT ![r] = at]
        /\ at # Nowhere => LineOf[r] \in known
    BY <1>8, StoreDiffs
  <2>2. Readable(Logs, cr) /\ LinesOf(Logs, cr) = known /\ EntryOf(Logs, cr) = entry
    BY <2>1 DEF InMemory
  <2>3. \A ref \in RefsOf(Logs, cr) : SameAt(Logs, Logs', ref)
    BY <1>4, <2>1, MemoryRefs, ExtendsSame
  <2>4. /\ Readable(Logs', cr) /\ LinesOf(Logs', cr) = known
        /\ EntryOf(Logs', cr) = entry /\ LineAtOf(Logs', cr) = LineAtOf(Logs, cr)
    BY <2>2, <2>3, Carries
  <2>5. /\ Readable(Logs', cr') /\ LinesOf(Logs', cr') = known
        /\ LineAtOf(Logs', cr') = LineAtOf(Logs, cr)
    BY <2>1, <2>4 DEF Readable, LinesOf, LineAtOf
  <2>6. known' = known
    BY <1>2, <2>1
  <2>7. cr.diffs \in [Record -> Locator \cup {NoDiff}]
    BY <1>1, CommitParts
  <2>8. ASSUME NEW q \in Record  PROVE EntryOf(Logs', cr')[q] = entry'[q]
    <3>1. CASE q = r
      <4>1. LineOf[r] \notin known => at = Nowhere
        BY <2>1
      <4>2. cr'.diffs[r] = at /\ at # NoDiff
        BY <1>1, <2>1, <2>7
      <4> QED  BY <1>3, <2>5, <3>1, <4>1, <4>2 DEF EntryOf
    <3>2. CASE q # r
      <4>1. cr'.diffs[q] = cr.diffs[q]
        BY <2>1, <2>7, <3>2
      <4>2. EntryOf(Logs', cr')[q] = EntryOf(Logs', cr)[q]
        BY <2>4, <2>5, <4>1 DEF EntryOf, LineAtOf
      <4> QED  BY <1>3, <2>4, <3>2, <4>2
    <3> QED  BY <3>1, <3>2
  <2>9. EntryOf(Logs', cr') = entry'
    <3>1. entry' \in [Record -> Locator]
      BY DEF TypeOK
    <3> QED  BY <2>8, <3>1 DEF EntryOf
  <2>10. ASSUME NEW ref \in RefsOf(Logs', cr')  PROVE ref[1] \in InUse
    <3>1. ref \in RefsOf(Logs, cr) \/ \E q \in Record : ref = entry'[q] /\ ref # Nowhere
      BY <2>1, <2>2, <2>5, <2>9 DEF RefsOf
    <3> QED  BY <1>6, <2>1, <3>1 DEF Placed
  <2> QED  BY <2>5, <2>6, <2>9, <2>10
<1>9. InMemory'
  BY <1>5, <1>6, <1>7, <1>8 DEF InMemory
<1>10. cr'.self # Nowhere =>
         cr'.self[1] \in InUse /\ IsCommit(file'[cr'.self[1]], cr'.self[2])
  <2>1. cr'.self = cr.self
    BY StoreTypes
  <2> SUFFICES ASSUME cr.self # Nowhere
               PROVE  cr.self[1] \in InUse /\ IsCommit(file'[cr.self[1]], cr.self[2])
    BY <2>1
  <2>2. cr.self[1] \in InUse /\ IsCommit(file[cr.self[1]], cr.self[2])
    BY DEF Placed
  <2>3. cr.self[1] \in Volume
    BY Locators, CommitParts DEF TypeOK
  <2>4. Commits(file'[cr.self[1]]) = Commits(file[cr.self[1]])
    BY <2>3 DEF Grows, Quiet
  <2> QED  BY <2>2, <2>4 DEF IsCommit, Commits
<1>11. Placed'
  <2>1. tip' \in InUse'
    BY <1>4 DEF Placed
  <2>2. \A q \in Record : entry'[q] # Nowhere => entry'[q][1] \in InUse'
    BY <1>4, <1>6
  <2>3. \A l \in Line : lineAt'[l] # Nowhere => lineAt'[l][1] \in InUse'
    BY <1>4, <1>7
  <2>4. cr'.mix # Nowhere => \A ref \in RefsOf(Logs', cr') : ref[1] \in InUse'
    BY <1>4, <1>8
  <2> QED  BY <1>4, <1>10, <2>1, <2>2, <2>3, <2>4 DEF Placed
<1> QED  BY <1>9, <1>11

\* Loading a commit record, as lss_openx and lss_set_generation do.
LEMMA LoadKeeps ==
  ASSUME TypeOK, TypeOK', Extends, NEW c \in CommitRecordType, NEW left,
         LeadsTo(Logs, c, left), Load(c), view' = left, step' = "idle", tip' \in InUse',
         \A at \in RefsOf(Logs, c) : at[1] \in InUse',
         c.self[1] \in InUse', IsCommit(file'[c.self[1]], c.self[2])
  PROVE  InMemory' /\ Placed'
<1>1. Readable(Logs, c) /\ \A r \in Record : LeadsIn(Logs, EntryOf(Logs, c)[r], left[r])
  BY DEF LeadsTo
<1>2. /\ LoadEntry(c) = EntryOf(Logs, c) /\ LoadLines(c) = LinesOf(Logs, c)
      /\ LoadLineAt(c) = LineAtOf(Logs, c)
      /\ LinesOf(Logs, c) \subseteq Line /\ LineAtOf(Logs, c) \in [Line -> Locator]
      /\ EntryOf(Logs, c) \in [Record -> Locator] /\ RefsOf(Logs, c) \subseteq Locator
  BY <1>1, StoreLoads
<1>3. /\ cr' = c /\ known' = LinesOf(Logs, c) /\ entry' = EntryOf(Logs, c)
      /\ lineAt' = [l \in Line |->
           IF l \in LinesOf(Logs, c)
              /\ \A r \in Record : LineOf[r] = l => c.diffs[r] = NoDiff
           THEN LineAtOf(Logs, c)[l] ELSE Nowhere]
  BY <1>2 DEF Load
<1>4. \A at \in RefsOf(Logs, c) : SameAt(Logs, Logs', at)
  BY <1>2, RefsPresent, ExtendsSame
<1>5. /\ LeadsTo(Logs', c, left) /\ RefsOf(Logs', c) = RefsOf(Logs, c)
      /\ Readable(Logs', c) /\ LinesOf(Logs', c) = LinesOf(Logs, c)
      /\ LineAtOf(Logs', c) = LineAtOf(Logs, c) /\ EntryOf(Logs', c) = EntryOf(Logs, c)
  BY <1>1, <1>4, Carries, CarriesLeads
<1>6. \A r \in Record : LeadsIn(Logs', entry'[r], view'[r])
  BY <1>3, <1>5 DEF LeadsTo
<1>7. ASSUME NEW r \in Record, entry'[r] # Nowhere
      PROVE  LineOf[r] \in known' /\ entry'[r][1] \in InUse'
  <2>1. LineOf[r] \in known'
    BY <1>3, <1>7 DEF EntryOf
  <2>2. entry'[r] \in RefsOf(Logs, c)
    BY <1>3, <1>7 DEF RefsOf
  <2> QED  BY <2>1, <2>2
<1>8. ASSUME NEW l \in Line, lineAt'[l] # Nowhere
      PROVE  LineRight(Logs', lineAt'[l], l, entry') /\ lineAt'[l][1] \in InUse'
  <2>1. /\ l \in LinesOf(Logs, c) /\ lineAt'[l] = LineAtOf(Logs, c)[l]
        /\ \A r \in Record : LineOf[r] = l => c.diffs[r] = NoDiff
    BY <1>3, <1>8
  <2> DEFINE at == LineAtOf(Logs', c)[l]
  <2>2. lineAt'[l] = at
    BY <1>5, <2>1
  <2>3. HasLine(Logs', at, l)
    BY <1>5, <2>1 DEF Readable
  <2>4. \A r \in Record : LineOf[r] = l => Rec(Logs', at).entry[r] = EntryOf(Logs', c)[r]
    BY <1>5, <2>1 DEF EntryOf
  <2>5. LineRight(Logs', at, l, entry')
    BY <1>3, <1>5, <2>3, <2>4 DEF LineRight
  <2>6. at \in RefsOf(Logs, c)
    BY <1>5, <2>1 DEF RefsOf
  <2> QED  BY <2>2, <2>5, <2>6
<1>9. /\ Readable(Logs', cr') /\ LinesOf(Logs', cr') = known' /\ EntryOf(Logs', cr') = entry'
      /\ \A at \in RefsOf(Logs', cr') : at[1] \in InUse'
  BY <1>3, <1>5
<1>10. InMemory'
  BY <1>6, <1>7, <1>8, <1>9 DEF InMemory
<1>11. Placed'
  BY <1>3, <1>7, <1>8, <1>9 DEF Placed
<1> QED  BY <1>10, <1>11

\* The index that a commit writes is the one in memory.
LEMMA IndexKeeps ==
  ASSUME Shape, InMemory, Placed, NEW flag \in BOOLEAN, BeginCommit(flag)
  PROVE  InMemory' /\ Placed'
<1>1. /\ WriteIndex(flag) /\ Up
      /\ UNCHANGED <<hint, synced, safeHint, attached, tip, auxbuf, entry, known,
                     detaching, stable, offered, past, view, era, auxEnd, ops, crashes>>
  BY DEF BeginCommit, Idle, Up, history, promises
<1>2. /\ lineAt' = IF cr.mix = Nowhere THEN IndexAt ELSE lineAt
      /\ cr' = IF cr.mix # Nowhere THEN [cr EXCEPT !.fuel = @ - CommitFuelCost]
               ELSE [cr EXCEPT !.fuel = @ - CommitFuelCost, !.diffs = NoDiffs,
                               !.mix = <<tip, IndexTop + IndexSize + 1>>]
      /\ step' = "header"
  BY <1>1, IndexBufFacts
<1>3. TypeOK /\ TypeOK' /\ Grows /\ Extends /\ cr \in CommitRecordType /\ InUse' = InUse
  BY <1>1, BeginCommitShape DEF Shape, TypeOK, Grows, Extends, InUse
<1>4. tip \in Volume /\ tip \in InUse
  BY DEF Shape, TypeOK, Placed
<1>5. CASE cr.mix # Nowhere
  <2>1. cr'.mix = cr.mix /\ cr'.diffs = cr.diffs /\ cr'.self = cr.self
    BY <1>2, <1>3, <1>5 DEF CommitRecordType
  <2> QED  BY <1>1, <1>2, <1>3, <1>4, <1>5, <2>1, PlacedStays
<1>6. CASE cr.mix = Nowhere
  <2> DEFINE top == IndexTop
             n == IndexSize
             mix == <<tip, top + n + 1>>
  <2>1. /\ n \in Nat /\ IndexAt \in [Line -> Locator] /\ Dirty \subseteq Line
        /\ \A l \in Dirty : IndexPlace(l) \in 1 .. n /\ IndexOrder[IndexPlace(l)] = l
        /\ \A i \in 1 .. n : IndexRecords[i] = IndexLine(IndexOrder[i])
        /\ IndexRecords[n + 1] = MasterIndex(IndexAt, known)
    BY IndexOrderFacts, IndexRecordsFacts DEF Shape
  <2>2. \A i \in 1 .. (n + 1) : /\ top + i \in 1 .. Len(Logs'[tip]) /\ top + i \in Nat
                               /\ Logs'[tip][top + i] = IndexRecords[i]
    BY <1>6, BeginCommitShape
  <2>3. top \in Nat
    BY LenProperties DEF IndexTop, Shape, TypeOK
  <2>4. cr'.mix = mix /\ cr'.diffs = NoDiffs /\ cr'.self = cr.self
    BY <1>2, <1>3, <1>6 DEF CommitRecordType
  <2>5. lineAt' = IndexAt
    BY <1>2, <1>6
  <2> HIDE DEF top, n
  <2>6. /\ Has(Logs', mix) /\ Rec(Logs', mix) = MasterIndex(IndexAt, known)
    <3>1. n + 1 \in 1 .. (n + 1) /\ top + (n + 1) = top + n + 1
      BY <2>1, <2>3
    <3>2. top + n + 1 \in 1 .. Len(Logs'[tip]) /\ Logs'[tip][top + n + 1] = IndexRecords[n + 1]
      BY <2>2, <3>1
    <3> QED  BY <2>1, <3>2 DEF Has, Rec
  <2>7. ASSUME NEW l \in Dirty
        PROVE  /\ IndexAt[l] = <<tip, top + IndexPlace(l)>>
               /\ Has(Logs', IndexAt[l]) /\ Rec(Logs', IndexAt[l]) = IndexLine(l)
    <3>1. IndexAt[l] = <<tip, top + IndexPlace(l)>>
      BY <2>1 DEF IndexAt, top
    <3>2. IndexPlace(l) \in 1 .. n /\ IndexPlace(l) \in 1 .. (n + 1)
          /\ IndexOrder[IndexPlace(l)] = l
      BY <2>1
    <3>3. /\ top + IndexPlace(l) \in 1 .. Len(Logs'[tip])
          /\ Logs'[tip][top + IndexPlace(l)] = IndexLine(l)
      BY <2>1, <2>2, <3>2
    <3> QED  BY <3>1, <3>3 DEF Has, Rec
  <2>8. ASSUME NEW l \in Line, IndexAt[l] # Nowhere
        PROVE  LineRight(Logs', IndexAt[l], l, entry) /\ IndexAt[l][1] \in InUse
    <3>1. CASE l \in Dirty
      <4>1. IndexLine(l).kind = "INDX" /\ IndexLine(l).line = l /\ IndexLine(l).entry = entry
        BY DEF IndexLine
      <4>2. LineRight(Logs', IndexAt[l], l, entry)
        BY <2>7, <3>1, <4>1 DEF LineRight, HasLine, HasKind
      <4> QED  BY <1>4, <2>7, <3>1, <4>2
    <3>2. CASE l \notin Dirty
      <4>1. IndexAt[l] = lineAt[l] /\ lineAt[l] \in Locator
        BY <3>2 DEF IndexAt, Shape, TypeOK
      <4>2. LineRight(Logs, lineAt[l], l, entry) /\ lineAt[l][1] \in InUse
        BY <2>8, <4>1 DEF InMemory, Placed
      <4> QED  BY <1>3, <4>1, <4>2, LineStays
    <3> QED  BY <3>1, <3>2
  <2>9. known \subseteq Line /\ \A l \in known : IndexAt[l] # Nowhere
    <3>1. known \subseteq Line
      BY DEF Shape, TypeOK
    <3>2. ASSUME NEW l \in known  PROVE IndexAt[l] # Nowhere
      <4>1. CASE l \in Dirty
        <5>1. Has(Logs', IndexAt[l])
          BY <2>7, <4>1
        <5> QED  BY <5>1, HasNotNowhere
      <4>2. CASE l \notin Dirty
        BY <3>1, <4>2 DEF Dirty, IndexAt
      <4> QED  BY <4>1, <4>2
    <3> QED  BY <3>1, <3>2
  <2> DEFINE m == MasterIndex(IndexAt, known)
  <2>10. m.kind = "MIDX" /\ m.lineAt = IndexAt /\ m.lines = known
    BY DEF MasterIndex
  <2> HIDE DEF m, mix
  <2>11. /\ LinesOf(Logs', cr') = known /\ LineAtOf(Logs', cr') = IndexAt
         /\ HasKind(Logs', cr'.mix, "MIDX")
    BY <2>4, <2>6, <2>10 DEF LinesOf, LineAtOf, HasKind, m
  <2>12. Readable(Logs', cr')
    BY <2>8, <2>9, <2>11 DEF Readable, LineRight
  <2>13. ASSUME NEW r \in Record  PROVE EntryOf(Logs', cr')[r] = entry[r]
    <3>1. CASE LineOf[r] \notin known
      <4>1. entry[r] = Nowhere
        BY <3>1 DEF InMemory
      <4> QED  BY <2>11, <3>1, <4>1 DEF EntryOf
    <3>2. CASE LineOf[r] \in known
      <4>1. LineRight(Logs', IndexAt[LineOf[r]], LineOf[r], entry)
        BY <2>8, <2>9, <3>2
      <4>2. Rec(Logs', IndexAt[LineOf[r]]).entry[r] = entry[r]
        BY <4>1 DEF LineRight
      <4>3. cr'.diffs[r] = NoDiff
        BY <2>4 DEF NoDiffs
      <4> QED  BY <2>11, <3>2, <4>2, <4>3 DEF EntryOf
    <3> QED  BY <3>1, <3>2
  <2>14. EntryOf(Logs', cr') = entry
    <3>1. entry \in [Record -> Locator]
      BY DEF Shape, TypeOK
    <3> QED  BY <2>13, <3>1 DEF EntryOf
  <2>15. cr'.mix # Nowhere
    BY <2>4, <2>6, HasNotNowhere
  <2>16. ASSUME NEW r \in Record  PROVE LeadsIn(Logs', entry[r], view[r])
    <3>1. entry[r] \in Locator /\ LeadsIn(Logs, entry[r], view[r])
      BY DEF InMemory, Shape, TypeOK
    <3> QED  BY <1>3, <3>1, ValueStays
  <2>17. InMemory'
    <3>1. \A r \in Record : entry[r] # Nowhere => LineOf[r] \in known
      BY DEF InMemory
    <3>2. \A l \in Line : lineAt'[l] # Nowhere => LineRight(Logs', lineAt'[l], l, entry)
      BY <2>5, <2>8
    <3> QED  BY <1>1, <2>11, <2>12, <2>14, <2>15, <2>16, <3>1, <3>2 DEF InMemory
  <2>18. ASSUME NEW at \in RefsOf(Logs', cr')  PROVE at[1] \in InUse
    <3>1. CASE at = cr'.mix
      BY <1>4, <2>4, <3>1 DEF mix
    <3>2. ASSUME NEW l \in known, at = IndexAt[l]  PROVE at[1] \in InUse
      BY <2>8, <2>9, <3>2
    <3>3. ASSUME NEW r \in Record, at = entry[r], at # Nowhere  PROVE at[1] \in InUse
      BY <3>3 DEF Placed
    <3> QED  BY <2>11, <2>14, <3>1, <3>2, <3>3 DEF RefsOf
  <2>19. cr.self # Nowhere =>
           cr.self[1] \in InUse /\ IsCommit(file'[cr.self[1]], cr.self[2])
    <3> SUFFICES ASSUME cr.self # Nowhere
                 PROVE  cr.self[1] \in InUse /\ IsCommit(file'[cr.self[1]], cr.self[2])
      OBVIOUS
    <3>1. cr.self[1] \in InUse /\ IsCommit(file[cr.self[1]], cr.self[2])
      BY DEF Placed
    <3>2. cr.self[1] \in Volume
      BY <1>3, Locators, CommitParts
    <3>3. Commits(file'[cr.self[1]]) = Commits(file[cr.self[1]])
      BY <1>3, <3>2 DEF Grows, Quiet
    <3> QED  BY <3>1, <3>3 DEF IsCommit, Commits
  <2>20. Placed'
    <3>1. \A r \in Record : entry[r] # Nowhere => entry[r][1] \in InUse
      BY DEF Placed
    <3>2. \A l \in Line : lineAt'[l] # Nowhere => lineAt'[l][1] \in InUse
      BY <2>5, <2>8
    <3> QED  BY <1>1, <1>3, <1>4, <2>4, <2>18, <2>19, <3>1, <3>2 DEF Placed
  <2> QED  BY <2>17, <2>20
<1> QED  BY <1>5, <1>6

-----------------------------------------------------------------------------
(* The commits in the volumes                                              *)

\* No power failure takes what is at a locator.
Safe(at) == at[2] <= Firm[at[1]] \/ at[2] <= auxEnd[at[1]]

\* The commit at position i of volume v can be read, and after every power failure
\* that leaves it: all it refers to comes before it, or is safe.
Survives(v, i) ==
  /\ LeadsTo(Logs, file[v][i].cr, file[v][i].left)
  /\ \A at \in RefsOf(Logs, file[v][i].cr) : (at[1] = v /\ at[2] < i) \/ Safe(at)

\* The commit that is not yet acknowledged.
Newest(v, i) == step = "sync" /\ v = tip /\ i = Len(file[v])

\* A commit of an earlier era may refer to a volume that has been unlinked since.
CommitWell(v, i) ==
  /\ file[v][i].cr.self = <<v, i>>
  /\ file[v][i].era <= era /\ file[v][i].left \in past
  /\ Newest(v, i) \/ i <= Firm[v]
  /\ Up /\ v # tip => file[v][i].cr.gen <= cr.gen
  /\ file[v][i].era = era =>
       Survives(v, i) /\ (Up => \A at \in RefsOf(Logs, file[v][i].cr) : at[1] \in InUse)

CommitsWell == \A v \in Volume : \A i \in Commits(file[v]) : CommitWell(v, i)

\* What is being committed is offered, under a generation that no other volume has.
Offering ==
  /\ step = "sync" =>
       /\ IsCommit(file[tip], Len(file[tip])) /\ file[tip][Len(file[tip])] = Commit(cr, view)
       /\ offered = {view}
       /\ \A w \in Volume \ {tip} : \A j \in Commits(file[w]) : file[w][j].cr.gen < cr.gen
  /\ step # "sync" /\ Up => offered = {}

\* Only the tip's file has more than what is safe.
Behind ==
  \A w \in Volume : w # tip \/ ~Up =>
    Len(file[w]) <= Firm[w] \/ (Up /\ Len(file[w]) <= auxEnd[w])

Acked(v) == {i \in Commits(file[v]) : ~Newest(v, i)}

\* The last commit of volume b is the one that would be gone back to, it has left
\* this, and nothing that it needs can be unlinked.
BestAt(left, b, i) ==
  /\ i \in Acked(b) /\ \A j \in Acked(b) : j <= i
  /\ \A w \in Volume : w # b =>
       \A j \in Acked(w) : file[w][j].cr.gen < file[b][i].cr.gen
  /\ file[b][i].left = left /\ Survives(b, i)
  /\ Up => b \in attached /\ \A at \in RefsOf(Logs, file[b][i].cr) : at[1] \in attached

NoneAcked(left) ==
  (\A v \in Volume : Acked(v) = {}) /\ \A r \in Record : left[r] = Absent

Best(left) == NoneAcked(left) \/ \E b \in Volume : \E i \in Acked(b) : BestAt(left, b, i)

\* A crash leads back to the last commit that was acknowledged; once it has happened,
\* to that or to the one that was being made.
Recovers == Best(stable) \/ (~Up /\ \E left \in offered : Best(left))

Hints == HeaderPointsBack /\ (~Up => \A v \in Volume : Sighted(file[v], hint[v]))

Durable == CommitsWell /\ Offering /\ Behind /\ Recovers /\ Hints

LEMMA FirmFacts ==
  TypeOK => /\ Firm \in [Volume -> Nat]
            /\ \A v \in Volume : /\ Firm[v] \in Nat /\ Firm[v] <= Len(file[v])
                                /\ synced[v] <= Firm[v]
<1> SUFFICES ASSUME TypeOK
             PROVE  /\ Firm \in [Volume -> Nat]
                    /\ \A v \in Volume : /\ Firm[v] \in Nat /\ Firm[v] <= Len(file[v])
                                        /\ synced[v] <= Firm[v]
  OBVIOUS
<1>1. ASSUME NEW v \in Volume
      PROVE  /\ synced[v] \in Nat /\ inherited[v] \in Nat
             /\ synced[v] <= Len(file[v]) /\ inherited[v] <= Len(file[v])
  BY DEF TypeOK
<1> QED  BY <1>1 DEF Firm

LEMMA FirmNext ==
  TypeOK' => /\ Firm' \in [Volume -> Nat]
             /\ \A v \in Volume : /\ Firm'[v] \in Nat /\ Firm'[v] <= Len(file'[v])
                                 /\ synced'[v] <= Firm'[v]
<1> DEFINE Right == /\ Firm \in [Volume -> Nat]
                    /\ \A v \in Volume : /\ Firm[v] \in Nat /\ Firm[v] <= Len(file[v])
                                        /\ synced[v] <= Firm[v]
<1>1. TypeOK => Right
  BY FirmFacts
<1> HIDE DEF Right
<1>2. TypeOK' => Right'
  BY <1>1, PTL
<1> USE DEF Right
<1> QED  BY <1>2

\* What is firm stays so, until a file is opened again or unlinked.
LEMMA FirmGrows ==
  ASSUME TypeOK, TypeOK', NEW v \in Volume,
         synced[v] <= synced'[v], inherited'[v] = inherited[v]
  PROVE  /\ Firm[v] <= Firm'[v]
         /\ synced'[v] = synced[v] => Firm'[v] = Firm[v]
<1>1. synced[v] \in Nat /\ synced'[v] \in Nat /\ inherited[v] \in Nat
  BY DEF TypeOK
<1> QED  BY <1>1 DEF Firm

LEMMA SurvivesRefs ==
  ASSUME TypeOK, NEW v \in Volume, NEW i \in Commits(file[v]), Survives(v, i)
  PROVE  \A at \in RefsOf(Logs, file[v][i].cr) : at \in Locator /\ Has(Logs, at)
<1>1. file[v][i].cr \in CommitRecordType
  BY CommitFacts
<1>2. LeadsTo(Logs, file[v][i].cr, file[v][i].left)
  BY DEF Survives
<1>3. RefsOf(Logs, file[v][i].cr) \subseteq Locator
  BY <1>1, <1>2, StoreLoads DEF LeadsTo
<1> QED  BY <1>2, <1>3, RefsPresent

\* A commit survives if what it refers to is left where it is.
LEMMA SurvivesStays ==
  ASSUME NEW v, NEW i, Survives(v, i), file'[v][i] = file[v][i],
         \A at \in RefsOf(Logs, file[v][i].cr) :
           SameAt(Logs, Logs', at) /\ ((at[1] = v /\ at[2] < i) \/ Safe(at) =>
                                         (at[1] = v /\ at[2] < i) \/ Safe(at)')
  PROVE  /\ Survives(v, i)'
         /\ RefsOf(Logs', file'[v][i].cr) = RefsOf(Logs, file[v][i].cr)
<1>1. /\ LeadsTo(Logs', file[v][i].cr, file[v][i].left)
      /\ RefsOf(Logs', file[v][i].cr) = RefsOf(Logs, file[v][i].cr)
  BY CarriesLeads DEF Survives
<1> QED  BY <1>1 DEF Survives

LEMMA CommitStays ==
  ASSUME TypeOK, TypeOK', NEW v \in Volume, NEW i \in Commits(file[v]), CommitWell(v, i),
         file'[v][i] = file[v][i], era <= era', past \subseteq past',
         i <= Firm[v] => i <= Firm'[v],
         Newest(v, i) => Newest(v, i)' \/ i <= Firm'[v],
         Up' /\ v # tip' => file[v][i].cr.gen <= cr'.gen,
         era' = era /\ Survives(v, i)
           /\ (Up => \A at \in RefsOf(Logs, file[v][i].cr) : at[1] \in InUse) =>
           \A at \in RefsOf(Logs, file[v][i].cr) :
             /\ SameAt(Logs, Logs', at)
             /\ (at[1] = v /\ at[2] < i) \/ Safe(at) => (at[1] = v /\ at[2] < i) \/ Safe(at)'
             /\ Up' => at[1] \in InUse'
  PROVE  CommitWell(v, i)'
<1>1. file'[v][i].era = era' =>
        Survives(v, i)' /\ (Up' => \A at \in RefsOf(Logs', file'[v][i].cr) : at[1] \in InUse')
  <2> SUFFICES ASSUME file'[v][i].era = era'
               PROVE  /\ Survives(v, i)'
                      /\ Up' => \A at \in RefsOf(Logs', file'[v][i].cr) : at[1] \in InUse'
    OBVIOUS
  <2>1. era \in Nat /\ era' \in Nat /\ file[v][i].era <= era
    BY DEF TypeOK, CommitWell
  <2>2. file[v][i].era \in Nat
    BY CommitFacts
  <2>3. era' = era /\ file[v][i].era = era
    BY <2>1, <2>2
  <2>4. Survives(v, i) /\ (Up => \A at \in RefsOf(Logs, file[v][i].cr) : at[1] \in InUse)
    BY <2>3 DEF CommitWell
  <2>5. /\ Survives(v, i)'
        /\ RefsOf(Logs', file'[v][i].cr) = RefsOf(Logs, file[v][i].cr)
    BY <2>3, <2>4, SurvivesStays
  <2> QED  BY <2>3, <2>4, <2>5
<1>2. file'[v][i].era <= era'
  <2>1. era \in Nat /\ era' \in Nat /\ file[v][i].era <= era
    BY DEF TypeOK, CommitWell
  <2>2. file[v][i].era \in Nat
    BY CommitFacts
  <2> QED  BY <2>1, <2>2
<1>3. /\ file'[v][i].cr.self = <<v, i>> /\ file'[v][i].left \in past'
      /\ Newest(v, i)' \/ i <= Firm'[v]
  BY DEF CommitWell
<1> QED  BY <1>1, <1>2, <1>3 DEF CommitWell

LEMMA BestStays ==
  ASSUME NEW left, Best(left),
         \A v \in Volume : /\ Acked(v)' \subseteq Acked(v)
                           /\ \A i \in Acked(v)' : file'[v][i] = file[v][i],
         \A b \in Volume : \A i \in Acked(b) : BestAt(left, b, i) =>
           /\ i \in Acked(b)'
           /\ Up' => b \in attached'
           /\ \A at \in RefsOf(Logs, file[b][i].cr) :
                /\ SameAt(Logs, Logs', at)
                /\ (at[1] = b /\ at[2] < i) \/ Safe(at) => (at[1] = b /\ at[2] < i) \/ Safe(at)'
                /\ Up' => at[1] \in attached'
  PROVE  Best(left)'
<1>1. CASE NoneAcked(left)
  <2>1. \A v \in Volume : Acked(v)' = {}
    BY <1>1 DEF NoneAcked
  <2>2. NoneAcked(left)'
    BY <1>1, <2>1 DEF NoneAcked
  <2> QED  BY <2>2 DEF Best
<1>2. CASE \E b \in Volume : \E i \in Acked(b) : BestAt(left, b, i)
  <2> PICK b \in Volume : \E i \in Acked(b) : BestAt(left, b, i)
    BY <1>2
  <2>1. PICK i \in Acked(b) : BestAt(left, b, i)
    OBVIOUS
  <2>2. /\ i \in Acked(b)' /\ file'[b][i] = file[b][i]
        /\ Up' => b \in attached'
    BY <2>1
  <2>3. /\ Survives(b, i)'
        /\ RefsOf(Logs', file'[b][i].cr) = RefsOf(Logs, file[b][i].cr)
    BY <2>1, <2>2, SurvivesStays DEF BestAt
  <2>4. \A j \in Acked(b)' : j <= i
    BY <2>1 DEF BestAt
  <2>5. \A w \in Volume : w # b =>
          \A j \in Acked(w)' : file'[w][j].cr.gen < file'[b][i].cr.gen
    BY <2>1, <2>2 DEF BestAt
  <2>6. file'[b][i].left = left
    BY <2>1, <2>2 DEF BestAt
  <2>7. Up' => \A at \in RefsOf(Logs', file'[b][i].cr) : at[1] \in attached'
    BY <2>1, <2>3
  <2>8. BestAt(left, b, i)'
    BY <2>2, <2>3, <2>4, <2>5, <2>6, <2>7 DEF BestAt
  <2> QED  BY <2>2, <2>8 DEF Best
<1> QED  BY <1>1, <1>2 DEF Best

LEMMA StableStays ==
  ASSUME Best(stable), stable' = stable,
         \A v \in Volume : /\ Acked(v)' \subseteq Acked(v)
                           /\ \A i \in Acked(v)' : file'[v][i] = file[v][i],
         \A b \in Volume : \A i \in Acked(b) : BestAt(stable, b, i) =>
           /\ i \in Acked(b)'
           /\ Up' => b \in attached'
           /\ \A at \in RefsOf(Logs, file[b][i].cr) :
                /\ SameAt(Logs, Logs', at)
                /\ (at[1] = b /\ at[2] < i) \/ Safe(at) => (at[1] = b /\ at[2] < i) \/ Safe(at)'
                /\ Up' => at[1] \in attached'
  PROVE  Best(stable)'
<1>1. \A kept : kept = stable => Best(kept)'
  <2> SUFFICES ASSUME NEW kept, kept = stable  PROVE Best(kept)'
    OBVIOUS
  <2> QED  BY BestStays
<1>2. PICK kept : kept = stable
  OBVIOUS
<1>3. Best(kept)' /\ stable' = kept
  BY <1>1, <1>2
<1> QED  BY <1>3 DEF Best, NoneAcked, BestAt

\* The headers point to commits that are left where they are.
LEMMA HintsStay ==
  ASSUME HeaderPointsBack,
         \A v \in Volume : \A h \in {hint'[v], safeHint'[v]} :
           h = Nowhere \/
             /\ h \in {hint[v], safeHint[v]}
             /\ IsCommit(file[v], h[2]) /\ h[2] <= Firm[v] =>
                  IsCommit(file'[v], h[2]) /\ h[2] <= Firm'[v]
  PROVE  HeaderPointsBack'
<1> SUFFICES ASSUME NEW v \in Volume, NEW h \in {hint'[v], safeHint'[v]}, h # Nowhere, h[1] = v
             PROVE  h[2] <= Firm'[v] /\ IsCommit(file'[v], h[2])
  BY DEF HeaderPointsBack
<1>1. h \in {hint[v], safeHint[v]}
  OBVIOUS
<1>2. IsCommit(file[v], h[2]) /\ h[2] <= Firm[v]
  BY <1>1 DEF HeaderPointsBack
<1> QED  BY <1>2

\* What grows keeps its commits, and what was safe is safe.
LEMMA GrowsFacts ==
  ASSUME TypeOK, TypeOK', Grows
  PROVE  /\ Extends
         /\ \A v \in Volume : /\ Commits(file'[v]) = Commits(file[v])
                              /\ \A i \in Commits(file[v]) : file'[v][i] = file[v][i]
                              /\ \A i \in Nat : i <= Firm[v] => i <= Firm'[v]
         /\ \A at \in Locator : Has(Logs, at) =>
              /\ SameAt(Logs, Logs', at) /\ (Safe(at) => Safe(at)')
<1>1. Extends
  BY DEF Grows, Extends
<1>2. ASSUME NEW v \in Volume
      PROVE  /\ Commits(file'[v]) = Commits(file[v])
             /\ \A i \in Commits(file[v]) : file'[v][i] = file[v][i]
             /\ \A i \in Nat : i <= Firm[v] => i <= Firm'[v]
             /\ \A i \in Nat : i <= auxEnd[v] => i <= auxEnd'[v]
  <2>1. Quiet(file[v], file'[v]) /\ Firm[v] <= Firm'[v] /\ auxEnd[v] <= auxEnd'[v]
    BY FirmGrows DEF Grows
  <2>2. /\ Firm[v] \in Nat /\ Firm'[v] \in Nat /\ auxEnd[v] \in Nat /\ auxEnd'[v] \in Nat
    BY FirmFacts, FirmNext DEF TypeOK
  <2>3. \A i \in Commits(file[v]) : i \in 1 .. Len(file[v])
    BY CommitFacts
  <2> QED  BY <2>1, <2>2, <2>3 DEF Quiet, Begins
<1>3. ASSUME NEW at \in Locator, Has(Logs, at)
      PROVE  SameAt(Logs, Logs', at) /\ (Safe(at) => Safe(at)')
  <2>1. at[1] \in Volume /\ at[2] \in Nat
    BY Locators
  <2> QED  BY <1>1, <1>2, <1>3, <2>1, ExtendsSame DEF Safe
<1> QED  BY <1>1, <1>2, <1>3

\* All steps but the commit's last two, the unlink, the crash and the recovery.
LEMMA QuietKeeps ==
  ASSUME Shape, Shape', Grows, Durable, Placed, Up, Up', step # "sync", step' # "sync",
         UNCHANGED <<stable, offered, past>>, era <= era',
         attached \subseteq attached', era' = era => InUse \subseteq InUse',
         \A v \in Volume : v # tip' => \A i \in Commits(file[v]) : file[v][i].cr.gen <= cr'.gen,
         \A w \in Volume : w # tip' => \/ w # tip /\ file'[w] = file[w]
                                       \/ Len(file'[w]) <= synced'[w]
                                       \/ Len(file'[w]) <= auxEnd'[w],
         \A v \in Volume : /\ hint'[v] \in {hint[v], cr.self}
                           /\ safeHint'[v] \in {hint[v], safeHint[v]}
  PROVE  Durable'
<1>1. TypeOK /\ TypeOK'
  BY DEF Shape
<1>2. /\ \A v \in Volume : /\ Commits(file'[v]) = Commits(file[v])
                           /\ \A i \in Commits(file[v]) : file'[v][i] = file[v][i]
                           /\ \A i \in Nat : i <= Firm[v] => i <= Firm'[v]
      /\ \A at \in Locator : Has(Logs, at) => SameAt(Logs, Logs', at) /\ (Safe(at) => Safe(at)')
  BY <1>1, GrowsFacts
<1>3. \A v \in Volume, i \in Nat : ~Newest(v, i) /\ ~Newest(v, i)'
  BY DEF Newest
<1>4. CommitsWell'
  <2>1. ASSUME NEW v \in Volume, NEW i \in Commits(file[v])  PROVE CommitWell(v, i)'
    <3>1. i \in Nat /\ file'[v][i] = file[v][i] /\ CommitWell(v, i)
      BY <1>1, <1>2, CommitFacts DEF Durable, CommitsWell
    <3>2. Survives(v, i) => \A at \in RefsOf(Logs, file[v][i].cr) :
                              SameAt(Logs, Logs', at) /\ (Safe(at) => Safe(at)')
      BY <1>1, <1>2, SurvivesRefs
    <3> QED  BY <1>1, <1>2, <1>3, <3>1, <3>2, CommitStays
  <2> QED  BY <1>2, <2>1 DEF CommitsWell
<1>5. Recovers'
  <2>1. Best(stable)
    BY DEF Durable, Recovers
  <2>2. \A v \in Volume : Acked(v)' = Acked(v) /\ Acked(v) = Commits(file[v])
    <3>1. \A v \in Volume : \A i \in Commits(file[v]) : i \in Nat
      BY <1>1, CommitFacts
    <3> QED  BY <1>2, <1>3, <3>1 DEF Acked
  <2>3. ASSUME NEW b \in Volume, NEW i \in Acked(b), BestAt(stable, b, i)
        PROVE  /\ b \in attached'
               /\ \A at \in RefsOf(Logs, file[b][i].cr) :
                    /\ SameAt(Logs, Logs', at) /\ (Safe(at) => Safe(at)')
                    /\ at[1] \in attached'
    <3>1. Survives(b, i) /\ b \in attached
          /\ \A at \in RefsOf(Logs, file[b][i].cr) : at[1] \in attached
      BY <2>3 DEF BestAt
    <3>2. i \in Commits(file[b])
      BY <2>2
    <3> QED  BY <1>1, <1>2, <3>1, <3>2, SurvivesRefs
  <2>4. \A v \in Volume : \A i \in Acked(v)' : file'[v][i] = file[v][i]
    BY <1>2, <2>2
  <2>5. Best(stable)'
    BY <2>1, <2>2, <2>3, <2>4, StableStays
  <2> QED  BY <2>5 DEF Recovers
<1>6. Offering'
  BY DEF Offering, Durable
<1>7. Behind'
  <2>1. ASSUME NEW w \in Volume, w # tip'
        PROVE  Len(file'[w]) <= Firm'[w] \/ Len(file'[w]) <= auxEnd'[w]
    <3>1. CASE w # tip /\ file'[w] = file[w]
      <4>1. Len(file[w]) <= Firm[w] \/ Len(file[w]) <= auxEnd[w]
        BY <3>1 DEF Behind, Durable
      <4>2. /\ Firm[w] <= Firm'[w] /\ auxEnd[w] <= auxEnd'[w]
            /\ Firm[w] \in Nat /\ Firm'[w] \in Nat /\ auxEnd[w] \in Nat
            /\ auxEnd'[w] \in Nat
        BY <1>1, FirmGrows, FirmFacts, FirmNext DEF Grows, TypeOK
      <4>3. Len(file[w]) \in Nat
        BY <1>1, LogFacts
      <4> QED  BY <3>1, <4>1, <4>2, <4>3
    <3>2. CASE Len(file'[w]) <= synced'[w]
      <4>1. /\ synced'[w] <= Firm'[w] /\ Len(file'[w]) \in Nat
            /\ synced'[w] \in Nat /\ Firm'[w] \in Nat
        BY <1>1, FirmNext, LenProperties DEF TypeOK
      <4> QED  BY <3>2, <4>1
    <3> QED  BY <2>1, <3>1, <3>2
  <2> QED  BY <2>1 DEF Behind
<1>8. Hints'
  <2>1. ASSUME NEW v \in Volume, NEW h \in {hint[v], safeHint[v], cr.self}, h # Nowhere, h[1] = v
        PROVE  h[2] <= Firm'[v] /\ IsCommit(file'[v], h[2])
    <3>1. h \in Locator /\ h[2] \in Nat
      <4>1. hint[v] \in Locator /\ safeHint[v] \in Locator /\ cr.self \in Locator
        BY <1>1, CommitParts DEF TypeOK
      <4> QED  BY <4>1, Locators
    <3>2. h[2] <= Firm[v] /\ IsCommit(file[v], h[2])
      <4>1. CASE h \in {hint[v], safeHint[v]}
        BY <2>1, <4>1 DEF Durable, Hints, HeaderPointsBack
      <4>2. CASE h = cr.self
        <5>1. IsCommit(file[v], h[2])
          BY <2>1, <4>2 DEF Placed
        <5>2. h[2] \in Commits(file[v])
          BY <5>1 DEF IsCommit, Commits
        <5>3. CommitWell(v, h[2])
          BY <5>2 DEF Durable, CommitsWell
        <5> QED  BY <1>3, <3>1, <5>1, <5>3 DEF CommitWell
      <4> QED  BY <4>1, <4>2
    <3>3. h[2] \in Commits(file[v])
      BY <3>2 DEF IsCommit, Commits
    <3> QED  BY <1>2, <3>1, <3>2, <3>3 DEF IsCommit, Commits
  <2>2. HeaderPointsBack'
    <3> SUFFICES ASSUME NEW v \in Volume, NEW h \in {hint'[v], safeHint'[v]},
                        h # Nowhere, h[1] = v
                 PROVE  h[2] <= Firm'[v] /\ IsCommit(file'[v], h[2])
      BY DEF HeaderPointsBack
    <3>1. h \in {hint[v], safeHint[v], cr.self}
      OBVIOUS
    <3> QED  BY <2>1, <3>1
  <2> QED  BY <2>2 DEF Hints
<1> QED  BY <1>4, <1>5, <1>6, <1>7, <1>8 DEF Durable

-----------------------------------------------------------------------------
(* The inductive invariant, step by step                                   *)

Recovery == Shape /\ (Up => InMemory /\ Placed) /\ Durable

LEMMA GensBehind ==
  ASSUME Durable, Up, NEW v \in Volume, v # tip, NEW i \in Commits(file[v])
  PROVE  file[v][i].cr.gen <= cr.gen
  BY DEF Durable, CommitsWell, CommitWell

LEMMA WriteKeeps ==
  ASSUME Recovery, NEW r \in Record, NEW val \in Value, Write(r, val)
  PROVE  Recovery'
<1>1. /\ step = "idle" /\ step' = "idle" /\ Up /\ Up'
      /\ view' = [view EXCEPT ![r] = val]
      /\ \A w \in Volume : w # tip => file'[w] = file[w]
      /\ UNCHANGED <<tip, attached, detaching, hint, safeHint, stable, offered, past, era>>
  <2>1. file \in [Volume -> Seq(RecordType)]
    BY DEF Recovery, Shape, TypeOK
  <2> QED  BY <2>1 DEF Write, Idle, Up, promises
<1>2. Shape /\ TypeOK /\ InMemory /\ Placed /\ Durable /\ Shape' /\ TypeOK' /\ Grows
  BY <1>1, WriteShape DEF Recovery, Shape
<1>3. PICK n \in Nat : /\ Store(r, <<tip, n>>, BlockFuelCost)
                       /\ n \in 1 .. Len(Logs'[tip]) /\ Logs'[tip][n] = Data(r, val)
  BY <1>2, WriteShape
<1>4. BlockFuelCost \in Nat /\ tip \in Volume /\ view \in [Record -> Value \cup {Absent}]
  BY <1>2, LogStoreAssumption DEF TypeOK, Snapshot
<1> DEFINE at == <<tip, n>>
<1>5. at \in Locator /\ at[1] = tip
  BY <1>4, Locators
<1>6. Has(Logs', at) /\ Rec(Logs', at) = Data(r, val)
  BY <1>3 DEF Has, Rec
<1>7. Data(r, val).kind = "DATA" /\ Data(r, val).val = val
  BY RecordsMade
<1> HIDE DEF at
<1>8. at # Nowhere
  BY <1>6, HasNotNowhere
<1>9. LeadsIn(Logs', at, view'[r])
  BY <1>1, <1>4, <1>6, <1>7, <1>8 DEF LeadsIn, HasKind
<1>10. Store(r, at, BlockFuelCost)
  BY <1>3 DEF at
<1>11. \A q \in Record : q # r => view'[q] = view[q]
  BY <1>1, <1>4
<1>12. tip \in InUse
  BY <1>2 DEF Placed
<1>13. InMemory' /\ Placed'
  BY <1>1, <1>2, <1>4, <1>5, <1>9, <1>10, <1>11, <1>12, StoreKeeps
<1>14. cr'.gen = cr.gen
  BY <1>2, <1>4, <1>5, <1>10, StoreTypes
<1>15. era \in Nat /\ InUse' = InUse
  BY <1>1, <1>2 DEF TypeOK, InUse
<1>16. Durable'
  BY <1>1, <1>2, <1>14, <1>15, GensBehind, QuietKeeps
<1> QED  BY <1>2, <1>13, <1>16 DEF Recovery

LEMMA DeleteKeeps ==
  ASSUME Recovery, NEW r \in Record, Delete(r)
  PROVE  Recovery'
<1>1. /\ step = "idle" /\ step' = "idle" /\ Up /\ Up'
      /\ view' = [view EXCEPT ![r] = Absent]
      /\ Store(r, Nowhere, 0)
      /\ UNCHANGED <<file, tip, attached, detaching, hint, safeHint, stable, offered, past, era>>
  BY DEF Delete, Idle, Up, promises, disk
<1>2. Shape /\ TypeOK /\ InMemory /\ Placed /\ Durable /\ Shape' /\ TypeOK' /\ Grows
  BY <1>1, DeleteShape DEF Recovery, Shape
<1>3. view \in [Record -> Value \cup {Absent}] /\ Nowhere \in Locator /\ 0 \in Nat
  BY <1>2, Locators DEF TypeOK, Snapshot
<1>4. LeadsIn(Logs', Nowhere, view'[r]) /\ \A q \in Record : q # r => view'[q] = view[q]
  BY <1>1, <1>3 DEF LeadsIn
<1>5. InMemory' /\ Placed'
  BY <1>1, <1>2, <1>3, <1>4, StoreKeeps
<1>6. cr'.gen = cr.gen
  BY <1>1, <1>2, <1>3, StoreTypes
<1>7. era \in Nat /\ InUse' = InUse
  BY <1>1, <1>2 DEF TypeOK, InUse
<1>8. Durable'
  BY <1>1, <1>2, <1>6, <1>7, GensBehind, QuietKeeps
<1> QED  BY <1>2, <1>5, <1>8 DEF Recovery

LEMMA MoveAsideKeeps ==
  ASSUME Recovery, NEW r \in Record, NEW v \in Volume, MoveAside(r, v)
  PROVE  Recovery'
<1>1. /\ step = "idle" /\ step' = "idle" /\ Up /\ Up' /\ view' = view
      /\ v \in attached /\ v # tip /\ entry[r] # Nowhere
      /\ UNCHANGED <<tip, attached, detaching, hint, safeHint, stable, offered, past, era>>
  BY DEF MoveAside, Idle, Up, promises
<1>2. Shape /\ TypeOK /\ InMemory /\ Placed /\ Durable /\ Shape' /\ TypeOK' /\ Grows
  BY <1>1, MoveAsideShape DEF Recovery, Shape
<1>3. PICK n \in Nat : /\ Store(r, <<v, n>>, BlockFuelCost)
                       /\ n \in 1 .. Len(Logs'[v]) /\ Logs'[v][n] = RecordAt(entry[r])
  BY <1>2, MoveAsideShape
<1>4. BlockFuelCost \in Nat /\ entry[r] \in Locator
  BY <1>2, LogStoreAssumption DEF TypeOK
<1> DEFINE at == <<v, n>>
<1>5. at \in Locator /\ at[1] = v
  BY Locators
<1>6. Has(Logs', at) /\ Rec(Logs', at) = RecordAt(entry[r])
  BY <1>3 DEF Has, Rec
<1> HIDE DEF at
<1>7. RecordAt(entry[r]) = Rec(Logs, entry[r])
  <2>1. entry[r][1] \in Volume
    BY <1>4, Locators
  <2> QED  BY <1>2, <2>1, StoreHas
<1>8. Rec(Logs, entry[r]).kind = "DATA" /\ Rec(Logs, entry[r]).val = view[r]
  BY <1>1, <1>2 DEF InMemory, LeadsIn, HasKind
<1>9. at # Nowhere
  BY <1>6, HasNotNowhere
<1>10. LeadsIn(Logs', at, view'[r])
  BY <1>1, <1>6, <1>7, <1>8, <1>9 DEF LeadsIn, HasKind
<1>11. Store(r, at, BlockFuelCost)
  BY <1>3 DEF at
<1>12. v \in InUse
  BY <1>1, <1>2 DEF InUse, Shape, Opened
<1>13. InMemory' /\ Placed'
  BY <1>1, <1>2, <1>4, <1>5, <1>10, <1>11, <1>12, StoreKeeps
<1>14. cr'.gen = cr.gen
  BY <1>2, <1>4, <1>5, <1>11, StoreTypes
<1>15. era \in Nat /\ InUse' = InUse
  BY <1>1, <1>2 DEF TypeOK, InUse
<1>16. \A w \in Volume : w # tip' => \/ w # tip /\ file'[w] = file[w]
                                    \/ Len(file'[w]) <= auxEnd'[w]
  BY <1>1, <1>2, MoveAsideShape
<1>17. Durable'
  BY <1>1, <1>2, <1>14, <1>15, <1>16, GensBehind, QuietKeeps
<1> QED  BY <1>2, <1>13, <1>17 DEF Recovery

\* A volume becomes the tip that no later commit is in.
LEMMA SetTipKeeps ==
  ASSUME Disciplined, Recovery, NEW v \in Volume, SetTip(v)
  PROVE  Recovery'
<1>1. /\ step = "idle" /\ step' = "idle" /\ Up /\ Up' /\ Idle
      /\ v \in attached /\ v # tip /\ NoneLater(v, cr.gen) /\ SwitchTip(v) /\ outbuf' = <<>>
      /\ UNCHANGED <<hint, attached, entry, lineAt, known, cr, detaching, stable, offered,
                     past, view, era, inherited>>
  BY DEF SetTip, Idle, Up, promises, index
<1>2. Shape /\ TypeOK /\ InMemory /\ Placed /\ Durable /\ Shape' /\ TypeOK'
  BY <1>1, SetTipShape DEF Recovery, Shape
<1>3. <<>> \in Seq(RecordType)
  BY EmptySeq
<1>4. /\ Grows /\ tip' = v
      /\ \A w \in Volume :
           /\ w = tip /\ v # tip => synced'[w] = Len(file'[w])
           /\ w # tip => file'[w] = file[w] \/ Len(file'[w]) <= auxEnd'[w]
           /\ safeHint'[w] \in {hint[w], safeHint[w]}
  BY <1>1, <1>2, <1>3, SwitchTipFacts
<1>5. InUse' = InUse /\ v \in InUse /\ era \in Nat
  BY <1>1, <1>2 DEF InUse, Shape, Opened, TypeOK
<1>6. InMemory' /\ Placed'
  BY <1>1, <1>2, <1>4, <1>5, PlacedStays
<1>7. \A w \in Volume : w # v => \A i \in Commits(file[w]) : file[w][i].cr.gen <= cr'.gen
  BY <1>1 DEF NoneLater, Disciplined
<1>8. \A w \in Volume : w # tip' => \/ w # tip /\ file'[w] = file[w]
                                   \/ Len(file'[w]) <= synced'[w]
                                   \/ Len(file'[w]) <= auxEnd'[w]
  <2>1. \A w \in Volume : synced'[w] \in Nat
    BY <1>2 DEF TypeOK
  <2> QED  BY <1>1, <1>4, <2>1
<1>9. Durable'
  BY <1>1, <1>2, <1>4, <1>5, <1>7, <1>8, QuietKeeps
<1> QED  BY <1>2, <1>6, <1>9 DEF Recovery

LEMMA AttachKeeps ==
  ASSUME Disciplined, Recovery, NEW v \in Volume, Attach(v)
  PROVE  Recovery'
<1>1. /\ step = "idle" /\ step' = "idle" /\ Up /\ Up' /\ Idle
      /\ v \notin attached /\ NoneLater(v, cr.gen) /\ SwitchTip(v) /\ outbuf' = <<Header>>
      /\ attached' = attached \cup {v}
      /\ UNCHANGED <<hint, entry, lineAt, known, cr, detaching, stable, offered,
                     past, view, era, inherited>>
  BY DEF Attach, Idle, Up, promises, index
<1>2. Shape /\ TypeOK /\ InMemory /\ Placed /\ Durable /\ Shape' /\ TypeOK'
  BY <1>1, AttachShape DEF Recovery, Shape
<1>3. <<Header>> \in Seq(RecordType) /\ v # tip
  BY <1>1, <1>2, RecordsMade DEF Shape, Opened
<1>4. /\ Grows /\ tip' = v
      /\ \A w \in Volume :
           /\ w = tip /\ v # tip => synced'[w] = Len(file'[w])
           /\ w # tip => file'[w] = file[w] \/ Len(file'[w]) <= auxEnd'[w]
           /\ safeHint'[w] \in {hint[w], safeHint[w]}
  <2> DEFINE nb == <<Header>>
  <2>1. nb \in Seq(RecordType) /\ outbuf' = nb
    BY <1>1, <1>3
  <2> HIDE DEF nb
  <2> QED  BY <1>1, <1>2, <1>3, <2>1, SwitchTipFacts
<1>5. InUse \subseteq InUse' /\ v \in InUse' /\ era \in Nat
  BY <1>1, <1>2 DEF InUse, Shape, Opened, TypeOK
<1>6. InMemory' /\ Placed'
  BY <1>1, <1>2, <1>4, <1>5, PlacedStays
<1>7. \A w \in Volume : w # v => \A i \in Commits(file[w]) : file[w][i].cr.gen <= cr'.gen
  BY <1>1 DEF NoneLater, Disciplined
<1>8. \A w \in Volume : w # tip' => \/ w # tip /\ file'[w] = file[w]
                                   \/ Len(file'[w]) <= synced'[w]
                                   \/ Len(file'[w]) <= auxEnd'[w]
  <2>1. \A w \in Volume : synced'[w] \in Nat
    BY <1>2 DEF TypeOK
  <2> QED  BY <1>3, <1>4, <2>1
<1>9. Durable'
  BY <1>1, <1>2, <1>4, <1>5, <1>7, <1>8, QuietKeeps
<1> QED  BY <1>2, <1>6, <1>9 DEF Recovery

\* Commit records are in the files.
LEMMA CommitInFile ==
  ASSUME Shape, NEW at, at[1] \in Volume, IsAt(at, "COMM")
  PROVE  /\ at[2] \in Commits(file[at[1]]) /\ RecordAt(at) = file[at[1]][at[2]]
         /\ IsCommit(file[at[1]], at[2])
<1> DEFINE f == file[at[1]]
           p == Pending(at[1])
           i == at[2]
<1>1. f \in Seq(RecordType) /\ p \in Seq(RecordType) /\ Len(f) \in Nat /\ Len(p) \in Nat
  BY LogFacts DEF Shape
<1>2. NoCommits(p)
  BY DEF Shape, Buffers, Pending
<1>3. i \in 1 .. (Len(f) + Len(p)) /\ RecordAt(at) = (f \o p)[i] /\ RecordAt(at).kind = "COMM"
  BY DEF IsAt, InStore, RecordAt
<1> HIDE DEF f, p, i
<1>4. (f \o p)[i] = IF i <= Len(f) THEN f[i] ELSE p[i - Len(f)]
  BY <1>1, <1>3, ConcatProperties
<1>5. i \in 1 .. Len(f) /\ RecordAt(at) = f[i]
  <2>1. CASE i <= Len(f)
    BY <1>1, <1>3, <1>4, <2>1
  <2>2. CASE ~(i <= Len(f))
    <3>1. i - Len(f) \in 1 .. Len(p)
      BY <1>1, <1>3, <2>2
    <3> QED  BY <1>2, <1>3, <1>4, <2>2, <3>1 DEF NoCommits
  <2> QED  BY <2>1, <2>2
<1>6. i \in Commits(f) /\ IsCommit(f, i)
  BY <1>1, <1>3, <1>5, CommitsOf
<1> QED  BY <1>5, <1>6 DEF f, i

LEMMA RewindKeeps ==
  ASSUME Disciplined, Recovery, NEW at, Rewind(at)
  PROVE  Recovery'
<1> DEFINE v == at[1]
           i == at[2]
           c == CommitAt(at)
           left == RecordAt(at).left
<1>1. /\ step = "idle" /\ step' = "idle" /\ Up /\ Up' /\ Idle
      /\ IsAt(at, "COMM") /\ v \in attached /\ RecordAt(at).era = era
      /\ NoneLater(v, c.gen) /\ SwitchTip(v) /\ outbuf' = (IF v = tip THEN outbuf ELSE <<>>)
      /\ Load(c) /\ view' = left
      /\ UNCHANGED <<hint, attached, detaching, stable, offered, past, era, inherited>>
  BY DEF Rewind, Idle, Up, promises
<1>2. Shape /\ TypeOK /\ InMemory /\ Placed /\ Durable /\ Shape' /\ TypeOK' /\ Grows
  BY <1>1, RewindShape DEF Recovery, Shape
<1>3. v \in Volume /\ v \in InUse /\ InUse' = InUse /\ era \in Nat
  BY <1>1, <1>2 DEF Shape, TypeOK, Opened, InUse
<1>4. i \in Commits(file[v]) /\ RecordAt(at) = file[v][i] /\ c = file[v][i].cr
  BY <1>1, <1>2, <1>3, CommitInFile DEF CommitAt
<1>5. <<>> \in Seq(RecordType)
  BY EmptySeq
<1> HIDE DEF v, i, c, left
<1>6. /\ tip' = v
      /\ \A w \in Volume :
           /\ w = tip /\ v # tip => synced'[w] = Len(file'[w])
           /\ w # tip => file'[w] = file[w] \/ Len(file'[w]) <= auxEnd'[w]
           /\ safeHint'[w] \in {hint[w], safeHint[w]}
  BY <1>1, <1>2, <1>3, <1>5, SwitchTipFacts
<1>7. CommitWell(v, i) /\ c \in CommitRecordType
  BY <1>2, <1>3, <1>4, CommitFacts DEF Durable, CommitsWell
<1>8. /\ LeadsTo(Logs, c, left) /\ \A ref \in RefsOf(Logs, c) : ref[1] \in InUse
      /\ c.self[1] = v /\ c.self[2] = i
  BY <1>1, <1>4, <1>7 DEF CommitWell, Survives, left
<1>9. Extends /\ IsCommit(file'[v], i)
  BY <1>2, <1>3, <1>4, GrowsFacts DEF IsCommit, Commits
<1>10. InMemory' /\ Placed'
  BY <1>1, <1>2, <1>3, <1>6, <1>7, <1>8, <1>9, LoadKeeps
<1>11. cr' = c
  BY <1>1 DEF Load
<1>12. \A w \in Volume : w # v => \A j \in Commits(file[w]) : file[w][j].cr.gen <= cr'.gen
  BY <1>1, <1>11 DEF NoneLater, Disciplined
<1>13. \A w \in Volume : w # tip' => \/ w # tip /\ file'[w] = file[w]
                                    \/ Len(file'[w]) <= synced'[w]
                                    \/ Len(file'[w]) <= auxEnd'[w]
  <2>1. \A w \in Volume : synced'[w] \in Nat
    BY <1>2 DEF TypeOK
  <2> QED  BY <1>6, <2>1
<1>14. Durable'
  BY <1>1, <1>2, <1>3, <1>6, <1>12, <1>13, QuietKeeps
<1> QED  BY <1>2, <1>10, <1>14 DEF Recovery

LEMMA BeginCommitKeeps ==
  ASSUME Recovery, NEW flag \in BOOLEAN, BeginCommit(flag)
  PROVE  Recovery'
<1>1. /\ step \in {"idle", "detach"} /\ Up /\ WriteIndex(flag)
      /\ UNCHANGED <<hint, safeHint, tip, attached, detaching, stable, offered, past, era>>
  BY DEF BeginCommit, Idle, Up, history, promises
<1>2. Shape /\ TypeOK /\ InMemory /\ Placed /\ Durable /\ Shape' /\ TypeOK' /\ Grows
  BY <1>1, BeginCommitShape DEF Recovery, Shape
<1>3. InMemory' /\ Placed'
  BY <1>2, IndexKeeps
<1>4. /\ file' = IF file[tip] = <<>> THEN [file EXCEPT ![tip] = Flushed(@, IndexBuf)] ELSE file
      /\ cr' = IF cr.mix # Nowhere THEN [cr EXCEPT !.fuel = @ - CommitFuelCost]
               ELSE [cr EXCEPT !.fuel = @ - CommitFuelCost, !.diffs = NoDiffs,
                               !.mix = <<tip, IndexTop + IndexSize + 1>>]
      /\ step' = "header"
  BY <1>1, <1>2, IndexBufFacts
<1>5. cr'.gen = cr.gen
  BY <1>2, <1>4 DEF TypeOK, CommitRecordType
<1>6. \A w \in Volume : w # tip => file'[w] = file[w]
  BY <1>2, <1>4 DEF TypeOK
<1>7. era \in Nat /\ InUse' = InUse /\ Up'
  BY <1>1, <1>2, <1>4 DEF TypeOK, InUse, Up
<1>8. Durable'
  BY <1>1, <1>2, <1>4, <1>5, <1>6, <1>7, GensBehind, QuietKeeps
<1> QED  BY <1>2, <1>3, <1>8 DEF Recovery

\* The header of the tip is made to point to the last commit.
LEMMA CommitHeaderKeeps ==
  ASSUME Recovery, CommitHeader
  PROVE  Recovery'
<1>1. /\ step = "header" /\ step' = "flush" /\ Up /\ Up'
      /\ IF cr.fuel <= 0
         THEN hint' = [hint EXCEPT ![tip] = cr.self] /\ cr' = [cr EXCEPT !.fuel = VolumeHeaderFuel]
         ELSE UNCHANGED <<hint, cr>>
      /\ UNCHANGED <<file, safeHint, tip, attached, detaching, entry, lineAt, known, view,
                     stable, offered, past, era>>
  BY DEF CommitHeader, LastCommitRecord, Up, history, promises, index
<1>2. Shape /\ TypeOK /\ InMemory /\ Placed /\ Durable /\ Shape' /\ TypeOK' /\ Grows
  BY <1>1, CommitHeaderShape DEF Recovery, Shape
<1>3. cr'.mix = cr.mix /\ cr'.diffs = cr.diffs /\ cr'.self = cr.self /\ cr'.gen = cr.gen
  BY <1>1, <1>2 DEF TypeOK, CommitRecordType
<1>4. cr.mix # Nowhere /\ InUse' = InUse /\ tip \in InUse /\ era \in Nat
  BY <1>1, <1>2 DEF InMemory, Placed, InUse, TypeOK
<1>5. InMemory' /\ Placed'
  BY <1>1, <1>2, <1>3, <1>4, PlacedStays
<1>6. \A v \in Volume : hint'[v] \in {hint[v], cr.self}
  BY <1>1, <1>2 DEF TypeOK
<1>7. Durable'
  BY <1>1, <1>2, <1>3, <1>4, <1>6, GensBehind, QuietKeeps
<1> QED  BY <1>2, <1>5, <1>7 DEF Recovery

LEMMA CommitFlushKeeps ==
  ASSUME Recovery, CommitFlush
  PROVE  Recovery'
<1>1. /\ step = "flush" /\ step' = "aux" /\ Up /\ Up'
      /\ file' = [file EXCEPT ![tip] = Flushed(@, outbuf)]
      /\ UNCHANGED <<hint, safeHint, tip, attached, detaching, entry, lineAt, known, cr, view,
                     stable, offered, past, era>>
  BY DEF CommitFlush, Up, history, promises, index
<1>2. Shape /\ TypeOK /\ InMemory /\ Placed /\ Durable /\ Shape' /\ TypeOK' /\ Grows
  BY <1>1, CommitFlushShape DEF Recovery, Shape
<1>3. cr.mix # Nowhere /\ InUse' = InUse /\ tip \in InUse /\ era \in Nat
  BY <1>1, <1>2 DEF InMemory, Placed, InUse, TypeOK
<1>4. InMemory' /\ Placed'
  BY <1>1, <1>2, <1>3, PlacedStays
<1>5. \A w \in Volume : w # tip => file'[w] = file[w]
  BY <1>1, <1>2 DEF TypeOK
<1>6. Durable'
  BY <1>1, <1>2, <1>3, <1>5, GensBehind, QuietKeeps
<1> QED  BY <1>2, <1>4, <1>6 DEF Recovery

LEMMA CommitAuxKeeps ==
  ASSUME Recovery, CommitAux
  PROVE  Recovery'
<1>1. /\ step = "aux" /\ step' = "record" /\ Up /\ Up'
      /\ UNCHANGED <<hint, safeHint, tip, attached, detaching, entry, lineAt, known, cr, view,
                     stable, offered, past, era>>
  BY DEF CommitAux, Up, promises, index
<1>2. Shape /\ TypeOK /\ InMemory /\ Placed /\ Durable /\ Shape' /\ TypeOK' /\ Grows
      /\ \A w \in Volume : file'[w] = file[w] \/ Len(file'[w]) <= auxEnd'[w]
  BY <1>1, CommitAuxShape DEF Recovery, Shape
<1>3. cr.mix # Nowhere /\ InUse' = InUse /\ tip \in InUse /\ era \in Nat
  BY <1>1, <1>2 DEF InMemory, Placed, InUse, TypeOK
<1>4. InMemory' /\ Placed'
  BY <1>1, <1>2, <1>3, PlacedStays
<1>5. Durable'
  BY <1>1, <1>2, <1>3, GensBehind, QuietKeeps
<1> QED  BY <1>2, <1>4, <1>5 DEF Recovery

\* The volume that is detached has nothing that is needed but index lines, which the
\* next commit writes again.  Older commits may need it, so a new era begins.
LEMMA DetachKeeps ==
  ASSUME Recovery, NEW v \in Volume, Detach(v)
  PROVE  Recovery'
<1>1. /\ step = "idle" /\ step' = "detach" /\ Up /\ Up'
      /\ v # tip /\ \A r \in Record : entry[r] = Nowhere \/ entry[r][1] # v
      /\ cr.self[1] # v
      /\ lineAt' = [l \in Line |-> IF lineAt[l][1] = v THEN Nowhere ELSE lineAt[l]]
      /\ cr' = [cr EXCEPT !.mix = Nowhere, !.fuel = 0]
      /\ hint' = [hint EXCEPT ![tip] = cr.self]
      /\ detaching' = {v} /\ era' = era + 1
      /\ UNCHANGED <<file, safeHint, tip, outbuf, auxbuf, attached, entry, known, view,
                     stable, offered, past>>
  BY DEF Detach, Idle, Up, promises, LastCommitRecord
<1>2. Shape /\ TypeOK /\ InMemory /\ Placed /\ Durable /\ Shape' /\ TypeOK' /\ Grows
  BY <1>1, DetachShape DEF Recovery, Shape
<1>3. cr'.mix = Nowhere /\ cr'.self = cr.self /\ cr'.gen = cr.gen
  <2> DEFINE zero == 0
  <2>1. cr' = [cr EXCEPT !.mix = Nowhere, !.fuel = zero]
    BY <1>1
  <2> HIDE DEF zero
  <2> QED  BY <1>2, <2>1 DEF TypeOK, CommitRecordType
<1>4. Logs' = Logs
  BY <1>1 DEF Logs, Pending
<1>5. \A w \in InUse : w # v => w \in InUse'
  BY <1>1 DEF InUse
<1>6. \A l \in Line : lineAt'[l] # Nowhere => lineAt'[l] = lineAt[l] /\ lineAt[l][1] # v
  BY <1>1
<1>7. InMemory'
  BY <1>1, <1>2, <1>3, <1>4, <1>6 DEF InMemory
<1>8. Placed'
  <2>1. tip' \in InUse'
    BY <1>1, <1>2, <1>5 DEF Placed
  <2>2. \A r \in Record : entry'[r] # Nowhere => entry'[r][1] \in InUse'
    BY <1>1, <1>2, <1>5 DEF Placed
  <2>3. \A l \in Line : lineAt'[l] # Nowhere => lineAt'[l][1] \in InUse'
    BY <1>2, <1>5, <1>6 DEF Placed
  <2>4. cr'.self # Nowhere =>
          cr'.self[1] \in InUse' /\ IsCommit(file'[cr'.self[1]], cr'.self[2])
    BY <1>1, <1>2, <1>3, <1>5 DEF Placed
  <2> QED  BY <1>3, <2>1, <2>2, <2>3, <2>4 DEF Placed
<1>9. era \in Nat /\ era' # era /\ era <= era'
  <2>1. era \in Nat /\ era' = era + 1
    BY <1>1, <1>2 DEF TypeOK
  <2> QED  BY <2>1
<1>10. \A w \in Volume : hint'[w] \in {hint[w], cr.self}
  BY <1>1, <1>2 DEF TypeOK
<1>11. Durable'
  BY <1>1, <1>2, <1>3, <1>9, <1>10, GensBehind, QuietKeeps
<1> QED  BY <1>2, <1>7, <1>8, <1>11 DEF Recovery

\* The commit record is written: what it refers to comes before it, or was made safe by
\* the flush of the other volumes and the sync of an old tip.
LEMMA CommitRecordKeeps ==
  ASSUME Recovery, CommitRecord
  PROVE  Recovery'
<1> DEFINE rec == Commit(cr', view)
<1> PICK n : n = Len(file[tip]) + 1
  OBVIOUS
<1>1. /\ step = "record" /\ step' = "sync" /\ Up /\ Up'
      /\ cr' = [cr EXCEPT !.prev = cr.self, !.self = <<tip, n>>, !.gen = @ + 1,
                          !.mark = IF bookmark THEN <<tip, n>> ELSE @]
      /\ synced' = [synced EXCEPT ![tip] = Len(file[tip])]
      /\ safeHint' = [safeHint EXCEPT ![tip] = hint[tip]]
      /\ offered' = {view} /\ past' = past \cup {view}
      /\ UNCHANGED <<hint, tip, attached, detaching, entry, lineAt, known, stable, view, era,
                     auxEnd>>
  BY DEF CommitRecord, Up, index
<1>2. Shape /\ TypeOK /\ InMemory /\ Placed /\ Durable /\ Shape' /\ TypeOK'
  BY <1>1, CommitRecordShape DEF Recovery, Shape
<1>3. /\ file'[tip] = Append(file[tip], rec) /\ rec \in RecordType
      /\ \A v \in Volume : /\ synced[v] <= synced'[v] /\ inherited'[v] = inherited[v]
                           /\ Logs[v] = file[v]
                           /\ v # tip => file'[v] = file[v]
      /\ Extends
  BY <1>2, CommitRecordShape DEF Extends
<1>4. /\ cr'.mix = cr.mix /\ cr'.diffs = cr.diffs /\ cr'.self = <<tip, n>>
      /\ cr'.gen = cr.gen + 1 /\ cr.gen \in Nat
  BY <1>1, <1>2 DEF TypeOK, CommitRecordType
<1>5. rec.kind = "COMM" /\ rec.cr = cr' /\ rec.left = view /\ rec.era = era
  BY DEF Commit
<1>6. tip \in Volume /\ tip \in InUse /\ InUse' = InUse /\ era \in Nat /\ cr.mix # Nowhere
  BY <1>1, <1>2 DEF TypeOK, Placed, InUse, InMemory
<1>7. /\ n \in Nat /\ Len(file[tip]) \in Nat /\ Len(file'[tip]) = n /\ file'[tip][n] = rec
      /\ \A i \in 1 .. Len(file[tip]) : file'[tip][i] = file[tip][i]
      /\ file[tip] \in Seq(RecordType) /\ file'[tip] \in Seq(RecordType)
  <2>1. file[tip] \in Seq(RecordType) /\ file'[tip] \in Seq(RecordType)
        /\ Len(file[tip]) \in Nat
    BY <1>2, <1>6, LogFacts DEF TypeOK
  <2> HIDE DEF rec
  <2> QED  BY <1>3, <2>1, AppendProperties
<1> HIDE DEF rec
<1>8. /\ Commits(file'[tip]) = Commits(file[tip]) \cup {n}
      /\ \A i \in Commits(file[tip]) : i \in Nat /\ i < n
  <2>1. /\ Commits(file[tip]) = {i \in 1 .. Len(file[tip]) : file[tip][i].kind = "COMM"}
        /\ Commits(file'[tip]) = {i \in 1 .. Len(file'[tip]) : file'[tip][i].kind = "COMM"}
    BY <1>7, CommitsOf
  <2>2. n = Len(file[tip]) + 1
    OBVIOUS
  <2>3. \A i \in 1 .. n : i \in 1 .. Len(file[tip]) \/ i = n
    BY <1>7, <2>2
  <2>4. \A i \in 1 .. Len(file[tip]) : i \in 1 .. n /\ i < n /\ i \in Nat
    BY <1>7, <2>2
  <2>5. n \in 1 .. n
    BY <1>7, <2>2
  <2> QED  BY <1>5, <1>7, <2>1, <2>3, <2>4, <2>5
<1>9. \A v \in Volume : \A i \in Commits(file[v]) : i \in Commits(file'[v]) /\ file'[v][i] = file[v][i]
  <2>1. \A i \in Commits(file[tip]) : i \in 1 .. Len(file[tip])
    BY <1>2, <1>6, CommitFacts
  <2> QED  BY <1>3, <1>7, <1>8, <2>1
<1>20. \A v \in Volume : Firm[v] \in Nat /\ Firm'[v] \in Nat /\ Firm[v] <= Firm'[v]
  BY <1>2, <1>3, FirmFacts, FirmNext, FirmGrows
<1>10. \A at \in Locator : Has(Logs, at) =>
         SameAt(Logs, Logs', at) /\ (Safe(at) => Safe(at)')
  <2> SUFFICES ASSUME NEW at \in Locator, Has(Logs, at)
               PROVE  SameAt(Logs, Logs', at) /\ (Safe(at) => Safe(at)')
    OBVIOUS
  <2>1. at[1] \in Volume /\ at[2] \in Nat
    BY Locators
  <2>2. Firm[at[1]] \in Nat /\ Firm'[at[1]] \in Nat /\ Firm[at[1]] <= Firm'[at[1]]
    BY <1>20, <2>1
  <2>3. Safe(at) => Safe(at)'
    BY <1>1, <2>1, <2>2 DEF Safe
  <2> QED  BY <1>2, <1>3, <2>3, ExtendsSame
<1>11. InMemory' /\ RefsOf(Logs', cr') = RefsOf(Logs, cr)
  BY <1>1, <1>2, <1>3, <1>4, <1>6, MemoryStays
<1>12. Placed'
  <2>1. /\ cr'.self[1] = tip /\ IsCommit(file'[tip], n) /\ cr'.self[2] = n
    BY <1>4, <1>8 DEF IsCommit, Commits
  <2> QED  BY <1>1, <1>2, <1>4, <1>6, <1>11, <2>1 DEF Placed
<1>13. \A v, i : ~Newest(v, i)
  BY <1>1 DEF Newest
<1>14. CommitsWell'
  <2>1. ASSUME NEW v \in Volume, NEW i \in Commits(file[v])  PROVE CommitWell(v, i)'
    <3>1. i \in Nat /\ file'[v][i] = file[v][i] /\ CommitWell(v, i)
      BY <1>2, <1>9, CommitFacts DEF Durable, CommitsWell
    <3>2. Survives(v, i) => \A at \in RefsOf(Logs, file[v][i].cr) :
                              SameAt(Logs, Logs', at) /\ (Safe(at) => Safe(at)')
      BY <1>2, <1>10, SurvivesRefs
    <3>3. i <= Firm[v] => i <= Firm'[v]
      <4>1. Firm[v] \in Nat /\ Firm'[v] \in Nat /\ Firm[v] <= Firm'[v]
        BY <1>20
      <4> QED  BY <3>1, <4>1
    <3>4. v # tip => file[v][i].cr.gen <= cr'.gen
      <4>1. file[v][i].cr.gen \in Nat
        BY <1>2, CommitFacts, CommitParts
      <4> QED  BY <1>1, <1>2, <1>4, <4>1, GensBehind
    <3>5. past \subseteq past' /\ era <= era'
      BY <1>1, <1>6
    <3> QED  BY <1>1, <1>2, <1>6, <1>13, <3>1, <3>2, <3>3, <3>4, <3>5, CommitStays
  <2>2. CommitWell(tip, n)'
    <3>1. file'[tip][n].cr.self = <<tip, n>> /\ file'[tip][n].era <= era' /\ view \in past'
          /\ file'[tip][n].left = view
      <4>1. era' = era /\ view \in past'
        BY <1>1
      <4> QED  BY <1>4, <1>5, <1>6, <1>7, <4>1
    <3>2. Newest(tip, n)'
      BY <1>1, <1>7 DEF Newest
    <3>3. LeadsTo(Logs', cr', view')
      BY <1>4, <1>6, <1>11 DEF InMemory, LeadsTo
    <3>4. ASSUME NEW at \in RefsOf(Logs, cr)  PROVE (at[1] = tip /\ at[2] < n) \/ Safe(at)'
      <4>1. at \in Locator /\ Has(Logs, at) /\ at[1] \in Volume /\ at[2] \in Nat
        BY <1>2, <1>6, MemoryRefs, Locators
      <4>2. Len(file[at[1]]) \in Nat /\ at[2] <= Len(file[at[1]])
        BY <1>2, <1>3, <4>1, LogFacts DEF Has
      <4>3. CASE at[1] = tip
        BY <1>7, <4>1, <4>2, <4>3
      <4>4. CASE at[1] # tip
        <5>1. Len(file[at[1]]) <= Firm[at[1]] \/ Len(file[at[1]]) <= auxEnd[at[1]]
          BY <1>2, <4>1, <4>4 DEF Durable, Behind
        <5>2. Firm[at[1]] \in Nat /\ auxEnd[at[1]] \in Nat
          BY <1>2, <1>20, <4>1 DEF TypeOK
        <5>3. Safe(at)
          BY <4>1, <4>2, <5>1, <5>2 DEF Safe
        <5> QED  BY <1>10, <4>1, <5>3
      <4> QED  BY <4>3, <4>4
    <3>5. \A at \in RefsOf(Logs, cr) : at[1] \in InUse'
      BY <1>2, <1>6 DEF Placed
    <3>6. Survives(tip, n)' /\ \A at \in RefsOf(Logs', file'[tip][n].cr) : at[1] \in InUse'
      BY <1>1, <1>5, <1>7, <1>11, <3>3, <3>4, <3>5 DEF Survives
    <3> QED  BY <1>1, <3>1, <3>2, <3>6 DEF CommitWell
  <2>3. \A v \in Volume : v # tip => Commits(file'[v]) = Commits(file[v])
    BY <1>3
  <2>4. tip' = tip
    BY <1>1
  <2>5. ASSUME NEW v \in Volume, NEW i \in Commits(file'[v])  PROVE CommitWell(v, i)'
    <3>1. CASE i \in Commits(file[v])
      BY <2>1, <3>1
    <3>2. CASE v = tip /\ i = n
      BY <2>2, <2>4, <3>2 DEF CommitWell, Newest, Survives
    <3> QED  BY <1>8, <2>3, <3>1, <3>2
  <2> QED  BY <2>5 DEF CommitsWell
<1>15. Recovers'
  <2>1. Best(stable)
    BY <1>1, <1>2 DEF Durable, Recovers
  <2>2. \A v \in Volume : Acked(v)' = Commits(file[v]) /\ Acked(v) = Commits(file[v])
    <3>1. ASSUME NEW v \in Volume  PROVE Acked(v)' = Commits(file[v])
      <4>1. CASE v = tip
        <5>1. \A i \in Commits(file'[v]) : Newest(v, i)' <=> i = n
          BY <1>1, <1>7, <4>1 DEF Newest
        <5>2. n \notin Commits(file[v]) /\ Commits(file'[v]) = Commits(file[v]) \cup {n}
          BY <1>7, <1>8, <4>1
        <5>3. Acked(v)' = {i \in Commits(file'[v]) : ~Newest(v, i)'}
          BY DEF Acked
        <5> QED  BY <5>1, <5>2, <5>3
      <4>2. CASE v # tip
        BY <1>1, <1>3, <4>2 DEF Acked, Newest
      <4> QED  BY <4>1, <4>2
    <3> QED  BY <1>13, <3>1 DEF Acked
  <2>3. ASSUME NEW b \in Volume, NEW i \in Acked(b), BestAt(stable, b, i)
        PROVE  /\ b \in attached'
               /\ \A at \in RefsOf(Logs, file[b][i].cr) :
                    /\ SameAt(Logs, Logs', at) /\ (Safe(at) => Safe(at)')
                    /\ at[1] \in attached'
    <3>1. Survives(b, i) /\ b \in attached
          /\ \A at \in RefsOf(Logs, file[b][i].cr) : at[1] \in attached
      BY <1>1, <2>3 DEF BestAt
    <3>2. i \in Commits(file[b])
      BY <2>2
    <3> QED  BY <1>1, <1>2, <1>10, <3>1, <3>2, SurvivesRefs
  <2>4. Best(stable)'
    BY <1>1, <1>9, <2>1, <2>2, <2>3, StableStays
  <2> QED  BY <2>4 DEF Recovers
<1>16. Offering'
  <2>1. IsCommit(file'[tip], Len(file'[tip])) /\ file'[tip][Len(file'[tip])] = Commit(cr, view)'
    BY <1>1, <1>7, <1>8 DEF IsCommit, Commits, Commit, rec
  <2>2. ASSUME NEW w \in Volume, w # tip, NEW j \in Commits(file'[w])
        PROVE  file'[w][j].cr.gen < cr'.gen
    <3>1. file'[w] = file[w]
      BY <1>3, <2>2
    <3>2. file[w][j].cr.gen \in Nat
      BY <1>2, <3>1, CommitFacts, CommitParts
    <3>3. file[w][j].cr.gen <= cr.gen
      BY <1>1, <1>2, <2>2, <3>1, GensBehind
    <3> QED  BY <1>4, <3>1, <3>2, <3>3
  <2> QED  BY <1>1, <2>1, <2>2 DEF Offering
<1>17. Behind'
  <2>1. \A w \in Volume : w # tip => file'[w] = file[w] /\ synced'[w] = synced[w]
    BY <1>1, <1>2, <1>3 DEF TypeOK
  <2>2. \A w \in Volume : w # tip => file'[w] = file[w] /\ Firm'[w] = Firm[w]
    BY <1>2, <1>3, <2>1, FirmGrows
  <2> QED  BY <1>1, <1>2, <2>2 DEF Durable, Behind
<1>18. Hints'
  <2>1. ASSUME NEW v \in Volume, NEW h \in {hint'[v], safeHint'[v]}
        PROVE  /\ h \in {hint[v], safeHint[v]}
               /\ IsCommit(file[v], h[2]) /\ h[2] <= Firm[v] =>
                    IsCommit(file'[v], h[2]) /\ h[2] <= Firm'[v]
    <3>1. h \in {hint[v], safeHint[v]}
      BY <1>1, <1>2, <2>1 DEF TypeOK
    <3>2. h[2] \in Nat
      BY <1>2, <3>1, Locators DEF TypeOK
    <3>3. Firm[v] \in Nat /\ Firm'[v] \in Nat /\ Firm[v] <= Firm'[v]
      BY <1>20
    <3>4. IsCommit(file[v], h[2]) => IsCommit(file'[v], h[2])
      BY <1>9 DEF IsCommit, Commits
    <3> QED  BY <3>1, <3>2, <3>3, <3>4
  <2>2. HeaderPointsBack'
    BY <1>2, <2>1, HintsStay DEF Durable, Hints
  <2> QED  BY <1>1, <2>2 DEF Hints
<1>19. Durable'
  BY <1>14, <1>15, <1>16, <1>17, <1>18 DEF Durable
<1> QED  BY <1>2, <1>11, <1>12, <1>19 DEF Recovery

\* The commit is acknowledged: from now on a crash leads back to it.
LEMMA CommitSyncKeeps ==
  ASSUME Recovery, CommitSync
  PROVE  Recovery'
<1>1. /\ step = "sync" /\ step' = "idle" /\ Up /\ Up'
      /\ synced' = [synced EXCEPT ![tip] = Len(file[tip])]
      /\ safeHint' = [safeHint EXCEPT ![tip] = hint[tip]]
      /\ stable' = view /\ offered' = {} /\ attached' = attached \ detaching /\ detaching' = {}
      /\ UNCHANGED <<file, hint, tip, entry, lineAt, known, cr, past, view, era, auxEnd>>
  BY DEF CommitSync, Up, index
<1>2. Shape /\ TypeOK /\ InMemory /\ Placed /\ Durable /\ Shape' /\ TypeOK' /\ Grows
  BY <1>1, CommitSyncShape DEF Recovery, Shape
<1>3. /\ \A v \in Volume : \A i \in Nat : i <= Firm[v] => i <= Firm'[v]
      /\ \A at \in Locator : Has(Logs, at) => SameAt(Logs, Logs', at) /\ (Safe(at) => Safe(at)')
  BY <1>2, GrowsFacts
<1>4. InUse' = attached' /\ InUse' = InUse /\ tip \in InUse /\ tip \in Volume /\ era \in Nat
  BY <1>1, <1>2 DEF InUse, Placed, TypeOK
<1>5. InMemory' /\ Placed'
  BY <1>1, <1>2, <1>4, PlacedStays
<1>6. CommitsWell'
  <2>1. ASSUME NEW v \in Volume, NEW i \in Commits(file[v])  PROVE CommitWell(v, i)'
    <3>1. i \in Nat /\ file'[v][i] = file[v][i] /\ CommitWell(v, i)
      BY <1>1, <1>2, CommitFacts DEF Durable, CommitsWell
    <3>2. Survives(v, i) => \A at \in RefsOf(Logs, file[v][i].cr) :
                              SameAt(Logs, Logs', at) /\ (Safe(at) => Safe(at)')
      BY <1>2, <1>3, SurvivesRefs
    <3>3. Newest(v, i) => i <= Firm'[v]
      <4>1. Newest(v, i) => i = synced'[v]
        BY <1>1, <1>2, <1>4 DEF Newest, TypeOK
      <4>2. synced'[v] <= Firm'[v]
        BY <1>2, FirmNext
      <4> QED  BY <4>1, <4>2
    <3>4. v # tip => file[v][i].cr.gen <= cr'.gen
      BY <1>1, <1>2, GensBehind
    <3>5. past \subseteq past' /\ era <= era'
      BY <1>1, <1>4
    <3> QED  BY <1>1, <1>2, <1>3, <1>4, <3>1, <3>2, <3>3, <3>4, <3>5, CommitStays
  <2> QED  BY <1>1, <2>1 DEF CommitsWell
<1>7. Recovers'
  <2> PICK n : n = Len(file[tip])
    OBVIOUS
  <2>1. /\ n \in Commits(file[tip]) /\ file[tip][n] = Commit(cr, view)
        /\ \A w \in Volume \ {tip} : \A j \in Commits(file[w]) : file[w][j].cr.gen < cr.gen
    BY <1>1, <1>2 DEF Durable, Offering, IsCommit, Commits
  <2>2. file[tip][n].cr = cr /\ file[tip][n].left = view /\ file[tip][n].era = era
    BY <2>1 DEF Commit
  <2>3. \A v \in Volume : Acked(v)' = Commits(file[v])
    BY <1>1 DEF Acked, Newest
  <2>4. \A j \in Commits(file[tip]) : j <= n
    <3>1. Len(file[tip]) \in Nat /\ \A j \in Commits(file[tip]) : j \in 1 .. Len(file[tip])
      BY <1>2, <1>4, CommitFacts, LogFacts
    <3> QED  BY <3>1
  <2>5. Survives(tip, n)' /\ \A at \in RefsOf(Logs', file'[tip][n].cr) : at[1] \in attached'
    <3>1. CommitWell(tip, n)'
      BY <1>1, <1>4, <1>6, <2>1 DEF CommitsWell
    <3> QED  BY <1>1, <1>4, <2>2, <3>1 DEF CommitWell
  <2>6. \A kept : kept = view => BestAt(kept, tip, n)'
    <3>1. file' = file /\ tip' = tip /\ tip \in attached'
      BY <1>1, <1>4
    <3>2. n \in Acked(tip)' /\ \A j \in Acked(tip)' : j <= n
      BY <1>4, <2>1, <2>3, <2>4, <3>1
    <3>3. \A w \in Volume : w # tip =>
            \A j \in Acked(w)' : file'[w][j].cr.gen < file'[tip][n].cr.gen
      BY <2>1, <2>2, <2>3, <3>1
    <3>4. file'[tip][n].left = view
      BY <2>2, <3>1
    <3> QED  BY <2>5, <3>1, <3>2, <3>3, <3>4 DEF BestAt
  <2>7. \A kept : kept = view => Best(kept)'
    <3>1. n \in Acked(tip)' /\ tip' = tip
      BY <1>1, <1>4, <2>1, <2>3
    <3> QED  BY <1>4, <2>6, <3>1 DEF Best
  <2>8. PICK kept : kept = view
    OBVIOUS
  <2>9. Best(kept)' /\ stable' = kept
    BY <1>1, <2>7, <2>8
  <2>10. Best(stable)'
    BY <2>9 DEF Best, NoneAcked, BestAt
  <2> QED  BY <2>10 DEF Recovers
<1>8. Offering'
  BY <1>1 DEF Offering
<1>9. Behind'
  <2>1. \A w \in Volume : w # tip => synced'[w] = synced[w]
    BY <1>1, <1>2 DEF TypeOK
  <2>2. \A w \in Volume : w # tip => Firm'[w] = Firm[w]
    BY <1>2, <2>1, FirmGrows DEF Grows
  <2> QED  BY <1>1, <1>2, <2>2 DEF Durable, Behind
<1>10. Hints'
  <2>1. ASSUME NEW v \in Volume, NEW h \in {hint'[v], safeHint'[v]}
        PROVE  h \in {hint[v], safeHint[v]} /\ (h[2] <= Firm[v] => h[2] <= Firm'[v])
    <3>1. h \in {hint[v], safeHint[v]}
      BY <1>1, <1>2, <2>1 DEF TypeOK
    <3>2. h[2] \in Nat
      BY <1>2, <3>1, Locators DEF TypeOK
    <3> QED  BY <1>3, <3>1, <3>2
  <2>2. HeaderPointsBack'
    BY <1>1, <1>2, <2>1, HintsStay DEF Durable, Hints
  <2> QED  BY <1>1, <2>2 DEF Hints
<1>11. Durable'
  BY <1>6, <1>7, <1>8, <1>9, <1>10 DEF Durable
<1> QED  BY <1>2, <1>5, <1>11 DEF Recovery

\* Nothing that is needed is in the volume that is unlinked.
LEMMA UnlinkKeeps ==
  ASSUME Recovery, NEW v \in Volume, Unlink(v)
  PROVE  Recovery'
<1>1. /\ step = "idle" /\ step' = "idle" /\ Up /\ Up' /\ v \notin attached
      /\ file' = [file EXCEPT ![v] = <<>>] /\ hint' = [hint EXCEPT ![v] = Nowhere]
      /\ synced' = [synced EXCEPT ![v] = 0] /\ safeHint' = [safeHint EXCEPT ![v] = Nowhere]
      /\ auxEnd' = [auxEnd EXCEPT ![v] = 0] /\ inherited' = [inherited EXCEPT ![v] = 0]
      /\ UNCHANGED <<attached, tip, entry, lineAt, known, cr, detaching, stable, offered,
                     past, view, era>>
  BY DEF Unlink, Idle, Up, promises, index
<1>2. /\ Shape /\ TypeOK /\ InMemory /\ Placed /\ Durable /\ Shape' /\ TypeOK'
      /\ v # tip /\ \A w \in Volume : w # v => Logs'[w] = Logs[w]
  BY <1>1, UnlinkShape DEF Recovery, Shape
<1>3. /\ file'[v] = <<>> /\ hint'[v] = Nowhere /\ safeHint'[v] = Nowhere
      /\ Firm'[v] = 0 /\ Len(file'[v]) = 0 /\ Commits(file'[v]) = {}
      /\ \A w \in Volume : w # v =>
           /\ file'[w] = file[w] /\ hint'[w] = hint[w] /\ safeHint'[w] = safeHint[w]
           /\ Firm'[w] = Firm[w] /\ auxEnd'[w] = auxEnd[w]
  <2>1. /\ file \in [Volume -> Seq(RecordType)] /\ hint \in [Volume -> Locator]
        /\ safeHint \in [Volume -> Locator]
        /\ synced \in [Volume -> Nat] /\ auxEnd \in [Volume -> Nat]
        /\ inherited \in [Volume -> Nat]
    BY <1>2 DEF TypeOK
  <2>2. <<>> \in Seq(RecordType) /\ Len(<<>>) = 0
    BY EmptySeq
  <2>3. Commits(<<>>) = {}
    <3>1. ASSUME NEW f \in Seq(RecordType), Len(f) = 0  PROVE Commits(f) = {}
      <4>1. Commits(f) = {i \in 1 .. Len(f) : f[i].kind = "COMM"}
        BY CommitsOf
      <4> QED  BY <3>1, <4>1
    <3> QED  BY <2>2, <3>1
  <2>4. /\ synced'[v] = 0 /\ inherited'[v] = 0
        /\ \A w \in Volume : w # v => synced'[w] = synced[w] /\ inherited'[w] = inherited[w]
    BY <1>1, <2>1
  <2>5. Firm'[v] = 0 /\ \A w \in Volume : w # v => Firm'[w] = Firm[w]
    BY <2>4 DEF Firm
  <2> QED  BY <1>1, <2>1, <2>2, <2>3, <2>5
<1>4. InUse' = InUse /\ InUse \subseteq attached /\ v \notin InUse /\ era \in Nat
  BY <1>1, <1>2 DEF InUse, TypeOK
<1>5. \A at \in Locator : at[1] # v /\ Has(Logs, at) =>
        SameAt(Logs, Logs', at) /\ (Safe(at) => Safe(at)')
  BY <1>2, <1>3, Locators DEF Has, Rec, SameAt, Safe
<1>6. /\ entry \in [Record -> Locator] /\ lineAt \in [Line -> Locator]
  BY <1>2 DEF TypeOK
<1>7. ASSUME cr.mix # Nowhere
      PROVE  /\ Readable(Logs', cr) /\ LinesOf(Logs', cr) = LinesOf(Logs, cr)
             /\ EntryOf(Logs', cr) = EntryOf(Logs, cr) /\ RefsOf(Logs', cr) = RefsOf(Logs, cr)
  <2>1. \A at \in RefsOf(Logs, cr) : SameAt(Logs, Logs', at)
    BY <1>2, <1>4, <1>5, <1>7, MemoryRefs DEF Placed
  <2> QED  BY <1>2, <1>7, <2>1, Carries DEF InMemory
<1>8. ASSUME NEW r \in Record  PROVE LeadsIn(Logs', entry[r], view[r])
  <2>1. LeadsIn(Logs, entry[r], view[r]) /\ entry[r] \in Locator
    BY <1>2, <1>6 DEF InMemory
  <2>2. entry[r] # Nowhere => SameAt(Logs, Logs', entry[r])
    BY <1>2, <1>4, <1>5, <2>1 DEF Placed, LeadsIn, HasKind
  <2> QED  BY <2>1, <2>2 DEF LeadsIn, HasKind, SameAt
<1>9. ASSUME NEW l \in Line, lineAt[l] # Nowhere  PROVE LineRight(Logs', lineAt[l], l, entry)
  <2>1. LineRight(Logs, lineAt[l], l, entry) /\ lineAt[l] \in Locator
    BY <1>2, <1>6, <1>9 DEF InMemory
  <2>2. SameAt(Logs, Logs', lineAt[l])
    BY <1>2, <1>4, <1>5, <1>9, <2>1 DEF Placed, LineRight, HasLine, HasKind
  <2> QED  BY <2>1, <2>2 DEF LineRight, HasLine, HasKind, SameAt
<1>10. InMemory'
  BY <1>1, <1>2, <1>7, <1>8, <1>9 DEF InMemory
<1>11. Placed'
  <2>1. cr.self # Nowhere =>
          cr.self[1] \in InUse /\ IsCommit(file'[cr.self[1]], cr.self[2])
    <3> SUFFICES ASSUME cr.self # Nowhere
                 PROVE  cr.self[1] \in InUse /\ IsCommit(file'[cr.self[1]], cr.self[2])
      OBVIOUS
    <3>1. cr.self[1] \in InUse /\ IsCommit(file[cr.self[1]], cr.self[2])
      BY <1>2 DEF Placed
    <3>2. cr.self[1] \in Volume /\ cr.self[1] # v
      BY <1>2, <1>4, <3>1 DEF TypeOK
    <3> QED  BY <1>3, <3>1, <3>2
  <2> QED  BY <1>1, <1>2, <1>4, <1>7, <2>1 DEF Placed
<1>12. \A w, i : ~Newest(w, i) /\ ~Newest(w, i)'
  BY <1>1 DEF Newest
<1>13. CommitsWell'
  <2>1. ASSUME NEW w \in Volume, w # v, NEW i \in Commits(file[w])  PROVE CommitWell(w, i)'
    <3>1. file'[w][i] = file[w][i] /\ CommitWell(w, i) /\ Firm'[w] = Firm[w]
      BY <1>2, <1>3, <2>1 DEF Durable, CommitsWell
    <3>2. Survives(w, i) /\ (\A at \in RefsOf(Logs, file[w][i].cr) : at[1] \in InUse) =>
            \A at \in RefsOf(Logs, file[w][i].cr) :
              SameAt(Logs, Logs', at) /\ (Safe(at) => Safe(at)')
      BY <1>2, <1>4, <1>5, SurvivesRefs
    <3>3. w # tip => file[w][i].cr.gen <= cr'.gen
      BY <1>1, <1>2, GensBehind
    <3>4. past \subseteq past' /\ era <= era'
      BY <1>1, <1>4
    <3> QED  BY <1>1, <1>2, <1>4, <1>12, <3>1, <3>2, <3>3, <3>4, CommitStays
  <2> QED  BY <1>3, <2>1 DEF CommitsWell
<1>14. Recovers'
  <2>1. Best(stable)
    BY <1>1, <1>2 DEF Durable, Recovers
  <2>2. \A w \in Volume : /\ Acked(w) = Commits(file[w])
                          /\ Acked(w)' = IF w = v THEN {} ELSE Commits(file[w])
    BY <1>3, <1>12 DEF Acked
  <2>3. ASSUME NEW b \in Volume, NEW i \in Acked(b), BestAt(stable, b, i)
        PROVE  /\ b \in attached' /\ b # v
               /\ \A at \in RefsOf(Logs, file[b][i].cr) :
                    /\ SameAt(Logs, Logs', at) /\ (Safe(at) => Safe(at)')
                    /\ at[1] \in attached'
    <3>1. Survives(b, i) /\ b \in attached
          /\ \A at \in RefsOf(Logs, file[b][i].cr) : at[1] \in attached
      BY <1>1, <2>3 DEF BestAt
    <3>2. i \in Commits(file[b])
      BY <2>2
    <3> QED  BY <1>1, <1>2, <1>5, <3>1, <3>2, SurvivesRefs
  <2>4. \A w \in Volume : \A i \in Acked(w)' : file'[w][i] = file[w][i]
    BY <1>3, <2>2
  <2>5. Best(stable)'
    BY <1>1, <2>1, <2>2, <2>3, <2>4, StableStays
  <2> QED  BY <2>5 DEF Recovers
<1>15. Offering'
  BY <1>1, <1>2 DEF Durable, Offering
<1>16. Behind'
  <2>1. ASSUME NEW w \in Volume, w # tip
        PROVE  Len(file'[w]) <= Firm'[w] \/ Len(file'[w]) <= auxEnd'[w]
    <3>1. CASE w = v
      BY <1>3, <3>1
    <3>2. CASE w # v
      BY <1>1, <1>2, <1>3, <2>1, <3>2 DEF Durable, Behind
    <3> QED  BY <3>1, <3>2
  <2> QED  BY <1>1, <2>1 DEF Behind
<1>17. Hints'
  <2>1. HeaderPointsBack'
    BY <1>2, <1>3, HintsStay DEF Durable, Hints
  <2> QED  BY <1>1, <2>1 DEF Hints
<1>18. Durable'
  BY <1>13, <1>14, <1>15, <1>16, <1>17 DEF Durable
<1> QED  BY <1>2, <1>10, <1>11, <1>18 DEF Recovery

\* A crash keeps what was synced and what was moved aside, so all commits that were
\* acknowledged; it may also keep the one that was being made, and then all it needs.
LEMMA GoDownKeeps ==
  ASSUME Disciplined, Recovery, NEW kept \in [Volume -> Nat], NEW h \in [Volume -> Locator],
         synced' \in [Volume -> Nat], safeHint' \in [Volume -> Locator],
         \A v \in Volume : /\ kept[v] <= Len(file[v]) /\ synced[v] <= kept[v]
                           /\ synced'[v] <= kept[v] /\ h[v] \in {hint[v], safeHint[v]}
                           /\ safeHint'[v] \in {hint'[v], safeHint[v]},
         GoDown(kept, h)
  PROVE  Recovery'
<1>1. /\ step # "down" /\ step' = "down" /\ Up /\ ~Up'
      /\ \A v \in Volume : Sighted(SubSeq(file[v], 1, kept[v]), h[v])
      /\ \A v \in Volume : kept[v] >= auxEnd[v] /\ kept[v] >= inherited[v]
      /\ file' = [v \in Volume |-> SubSeq(file[v], 1, kept[v])]
      /\ hint' = [v \in Volume |-> IF kept[v] = 0 THEN Nowhere ELSE h[v]]
      /\ UNCHANGED <<tip, cr, stable, offered, past, view, era>>
  BY DEF GoDown, Up, promises, Disciplined
<1>2. Shape /\ TypeOK /\ Durable
  BY DEF Recovery, Shape
<1>3. /\ Shape' /\ TypeOK'
      /\ \A v \in Volume :
           /\ Logs'[v] = file'[v] /\ Len(file'[v]) = kept[v]
           /\ \A i \in 1 .. kept[v] : file'[v][i] = file[v][i]
           /\ Firm'[v] = kept[v] /\ hint'[v] = IF kept[v] = 0 THEN Nowhere ELSE h[v]
  <2>1. /\ Shape' /\ TypeOK'
        /\ \A v \in Volume :
             /\ Logs'[v] = file'[v] /\ Len(file'[v]) = kept[v]
             /\ \A i \in 1 .. kept[v] : file'[v][i] = file[v][i]
             /\ inherited'[v] = kept[v] /\ hint'[v] = IF kept[v] = 0 THEN Nowhere ELSE h[v]
    BY <1>2, GoDownShape DEF Shape
  <2>2. ASSUME NEW v \in Volume  PROVE Firm'[v] = kept[v]
    <3>1. synced'[v] \in Nat /\ synced'[v] <= kept[v] /\ inherited'[v] = kept[v]
      BY <2>1
    <3> QED  BY <3>1 DEF Firm
  <2> QED  BY <2>1, <2>2
<1>4. ASSUME NEW v \in Volume
      PROVE  /\ kept[v] \in Nat /\ Len(file[v]) \in Nat /\ Firm[v] \in Nat /\ auxEnd[v] \in Nat
             /\ kept[v] <= Len(file[v]) /\ Firm[v] <= kept[v] /\ auxEnd[v] <= kept[v]
  <2>1. /\ kept[v] \in Nat /\ Len(file[v]) \in Nat /\ auxEnd[v] \in Nat
        /\ synced[v] <= kept[v] /\ inherited[v] <= kept[v] /\ auxEnd[v] <= kept[v]
        /\ inherited[v] \in Nat /\ kept[v] <= Len(file[v])
    BY <1>1, <1>2, LogFacts DEF TypeOK
  <2>2. Firm[v] \in Nat /\ Firm[v] <= kept[v]
    BY <1>2, <2>1, FirmFacts DEF Firm
  <2> QED  BY <2>1, <2>2
<1>5. ASSUME NEW v \in Volume
      PROVE  /\ Commits(file'[v]) = {i \in Commits(file[v]) : i <= kept[v]}
             /\ \A i \in Commits(file'[v]) : file'[v][i] = file[v][i] /\ i \in 1 .. kept[v]
  <2>1. /\ Commits(file[v]) = {i \in 1 .. Len(file[v]) : file[v][i].kind = "COMM"}
        /\ Commits(file'[v]) = {i \in 1 .. Len(file'[v]) : file'[v][i].kind = "COMM"}
    BY <1>2, <1>3, CommitsOf, ZenonT(60) DEF TypeOK
  <2>2. \A i \in 1 .. Len(file[v]) : i <= kept[v] <=> i \in 1 .. kept[v]
    BY <1>4
  <2>3. \A i \in 1 .. kept[v] : i \in 1 .. Len(file[v])
    BY <1>4
  <2> QED  BY <1>3, <2>1, <2>2, <2>3
<1>6. ASSUME NEW at \in Locator, at[2] <= kept[at[1]], Has(Logs, at)
      PROVE  SameAt(Logs, Logs', at) /\ Safe(at)'
  <2>1. at[1] \in Volume /\ at[2] \in Nat
    BY Locators
  <2>2. at[2] \in 1 .. Len(Logs[at[1]])
    BY <1>6 DEF Has
  <2>3. at[2] \in 1 .. kept[at[1]]
    BY <1>2, <1>4, <1>6, <2>1, <2>2, LogFacts
  <2>4. file[at[1]][at[2]] = Logs[at[1]][at[2]]
    <3>1. Begins(file[at[1]], Logs[at[1]]) /\ at[2] \in 1 .. Len(file[at[1]])
      BY <1>2, <1>4, <2>1, <2>3, LogFacts
    <3> QED  BY <3>1 DEF Begins
  <2> QED  BY <1>3, <1>6, <2>1, <2>3, <2>4 DEF SameAt, Has, Rec, Safe
<1>7. ASSUME NEW v \in Volume, NEW i \in Commits(file[v]), i <= kept[v], Survives(v, i)
      PROVE  \A at \in RefsOf(Logs, file[v][i].cr) : SameAt(Logs, Logs', at) /\ Safe(at)'
  <2> SUFFICES ASSUME NEW at \in RefsOf(Logs, file[v][i].cr)
               PROVE  SameAt(Logs, Logs', at) /\ Safe(at)'
    OBVIOUS
  <2>1. at \in Locator /\ Has(Logs, at) /\ at[1] \in Volume /\ at[2] \in Nat
    BY <1>2, <1>7, SurvivesRefs, Locators
  <2>2. (at[1] = v /\ at[2] < i) \/ at[2] <= Firm[at[1]] \/ at[2] <= auxEnd[at[1]]
    BY <1>7 DEF Survives, Safe
  <2>3. i \in Nat
    BY <1>2, CommitFacts
  <2>4. at[2] <= kept[at[1]]
    BY <1>4, <1>7, <2>1, <2>2, <2>3
  <2> QED  BY <1>6, <2>1, <2>4
<1>8. CommitsWell'
  <2> SUFFICES ASSUME NEW v \in Volume, NEW i \in Commits(file'[v])  PROVE CommitWell(v, i)'
    BY DEF CommitsWell
  <2>1. /\ i \in Commits(file[v]) /\ i <= kept[v] /\ file'[v][i] = file[v][i]
        /\ CommitWell(v, i)
    BY <1>2, <1>5 DEF Durable, CommitsWell
  <2>2. i <= Firm'[v]
    BY <1>3, <2>1
  <2>3. past \subseteq past' /\ era <= era'
    BY <1>1, <1>2 DEF TypeOK
  <2> QED  BY <1>1, <1>2, <1>3, <1>7, <2>1, <2>2, <2>3, CommitStays
<1>9. \A v \in Volume : Acked(v)' = Commits(file'[v])
  BY <1>1 DEF Acked, Newest
<1>10. ASSUME step = "sync", kept[tip] = Len(file[tip])  PROVE Recovers'
  <2> PICK n : n = Len(file[tip])
    OBVIOUS
  <2>1. tip \in Volume /\ tip' = tip
    BY <1>1, <1>2 DEF TypeOK
  <2>2. /\ n \in Commits(file[tip]) /\ file[tip][n] = Commit(cr, view) /\ offered = {view}
        /\ \A w \in Volume \ {tip} : \A j \in Commits(file[w]) : file[w][j].cr.gen < cr.gen
    BY <1>2, <1>10 DEF Durable, Offering, IsCommit, Commits
  <2>3. file[tip][n].cr = cr /\ file[tip][n].left = view /\ file[tip][n].era = era
    BY <2>2 DEF Commit
  <2>4. n \in Commits(file'[tip]) /\ file'[tip][n] = file[tip][n]
        /\ \A j \in Commits(file'[tip]) : j <= n
    BY <1>4, <1>5, <1>10, <2>1, <2>2
  <2>5. CommitWell(tip, n)'
    BY <1>8, <2>1, <2>4 DEF CommitsWell
  <2>6. Survives(tip, n)'
    BY <1>1, <2>1, <2>3, <2>4, <2>5 DEF CommitWell
  <2>7. \A w \in Volume : w # tip =>
          \A j \in Commits(file'[w]) : file'[w][j].cr.gen < file'[tip][n].cr.gen
    BY <1>5, <2>2, <2>3, <2>4
  <2>8. \A left : left = view => BestAt(left, tip, n)'
    BY <1>1, <1>9, <2>1, <2>3, <2>4, <2>6, <2>7 DEF BestAt
  <2>9. \A left : left = view => Best(left)'
    BY <1>9, <2>1, <2>4, <2>8 DEF Best
  <2>10. PICK left : left = view
    OBVIOUS
  <2>11. left \in offered' /\ Best(left)'
    BY <1>1, <2>2, <2>9, <2>10
  <2> QED  BY <1>1, <2>11 DEF Recovers
<1>11. ASSUME ~(step = "sync" /\ kept[tip] = Len(file[tip]))  PROVE Recovers'
  <2>1. Best(stable)
    BY <1>1, <1>2 DEF Durable, Recovers
  <2>2. \A v \in Volume : /\ Acked(v)' \subseteq Acked(v)
                          /\ \A i \in Acked(v)' : file'[v][i] = file[v][i]
    <3> SUFFICES ASSUME NEW v \in Volume, NEW i \in Acked(v)'
                 PROVE  i \in Acked(v) /\ file'[v][i] = file[v][i]
      OBVIOUS
    <3>1. i \in Commits(file[v]) /\ i <= kept[v] /\ file'[v][i] = file[v][i]
      BY <1>5, <1>9
    <3>2. ~Newest(v, i)
      BY <1>4, <1>11, <3>1 DEF Newest
    <3> QED  BY <3>1, <3>2 DEF Acked
  <2>3. ASSUME NEW b \in Volume, NEW i \in Acked(b), BestAt(stable, b, i)
        PROVE  /\ i \in Acked(b)'
               /\ \A at \in RefsOf(Logs, file[b][i].cr) : SameAt(Logs, Logs', at) /\ Safe(at)'
    <3>1. i \in Commits(file[b]) /\ ~Newest(b, i) /\ Survives(b, i) /\ i \in Nat
      BY <1>2, <2>3, CommitFacts DEF Acked, BestAt
    <3>2. i <= Firm[b]
      BY <1>2, <3>1 DEF Durable, CommitsWell, CommitWell
    <3>3. i <= kept[b]
      BY <1>4, <3>1, <3>2
    <3> QED  BY <1>5, <1>7, <1>9, <3>1, <3>3
  <2>4. Best(stable)'
    BY <1>1, <2>1, <2>2, <2>3, StableStays
  <2> QED  BY <2>4 DEF Recovers
<1>12. Offering' /\ Behind'
  <2>1. \A w \in Volume : Len(file'[w]) <= Firm'[w]
    BY <1>3, <1>4
  <2> QED  BY <1>1, <2>1 DEF Offering, Behind
<1>13. Hints'
  <2>1. ASSUME NEW v \in Volume, NEW a \in {hint'[v], safeHint'[v]}, a # Nowhere
        PROVE  /\ a \in {hint[v], safeHint[v]}
               /\ IsCommit(file[v], a[2]) /\ a[2] <= Firm[v] =>
                    IsCommit(file'[v], a[2]) /\ a[2] <= Firm'[v]
    <3>1. a \in {hint[v], safeHint[v]}
      <4>1. a = hint'[v] => a \in {hint[v], safeHint[v]}
        BY <1>3, <2>1
      <4> QED  BY <2>1, <4>1
    <3>2. a[2] \in Nat
      BY <1>2, <3>1, Locators DEF TypeOK
    <3>3. a[2] <= Firm[v] => a[2] <= kept[v] /\ a[2] <= Firm'[v]
      BY <1>3, <1>4, <3>2
    <3> QED  BY <1>5, <3>1, <3>3 DEF IsCommit, Commits
  <2>2. HeaderPointsBack'
    BY <1>2, <2>1, HintsStay DEF Durable, Hints
  <2>3. ASSUME NEW v \in Volume  PROVE Sighted(file'[v], hint'[v])
    <3>1. CASE kept[v] = 0
      <4>1. file'[v] \in Seq(RecordType) /\ Len(file'[v]) = 0
        BY <1>3, <3>1 DEF TypeOK
      <4>2. file'[v] = <<>>
        BY <4>1, EmptySeq
      <4> QED  BY <4>2 DEF Sighted
    <3>2. CASE kept[v] # 0
      BY <1>1, <3>2
    <3> QED  BY <3>1, <3>2
  <2> QED  BY <2>2, <2>3 DEF Hints
<1>14. Durable'
  BY <1>8, <1>10, <1>11, <1>12, <1>13 DEF Durable
<1> QED  BY <1>1, <1>3, <1>14 DEF Recovery

-----------------------------------------------------------------------------
(* The recovery                                                            *)

LEMMA EmptyCommits ==
  ASSUME NEW f \in Seq(RecordType), f = <<>>
  PROVE  Commits(f) = {} /\ \A i : ~IsCommit(f, i)
<1>1. Len(f) = 0
  BY EmptySeq
<1>2. Commits(f) = {i \in 1 .. Len(f) : f[i].kind = "COMM"} /\ \A i : IsCommit(f, i) <=> i \in Commits(f)
  BY CommitsOf
<1> QED  BY <1>1, <1>2

\* No header misleads lss_openx but one that is astray, where it stops.
LEMMA OnlyAstrayMisleads ==
  ASSUME Hints, NEW v \in Volume, ~Astray(v)
  PROVE  ~Misled(v)
  BY DEF Hints, HeaderPointsBack, Astray, Misled

\* lss_openx misses no volume that has a commit.
LEMMA SightedFinds ==
  ASSUME Shape, Hints, ~Up, NEW v \in Volume, ~Misled(v)
  PROVE  FoundOn(v) = Nowhere <=> Commits(file[v]) = {}
<1> DEFINE f == file[v]
           h == hint[v]
<1>1. f \in Seq(RecordType) /\ h \in Locator /\ Len(f) \in Nat
  BY LogFacts DEF Shape, TypeOK
<1>2. /\ Commits(f) = {i \in 1 .. Len(f) : f[i].kind = "COMM"}
      /\ \A i : IsCommit(f, i) <=> i \in Commits(f)
      /\ \A i \in Commits(f) : i \in Nat /\ 0 < i /\ i <= Len(f)
  <2>1. /\ Commits(f) = {i \in 1 .. Len(f) : f[i].kind = "COMM"}
        /\ \A i : IsCommit(f, i) <=> i \in Commits(f)
    BY <1>1, CommitsOf
  <2> QED  BY <1>1, <2>1
<1>3. Sighted(f, h) /\ (f = <<>> => h = Nowhere)
  BY DEF Hints, Shape, Opened
<1>5. FoundOn(v) = LastCommit(f, h, v)
  BY DEF FoundOn
<1>6. f # <<>> /\ ~IsCommit(f, Len(f)) /\ h # Nowhere => h[1] = v /\ IsCommit(f, h[2])
  BY DEF Misled
<1>7. \A i \in Nat : <<v, i>> = Nowhere => i = 0
  BY DEF Nowhere
<1> HIDE DEF f, h
<1>8. CASE IsCommit(f, Len(f))
  <2>1. LastCommit(f, h, v) = <<v, Len(f)>> /\ Len(f) \in Commits(f)
    BY <1>2, <1>8 DEF LastCommit
  <2>2. LastCommit(f, h, v) # Nowhere
    BY <1>1, <1>2, <1>7, <2>1
  <2> QED  BY <1>5, <2>1, <2>2 DEF f
<1>9. CASE ~IsCommit(f, Len(f)) /\ h = Nowhere
  <2>1. LastCommit(f, h, v) = Nowhere
    BY <1>9 DEF LastCommit
  <2>2. Commits(f) = {}
    BY <1>1, <1>3, <1>9, EmptyCommits DEF Sighted
  <2> QED  BY <1>5, <2>1, <2>2 DEF f
<1>10. CASE ~IsCommit(f, Len(f)) /\ h # Nowhere
  <2>1. h[1] = v /\ IsCommit(f, h[2]) /\ h[2] \in Commits(f)
    BY <1>2, <1>3, <1>6, <1>10
  <2> DEFINE S == {i \in Commits(f) : i >= h[2]} \cup {h[2]}
  <2>2. S \subseteq Commits(f) /\ S # {} /\ S \in SUBSET Nat /\ \A i \in S : i <= Len(f)
    BY <1>2, <2>1
  <2>3. LastCommit(f, h, v) = <<v, Latest(S)>>
    BY <1>10 DEF LastCommit
  <2> HIDE DEF S
  <2>4. Latest(S) \in S
    BY <1>1, <2>2, LatestFacts
  <2>5. Latest(S) \in Commits(f) /\ Latest(S) \in Nat /\ Latest(S) # 0
    <3>1. \A i \in Commits(f) : i \in Nat /\ i # 0
      BY <1>2
    <3>2. Latest(S) \in Commits(f)
      BY <2>2, <2>4
    <3> QED  BY <3>1, <3>2
  <2>6. LastCommit(f, h, v) # Nowhere /\ Commits(f) # {}
    BY <1>7, <2>3, <2>5
  <2> QED  BY <1>5, <2>6 DEF f
<1> QED  BY <1>8, <1>9, <1>10

\* lss_openx favors the last commit of the volume with the latest generation.
LEMMA BestFound ==
  ASSUME Shape, Hints, ~Up, \A v \in Volume : ~Misled(v),
         NEW left, NEW b \in Volume, NEW i \in Acked(b), BestAt(left, b, i)
  PROVE  /\ FoundOn(b) = <<b, i>> /\ CommitAt(FoundOn(b)) = file[b][i].cr
         /\ Found # {} /\ Favored(b) /\ \A v \in Volume : Favored(v) => v = b
<1>1. TypeOK /\ \A v \in Volume : Acked(v) = Commits(file[v])
  BY DEF Shape, Acked, Newest, Up
<1>2. ASSUME NEW v \in Found
      PROVE  \E j \in Commits(file[v]) :
               /\ FoundOn(v) = <<v, j>> /\ CommitAt(FoundOn(v)) = file[v][j].cr
               /\ file[v][j].cr.gen \in Nat /\ \A k \in Commits(file[v]) : k <= j
  <2>1. v \in Volume /\ FoundOn(v) # Nowhere /\ ~Misled(v)
    BY SightedFinds DEF Found
  <2>2. PICK j \in Commits(file[v]) : /\ FoundOn(v) = <<v, j>>
                                      /\ \A k \in Commits(file[v]) : k <= j
    BY <2>1, FoundFacts
  <2>3. CommitAt(<<v, j>>) = file[v][j].cr /\ file[v][j].cr.gen \in Nat
    BY <1>1, <2>1, CommitFacts, CommitParts
  <2> QED  BY <2>2, <2>3
<1>3. b \in Found
  BY <1>1, SightedFinds DEF Found
<1>4. /\ FoundOn(b) = <<b, i>> /\ CommitAt(FoundOn(b)) = file[b][i].cr
      /\ file[b][i].cr.gen \in Nat
  <2>1. PICK j \in Commits(file[b]) :
          /\ FoundOn(b) = <<b, j>> /\ CommitAt(FoundOn(b)) = file[b][j].cr
          /\ file[b][j].cr.gen \in Nat /\ \A k \in Commits(file[b]) : k <= j
    BY <1>2, <1>3
  <2>2. i \in Commits(file[b]) /\ i \in Nat /\ j \in Nat /\ j <= i /\ i <= j
    BY <1>1, <2>1, CommitFacts DEF BestAt
  <2>3. i = j
    BY <2>2
  <2> QED  BY <2>1, <2>3
<1>5. ASSUME NEW w \in Found, w # b
      PROVE  /\ CommitAt(FoundOn(w)).gen < CommitAt(FoundOn(b)).gen
             /\ CommitAt(FoundOn(w)).gen \in Nat /\ CommitAt(FoundOn(b)).gen \in Nat
  <2>1. PICK j \in Commits(file[w]) :
          CommitAt(FoundOn(w)) = file[w][j].cr /\ file[w][j].cr.gen \in Nat
    BY <1>2
  <2>2. w \in Volume
    BY DEF Found
  <2>3. file[w][j].cr.gen < file[b][i].cr.gen
    BY <1>1, <1>5, <2>1, <2>2 DEF BestAt
  <2> QED  BY <1>4, <2>1, <2>3
<1>6. b \in Int
  BY DEF Volume
<1>7. Favored(b)
  <2>1. ASSUME NEW w \in Found
        PROVE  LET g == CommitAt(FoundOn(b)).gen
                   h == CommitAt(FoundOn(w)).gen
               IN  g > h \/ (g = h /\ b <= w)
    <3>1. CASE w = b
      BY <1>6, <3>1
    <3>2. CASE w # b
      BY <1>5, <3>2
    <3> QED  BY <3>1, <3>2
  <2> QED  BY <1>3, <2>1 DEF Favored
<1>8. ASSUME NEW v \in Volume, Favored(v), v # b  PROVE FALSE
  <2>1. v \in Found
    BY <1>8 DEF Favored
  <2>2. \/ CommitAt(FoundOn(v)).gen > CommitAt(FoundOn(b)).gen
        \/ CommitAt(FoundOn(v)).gen = CommitAt(FoundOn(b)).gen
    BY <1>3, <1>8 DEF Favored
  <2> QED  BY <1>5, <1>8, <2>1, <2>2
<1> QED  BY <1>3, <1>4, <1>7, <1>8

LEMMA NoneFound ==
  ASSUME Shape, Hints, ~Up, \A v \in Volume : ~Misled(v), NEW left, NoneAcked(left)
  PROVE  Found = {}
<1>1. \A v \in Volume : Commits(file[v]) = {}
  BY DEF NoneAcked, Acked, Newest, Up
<1> QED  BY <1>1, SightedFinds DEF Found

\* The store can be opened if no hint is astray.
LEMMA CanOpen ==
  ASSUME Recovery, ~Up, \A v \in Volume : ~Astray(v)
  PROVE  ~CannotOpen
<1>1. Shape /\ TypeOK /\ Hints
  BY DEF Recovery, Shape, Durable
<1>2. PICK left : Best(left)
  BY DEF Recovery, Durable, Recovers
<1>3. \A v \in Volume : ~Misled(v)
  BY <1>1, OnlyAstrayMisleads
<1>4. ASSUME NEW v \in Volume, Favored(v)  PROVE Loadable(CommitAt(FoundOn(v)))
  <2>1. v \in Found
    BY <1>4 DEF Favored
  <2>2. ~NoneAcked(left)
    BY <1>1, <1>3, <2>1, NoneFound
  <2> PICK b \in Volume : \E i \in Acked(b) : BestAt(left, b, i)
    BY <1>2, <2>2 DEF Best
  <2>3. PICK i \in Acked(b) : BestAt(left, b, i)
    OBVIOUS
  <2>4. v = b /\ CommitAt(FoundOn(b)) = file[b][i].cr
    BY <1>1, <1>3, <1>4, <2>3, BestFound
  <2>5. i \in Commits(file[b]) /\ file[b][i].cr \in CommitRecordType
    BY <1>1, CommitFacts DEF Acked
  <2>6. Readable(Logs, file[b][i].cr)
    BY <2>3 DEF BestAt, Survives, LeadsTo
  <2> QED  BY <1>1, <2>4, <2>5, <2>6, StoreLoads
<1> QED  BY <1>3, <1>4 DEF CannotOpen

\* A new store, as Init and the recovery without any commit make it.
NewStore ==
  /\ Fresh(file, outbuf)
  /\ synced = [v \in Volume |-> Len(file[v])]
  /\ hint = [v \in Volume |-> Nowhere] /\ safeHint = hint
  /\ tip = 0 /\ attached = Volume
  /\ entry = [r \in Record |-> Nowhere]
  /\ lineAt = [l \in Line |-> Nowhere] /\ known = {}
  /\ cr = FirstCommitRecord
  /\ step = "idle" /\ detaching = {}
  /\ view = [r \in Record |-> Absent] /\ stable = view /\ offered = {}
  /\ inherited = [v \in Volume |-> 0]

LEMMA NewStoreKeeps == Shape /\ NewStore => Recovery
<1> SUFFICES ASSUME Shape, NewStore  PROVE Recovery
  OBVIOUS
<1>1. TypeOK /\ Up /\ step = "idle" /\ cr.mix = Nowhere /\ cr.self = Nowhere
      /\ offered = {}
  BY DEF Shape, NewStore, FirstCommitRecord, Up
<1>2. ASSUME NEW v \in Volume  PROVE Commits(file[v]) = {} /\ Len(file[v]) <= Firm[v]
  <2>1. NoCommits(file[v]) /\ Len(file[v]) \in Nat
    BY FreshFacts DEF NewStore
  <2>2. file[v] \in Seq(RecordType)
    BY <1>1 DEF TypeOK
  <2>3. Commits(file[v]) = {i \in 1 .. Len(file[v]) : file[v][i].kind = "COMM"}
    BY <2>2, CommitsOf
  <2>4. Firm[v] = Len(file[v])
    <3>1. synced[v] = Len(file[v]) /\ inherited[v] = 0
      BY DEF NewStore
    <3> QED  BY <2>1, <3>1 DEF Firm
  <2> QED  BY <2>1, <2>3, <2>4 DEF NoCommits
<1>3. InMemory
  <2>1. \A r \in Record : entry[r] = Nowhere /\ view[r] = Absent
    BY DEF NewStore
  <2>2. \A l \in Line : lineAt[l] = Nowhere
    BY DEF NewStore
  <2> QED  BY <1>1, <2>1, <2>2 DEF InMemory, LeadsIn
<1>4. Placed
  <2>1. tip \in InUse
    BY Locators DEF NewStore, InUse
  <2>2. (\A r \in Record : entry[r] = Nowhere) /\ (\A l \in Line : lineAt[l] = Nowhere)
    BY DEF NewStore
  <2> QED  BY <1>1, <2>1, <2>2 DEF Placed
<1>5. Recovers
  <2>1. \A v \in Volume : Acked(v) = {}
    BY <1>2 DEF Acked
  <2>2. \A r \in Record : stable[r] = Absent
    BY DEF NewStore
  <2> QED  BY <2>1, <2>2 DEF Recovers, Best, NoneAcked
<1>6. Hints
  <2>1. \A v \in Volume : hint[v] = Nowhere /\ safeHint[v] = Nowhere
    BY DEF NewStore
  <2> QED  BY <1>1, <2>1 DEF Hints, HeaderPointsBack
<1>7. CommitsWell /\ Offering /\ Behind
  BY <1>1, <1>2 DEF CommitsWell, Offering, Behind
<1> QED  BY <1>3, <1>4, <1>5, <1>6, <1>7 DEF Recovery, Durable

LEMMA NewStoreNext == Shape' /\ NewStore' => Recovery'
  BY NewStoreKeeps, PTL

\* What is read after the recovery is what the last commit has left, acknowledged or not.
LEMMA OpenFinds ==
  ASSUME Recovery, Open
  PROVE  \E left \in {stable} \cup offered :
           /\ Best(left) /\ left \in Snapshot /\ view' = left /\ stable' = left
           /\ \/ NoneAcked(left) /\ Create
              \/ \E b \in Volume : \E i \in Acked(b) :
                   BestAt(left, b, i) /\ FoundOn(b) = <<b, i>> /\ Reload(b)
<1>1. /\ step = "down" /\ ~Up /\ ~CannotOpen
      /\ IF Found = {} THEN Create ELSE \E v \in Volume : Favored(v) /\ Reload(v)
      /\ view' = IF Contents(entry') \in offered THEN Contents(entry') ELSE stable
      /\ stable' = view'
  BY DEF Open, Up
<1>2. Shape /\ TypeOK /\ Hints /\ \A v \in Volume : ~Misled(v)
  BY <1>1 DEF Recovery, Shape, Durable, CannotOpen
<1>3. PICK left \in {stable} \cup offered : Best(left)
  BY DEF Recovery, Durable, Recovers
<1>4. left \in Snapshot /\ left \in [Record -> Value \cup {Absent}]
  BY <1>2, <1>3 DEF TypeOK, Snapshot
<1>5. ASSUME Contents(entry') = left  PROVE view' = left
  BY <1>1, <1>3, <1>5
<1>6. CASE NoneAcked(left)
  <2>1. Create
    BY <1>1, <1>2, <1>6, NoneFound
  <2>2. entry' = [r \in Record |-> Nowhere]
    BY <2>1 DEF Create
  <2>3. \A r \in Record : Contents(entry')[r] = left[r]
    BY <1>6, <2>2 DEF Contents, NoneAcked
  <2>4. Contents(entry') = left
    BY <1>4, <2>3 DEF Contents
  <2> QED  BY <1>1, <1>3, <1>4, <1>5, <1>6, <2>1, <2>4
<1>7. CASE ~NoneAcked(left)
  <2> PICK b \in Volume : \E i \in Acked(b) : BestAt(left, b, i)
    BY <1>3, <1>7 DEF Best
  <2>1. PICK i \in Acked(b) : BestAt(left, b, i)
    OBVIOUS
  <2> DEFINE c == file[b][i].cr
  <2>2. /\ FoundOn(b) = <<b, i>> /\ CommitAt(FoundOn(b)) = c
        /\ Found # {} /\ \A v \in Volume : Favored(v) => v = b
    BY <1>1, <1>2, <2>1, BestFound
  <2>3. c \in CommitRecordType
    BY <1>2, CommitFacts DEF Acked
  <2>4. LeadsTo(Logs, c, left)
    BY <2>1 DEF BestAt, Survives
  <2> HIDE DEF c
  <2>5. Reload(b)
    BY <1>1, <2>2
  <2>6. Load(c)
    BY <2>2, <2>5 DEF Reload
  <2>7. entry' = EntryOf(Logs, c) /\ entry' \in [Record -> Locator]
    BY <1>2, <2>3, <2>4, <2>6, StoreLoads DEF Load, LeadsTo
  <2>8. \A r \in Record : LeadsIn(Logs, entry'[r], left[r])
    BY <2>4, <2>7 DEF LeadsTo
  <2>9. Contents(entry') = left
    <3> PICK at : at = entry'
      OBVIOUS
    <3>1. Contents(at) = left
      BY <1>2, <1>4, <2>7, <2>8, ContentsAre
    <3> QED  BY <3>1
  <2> QED  BY <1>1, <1>3, <1>4, <1>5, <2>1, <2>2, <2>5, <2>9
<1> QED  BY <1>6, <1>7

LEMMA OpenKeeps ==
  ASSUME Recovery, Open
  PROVE  Recovery'
<1>1. /\ step = "down" /\ ~Up /\ offered' = {}
      /\ UNCHANGED <<auxbuf, detaching, past, era>>
  BY DEF Open, Up
<1>2. Shape /\ TypeOK /\ Durable /\ Hints /\ Shape' /\ TypeOK' /\ detaching = {}
  BY <1>1, OpenShape DEF Recovery, Shape, Durable, Opened
<1>3. PICK left \in {stable} \cup offered :
        /\ Best(left) /\ left \in Snapshot /\ view' = left /\ stable' = left
        /\ \/ NoneAcked(left) /\ Create
           \/ \E b \in Volume : \E i \in Acked(b) :
                BestAt(left, b, i) /\ FoundOn(b) = <<b, i>> /\ Reload(b)
  BY OpenFinds
<1>4. CASE NoneAcked(left) /\ Create
  <2>1. view' = [r \in Record |-> Absent]
    BY <1>3, <1>4 DEF Snapshot, NoneAcked
  <2>2. NewStore'
    BY <1>1, <1>2, <1>3, <1>4, <2>1 DEF Create, NewStore, Fresh
  <2> QED  BY <1>2, <2>2, NewStoreNext
<1>5. ASSUME NEW b \in Volume, NEW i \in Acked(b), BestAt(left, b, i), FoundOn(b) = <<b, i>>,
             Reload(b)
      PROVE  Recovery'
  <2> DEFINE c == file[b][i].cr
  <2>1. /\ CommitAt(<<b, i>>) = c /\ c \in CommitRecordType /\ c.gen \in Nat
        /\ i \in Commits(file[b])
    BY <1>2, CommitFacts, CommitParts DEF Acked
  <2>2. LeadsTo(Logs, c, left)
    BY <1>5 DEF BestAt, Survives
  <2>3. c.self = <<b, i>>
    BY <1>2, <2>1 DEF Durable, CommitsWell, CommitWell
  <2> HIDE DEF c
  <2>4. /\ Load(c) /\ cr' = c /\ tip' = b /\ step' = "idle" /\ Up'
        /\ attached' = {w \in Volume : file[w] # <<>>}
        /\ UNCHANGED <<file, hint, synced, safeHint, outbuf, auxEnd, inherited>>
    BY <1>5, <2>1 DEF Reload, disk, Load, Up
  <2>21. Firm' = Firm
    BY <2>4 DEF Firm
  <2>5. /\ outbuf = <<>> /\ \A v \in Volume : auxbuf[v] = <<>>
    BY <1>1, <1>2 DEF Shape, Buffers
  <2>6. ASSUME NEW v \in Volume
        PROVE  Logs'[v] = Logs[v] /\ Logs[v] \in Seq(RecordType) /\ Len(Logs[v]) = Len(file[v])
               /\ Len(file[v]) \in Nat
    <3>1. Pending(v) = <<>> /\ Pending(v)' = <<>>
      BY <1>1, <2>4, <2>5 DEF Pending
    <3>2. Len(<<>>) = 0
      BY EmptySeq
    <3>3. Len(Logs[v]) = Len(file[v]) + Len(Pending(v)) /\ Len(file[v]) \in Nat
          /\ Logs[v] \in Seq(RecordType)
      BY <1>2, LogFacts
    <3> QED  BY <2>4, <3>1, <3>2, <3>3 DEF Logs
  <2>7. Extends
    BY <2>6, BeginsItself DEF Extends
  <2>8. InUse' = attached' /\ era \in Nat
    BY <1>1, <1>2 DEF InUse, TypeOK
  <2>9. ASSUME NEW at \in Locator, Has(Logs, at)
        PROVE  /\ at[1] \in attached'
               /\ SameAt(Logs, Logs', at) /\ (Safe(at) => Safe(at)')
    <3>1. at[1] \in Volume
      BY Locators
    <3>2. Len(file[at[1]]) # 0
      BY <2>6, <2>9, <3>1 DEF Has
    <3>3. file[at[1]] # <<>>
      BY <3>2, EmptySeq
    <3> QED  BY <2>4, <2>6, <2>9, <2>21, <3>1, <3>3 DEF SameAt, Has, Rec, Safe
  <2>10. b \in attached'
    <3>1. file[b] \in Seq(RecordType)
      BY <1>2 DEF TypeOK
    <3>2. file[b] # <<>>
      BY <2>1, <3>1, EmptyCommits
    <3> QED  BY <2>4, <3>2
  <2>11. IsCommit(file'[b], i)
    BY <2>1, <2>4 DEF IsCommit, Commits
  <2>12. \A at \in RefsOf(Logs, c) : at[1] \in InUse'
    <3>1. Survives(b, i)
      BY <1>5 DEF BestAt
    <3> QED  BY <1>2, <2>1, <2>8, <2>9, <3>1, SurvivesRefs DEF c
  <2>13. InMemory' /\ Placed'
    <3>1. c.self[1] = b /\ c.self[2] = i
      BY <2>3
    <3> QED  BY <1>2, <1>3, <2>1, <2>2, <2>4, <2>7, <2>8, <2>10, <2>11, <2>12, <3>1, LoadKeeps
  <2>14. \A v \in Volume : Acked(v) = Commits(file[v]) /\ Acked(v)' = Commits(file[v])
    BY <1>1, <2>4 DEF Acked, Newest
  <2>15. CommitsWell'
    <3>1. ASSUME NEW v \in Volume, NEW j \in Commits(file[v])  PROVE CommitWell(v, j)'
      <4>1. CommitWell(v, j)
        BY <1>2 DEF Durable, CommitsWell
      <4>2. v # b => file[v][j].cr.gen <= cr'.gen
        <5>1. file[v][j].cr.gen \in Nat
          BY <1>2, CommitFacts, CommitParts
        <5>2. v # b => file[v][j].cr.gen < file[b][i].cr.gen
          BY <1>5, <2>14 DEF BestAt
        <5> QED  BY <2>1, <2>4, <5>1, <5>2 DEF c
      <4>3. Survives(v, j) => \A at \in RefsOf(Logs, file[v][j].cr) :
              /\ SameAt(Logs, Logs', at) /\ (Safe(at) => Safe(at)')
              /\ at[1] \in InUse'
        BY <1>2, <2>8, <2>9, SurvivesRefs
      <4>4. ~Newest(v, j)
        BY <1>1 DEF Newest
      <4>5. past \subseteq past' /\ era <= era'
        BY <1>1, <2>8
      <4> QED  BY <1>2, <2>4, <2>21, <4>1, <4>2, <4>3, <4>4, <4>5, CommitStays
    <3> QED  BY <2>4, <3>1 DEF CommitsWell
  <2>16. Recovers'
    <3>1. ASSUME NEW d \in Volume, NEW j \in Acked(d), BestAt(left, d, j)
          PROVE  /\ d \in attached'
                 /\ \A at \in RefsOf(Logs, file[d][j].cr) :
                      /\ SameAt(Logs, Logs', at) /\ (Safe(at) => Safe(at)')
                      /\ at[1] \in attached'
      <4>1. Survives(d, j) /\ j \in Commits(file[d])
        BY <2>14, <3>1 DEF BestAt
      <4>2. file[d] \in Seq(RecordType)
        BY <1>2 DEF TypeOK
      <4>3. d \in attached'
        BY <2>4, <4>1, <4>2, EmptyCommits
      <4> QED  BY <1>2, <2>9, <4>1, <4>3, SurvivesRefs
    <3>2. Best(left)'
      BY <1>3, <2>4, <2>14, <3>1, BestStays
    <3>3. Best(stable)'
      BY <1>3, <3>2 DEF Best, NoneAcked, BestAt
    <3> QED  BY <3>3 DEF Recovers
  <2>17. Offering'
    BY <1>1, <2>4 DEF Offering
  <2>18. Behind'
    BY <1>1, <1>2, <2>4, <2>21 DEF Durable, Behind
  <2>19. Hints'
    BY <1>2, <2>4, <2>21 DEF Hints, HeaderPointsBack
  <2>20. Durable'
    BY <2>15, <2>16, <2>17, <2>18, <2>19 DEF Durable
  <2> QED  BY <1>2, <2>13, <2>20 DEF Recovery
<1> QED  BY <1>3, <1>4, <1>5

LEMMA StutterKeeps ==
  ASSUME Recovery, UNCHANGED vars
  PROVE  Recovery'
<1>1. /\ UNCHANGED <<file, hint, synced, safeHint, attached, tip, outbuf, auxbuf, entry, lineAt>>
      /\ UNCHANGED <<known, cr, step, detaching, stable, offered, past, view, era, auxEnd,
                     inherited>>
  BY DEF vars, disk, index, history, promises
<1>2. Shape'
  BY ShapeKept DEF Recovery
<1>3. Logs' = Logs /\ InUse' = InUse /\ Firm' = Firm /\ (Up' <=> Up)
  BY <1>1 DEF Logs, Pending, InUse, Up, Firm
<1>4. (InMemory <=> InMemory') /\ (Placed <=> Placed')
  BY <1>1, <1>3 DEF InMemory, Placed
<1>5. CommitsWell => CommitsWell'
  BY <1>1, <1>3 DEF CommitsWell, CommitWell, Newest, Survives, Safe
<1>6. (Offering <=> Offering') /\ (Behind <=> Behind')
  BY <1>1, <1>3 DEF Offering, Behind, Commit
<1>7. Recovers => Recovers'
  <2>1. \A v \in Volume : Acked(v)' = Acked(v)
    BY <1>1 DEF Acked, Newest
  <2>2. \A left : NoneAcked(left) => NoneAcked(left)'
    BY <2>1 DEF NoneAcked
  <2>3. \A left : \A b \in Volume : \A i : BestAt(left, b, i) => BestAt(left, b, i)'
    BY <1>1, <1>3, <2>1 DEF BestAt, Survives, Safe
  <2>4. \A left : Best(left) => Best(left)'
    BY <2>1, <2>2, <2>3 DEF Best
  <2>5. Best(stable) => Best(stable)'
    <3> PICK left : left = stable
      OBVIOUS
    <3>1. Best(stable) => Best(left)'
      BY <2>4
    <3> QED  BY <1>1, <3>1 DEF Best, NoneAcked, BestAt
  <2> QED  BY <1>1, <1>3, <2>4, <2>5 DEF Recovers
<1>8. Hints => Hints'
  BY <1>1, <1>3 DEF Hints, HeaderPointsBack
<1> QED  BY <1>2, <1>3, <1>4, <1>5, <1>6, <1>7, <1>8 DEF Recovery, Durable

\* Every step of a disciplined client, of the store, and every crash keeps the invariant.
LEMMA RecoveryKept ==
  ASSUME Disciplined, Recovery, [Next]_vars
  PROVE  Recovery'
<1>1. CASE UNCHANGED vars
  BY <1>1, StutterKeeps
<1>2. CASE RecordStep
  <2> PICK r \in Record : \/ \E val \in Value : Write(r, val)
                          \/ Delete(r)
                          \/ \E v \in Volume : MoveAside(r, v)
                          \/ MoveToTip(r)
    BY <1>2 DEF RecordStep
  <2>1. ASSUME NEW val \in Value, Write(r, val)  PROVE Recovery'
    BY <2>1, WriteKeeps
  <2>2. CASE Delete(r)
    BY <2>2, DeleteKeeps
  <2>3. ASSUME NEW v \in Volume, MoveAside(r, v)  PROVE Recovery'
    BY <2>3, MoveAsideKeeps
  <2>4. CASE MoveToTip(r)
    BY <2>1, <2>4, MoveToTipWrites DEF Recovery, Shape
  <2> QED  BY <2>1, <2>2, <2>3, <2>4
<1>3. CASE CommitStep
  <2>1. ASSUME NEW flag \in BOOLEAN, BeginCommit(flag)  PROVE Recovery'
    BY <2>1, BeginCommitKeeps
  <2> QED  BY <1>3, <2>1, CommitHeaderKeeps, CommitFlushKeeps, CommitAuxKeeps,
              CommitRecordKeeps, CommitSyncKeeps DEF CommitStep
<1>4. CASE VolumeStep
  <2>1. ASSUME NEW v \in Volume, SetTip(v)  PROVE Recovery'
    BY <2>1, SetTipKeeps
  <2>2. ASSUME NEW v \in Volume, Detach(v)  PROVE Recovery'
    BY <2>2, DetachKeeps
  <2>3. ASSUME NEW v \in Volume, Unlink(v)  PROVE Recovery'
    BY <2>3, UnlinkKeeps
  <2>4. ASSUME NEW v \in Volume, Attach(v)  PROVE Recovery'
    BY <2>4, AttachKeeps
  <2>5. ASSUME NEW at, Rewind(at)  PROVE Recovery'
    BY <2>5, RewindKeeps
  <2> QED  BY <1>4, <2>1, <2>2, <2>3, <2>4, <2>5 DEF VolumeStep
<1>5. CASE CrashStep
  <2>1. CASE ProcessDies \/ PowerFails
    <3>1. PICK kept \in [Volume -> Nat], h \in [Volume -> Locator] :
            /\ GoDown(kept, h)
            /\ synced' \in [Volume -> Nat] /\ safeHint' \in [Volume -> Locator]
            /\ \A v \in Volume : /\ kept[v] <= Len(file[v]) /\ synced[v] <= kept[v]
                                 /\ synced'[v] <= kept[v] /\ h[v] \in {hint[v], safeHint[v]}
                                 /\ safeHint'[v] \in {hint'[v], safeHint[v]}
      BY <2>1, CrashIsGoDown DEF Recovery
    <3> QED  BY <3>1, GoDownKeeps
  <2>2. CASE Open
    BY <2>2, OpenKeeps
  <2> QED  BY <1>5, <2>1, <2>2 DEF CrashStep
<1> QED  BY <1>1, <1>2, <1>3, <1>4, <1>5 DEF Next

LEMMA RecoveryHolds == ASSUME Disciplined PROVE Spec => []Recovery
<1>1. Init => Recovery
  <2> SUFFICES ASSUME Init  PROVE Recovery
    OBVIOUS
  <2>1. NewStore
    BY DEF Init, NewStore
  <2> QED  BY <2>1, InitShape, NewStoreKeeps
<1>2. Recovery /\ [Next]_vars => Recovery'
  BY RecoveryKept
<1> QED  BY <1>1, <1>2, PTL DEF Spec

-----------------------------------------------------------------------------
(* The properties of LogStore                                              *)

LEMMA ReadsHold == Recovery => ReadsSeeWrites
<1> SUFFICES ASSUME Recovery, Up  PROVE Contents(entry) = view
  BY DEF ReadsSeeWrites
<1>1. TypeOK /\ InMemory /\ entry \in [Record -> Locator] /\ view \in Snapshot
  BY DEF Recovery, Shape, TypeOK
<1> QED  BY <1>1, ContentsAre DEF InMemory

LEMMA CommitsHold == Recovery => EveryCommitReadable
<1> SUFFICES ASSUME Recovery, NEW v \in Volume, NEW i \in Commits(file[v]), file[v][i].era = era
             PROVE  /\ Loadable(file[v][i].cr)
                    /\ Contents(LoadEntry(file[v][i].cr)) = file[v][i].left
  BY DEF EveryCommitReadable
<1> DEFINE c == file[v][i].cr
           left == file[v][i].left
<1>1. TypeOK /\ CommitWell(v, i)
  BY DEF Recovery, Shape, Durable, CommitsWell
<1>2. LeadsTo(Logs, c, left)
  BY <1>1 DEF CommitWell, Survives
<1>3. c \in CommitRecordType /\ left \in Snapshot
  BY <1>1, CommitFacts
<1> HIDE DEF c, left
<1>4. Loadable(c) /\ LoadEntry(c) = EntryOf(Logs, c) /\ EntryOf(Logs, c) \in [Record -> Locator]
  BY <1>1, <1>2, <1>3, StoreLoads DEF LeadsTo
<1>5. Contents(EntryOf(Logs, c)) = left
  BY <1>1, <1>2, <1>3, <1>4, ContentsAre DEF LeadsTo
<1> QED  BY <1>4, <1>5 DEF c, left

\* For clients and crashes that keep to Disciplined: a client reads what it wrote, through
\* flushes, moves, commits, detached and unlinked volumes, rewinds, crashes and recoveries;
\* the index in memory (lssi_index_load) leads to the last version of every record.
THEOREM ReadsWhatWasWritten == ASSUME Disciplined PROVE Spec => []ReadsSeeWrites
  BY RecoveryHolds, ReadsHold, PTL

\* For clients and crashes that keep to Disciplined: every commit record of the present
\* era, the last and all older ones, leads through its master index, lines and differences
\* (lssi_load_mindex) to what was committed with it.
THEOREM CommitsStayReadable == ASSUME Disciplined PROVE Spec => []EveryCommitReadable
  BY RecoveryHolds, CommitsHold, PTL

\* A volume header points, within its volume, to nothing but a commit record, which is
\* synced, or which lss_openx found when it opened the file (the question in lssi_commit
\* about the order of its two writes).  Assumed is Disciplined: above all, that no power
\* failure takes away what lss_openx found unsynced, to which it lets a header point.
THEOREM HeadersPointBack == ASSUME Disciplined PROVE Spec => []HeaderPointsBack
<1>1. Recovery => HeaderPointsBack
  BY DEF Recovery, Durable, Hints
<1> QED  BY <1>1, RecoveryHolds, PTL

\* After a crash that Disciplined allows, one that leaves no volume whose header names no
\* commit record before data, lss_openx finds a commit record whose index can be loaded, or
\* makes a new store where nothing was ever committed: unless a header names the commit
\* record of another volume, where lssi_find_last_cr panics (lssv3.c:1439), none of its
\* asserts stops it.
THEOREM OpensUnlessAstray == ASSUME Disciplined PROVE Spec => []OpensAgain
<1>1. Recovery => OpensAgain
  BY CanOpen DEF OpensAgain
<1> QED  BY <1>1, RecoveryHolds, PTL

-----------------------------------------------------------------------------
(* The store implements StableStore                                        *)

\* What Promised is told that clients read.
Current == IF Up THEN Contents(entry) ELSE stable

LEMMA CurrentIs == Recovery => Current = IF Up THEN view ELSE stable
<1> SUFFICES ASSUME Recovery  PROVE Current = IF Up THEN view ELSE stable
  OBVIOUS
<1>1. CASE Up
  <2>1. Contents(entry) = view
    BY <1>1, ReadsHold DEF ReadsSeeWrites
  <2>2. Current = Contents(entry)
    BY <1>1 DEF Current
  <2> QED  BY <1>1, <2>1, <2>2
<1>2. CASE ~Up
  BY <1>2 DEF Current
<1> QED  BY <1>1, <1>2

LEMMA CurrentNext == Recovery' => Current' = IF Up' THEN view' ELSE stable'
<1> DEFINE Right == Current = IF Up THEN view ELSE stable
<1>1. Recovery => Right
  BY CurrentIs
<1> HIDE DEF Right
<1>2. Recovery' => Right'
  BY <1>1, PTL
<1> USE DEF Right
<1> QED  BY <1>2

\* Steps that clients see nothing of.
LEMMA UnseenStep ==
  ASSUME Recovery, Recovery', Up' = Up, UNCHANGED <<view, stable, offered, past>>
  PROVE  UNCHANGED Promised!vars
<1>1. Current' = Current
  BY CurrentIs, CurrentNext
<1> QED  BY <1>1 DEF Promised!vars, Current

LEMMA ChangeStep ==
  ASSUME Recovery, Recovery', step = "idle", step' = "idle",
         NEW r \in Record, NEW val \in Value \cup {Absent}, view' = [view EXCEPT ![r] = val],
         UNCHANGED <<stable, offered, past>>
  PROVE  Promised!Next
<1>1. Up /\ Up' /\ offered = {}
  BY DEF Up, Recovery, Durable, Offering
<1>2. Current' = [Current EXCEPT ![r] = val]
  BY <1>1, CurrentIs, CurrentNext
<1>3. Promised!Change(r, val)
  BY <1>1, <1>2 DEF Promised!Change, Current
<1> QED  BY <1>3 DEF Promised!Next

LEMMA RecordStepPromised ==
  ASSUME Recovery, Recovery', RecordStep
  PROVE  [Promised!Next]_(Promised!vars)
<1> PICK r \in Record : \/ \E val \in Value : Write(r, val)
                        \/ Delete(r)
                        \/ \E v \in Volume : MoveAside(r, v)
                        \/ MoveToTip(r)
  BY DEF RecordStep
<1>1. ASSUME NEW val \in Value, Write(r, val)  PROVE Promised!Next
  <2>1. /\ step = "idle" /\ step' = "idle" /\ view' = [view EXCEPT ![r] = val]
        /\ UNCHANGED <<stable, offered, past>>
    BY <1>1 DEF Write, Idle, promises
  <2> QED  BY <2>1, ChangeStep
<1>2. CASE Delete(r)
  <2>1. /\ step = "idle" /\ step' = "idle" /\ view' = [view EXCEPT ![r] = Absent]
        /\ UNCHANGED <<stable, offered, past>>
    BY <1>2 DEF Delete, Idle, promises
  <2> QED  BY <2>1, ChangeStep
<1>3. ASSUME NEW v \in Volume, MoveAside(r, v)  PROVE UNCHANGED Promised!vars
  <2>1. Up' = Up /\ UNCHANGED <<view, stable, offered, past>>
    BY <1>3 DEF MoveAside, Idle, Up, promises
  <2> QED  BY <2>1, UnseenStep
<1>4. CASE MoveToTip(r)
  BY <1>1, <1>4, MoveToTipWrites DEF Recovery, Shape
<1> QED  BY <1>1, <1>2, <1>3, <1>4

LEMMA CommitStepPromised ==
  ASSUME Recovery, Recovery', CommitStep
  PROVE  [Promised!Next]_(Promised!vars)
<1>1. ASSUME NEW flag \in BOOLEAN, BeginCommit(flag)  PROVE UNCHANGED Promised!vars
  <2>1. Up' = Up /\ UNCHANGED <<view, stable, offered, past>>
    BY <1>1 DEF BeginCommit, WriteIndex, Idle, Up, history, promises
  <2> QED  BY <2>1, UnseenStep
<1>2. CASE CommitHeader \/ CommitFlush \/ CommitAux
  <2>1. Up' = Up /\ UNCHANGED <<view, stable, offered, past>>
    BY <1>2 DEF CommitHeader, CommitFlush, CommitAux, Up, history, promises
  <2> QED  BY <2>1, UnseenStep
<1>3. CASE CommitRecord
  <2>1. Up /\ Up' /\ offered' = {view} /\ past' = past \cup {view}
        /\ UNCHANGED <<view, stable>>
    BY <1>3 DEF CommitRecord, Up
  <2>2. Current = view /\ Current' = view
    BY <2>1, CurrentIs, CurrentNext
  <2>3. Promised!Offer
    BY <2>1, <2>2 DEF Promised!Offer, Current
  <2> QED  BY <2>3 DEF Promised!Next
<1>4. CASE CommitSync
  <2>1. Up /\ Up' /\ offered' = {} /\ stable' = view /\ UNCHANGED <<view, past>>
    BY <1>4 DEF CommitSync, Up
  <2>2. Current = view /\ Current' = view
    BY <2>1, CurrentIs, CurrentNext
  <2>3. Promised!Acknowledge
    BY <2>1, <2>2 DEF Promised!Acknowledge, Current
  <2> QED  BY <2>3 DEF Promised!Next
<1> QED  BY <1>1, <1>2, <1>3, <1>4 DEF CommitStep

LEMMA VolumeStepPromised ==
  ASSUME Recovery, Recovery', VolumeStep
  PROVE  [Promised!Next]_(Promised!vars)
<1>1. ASSUME NEW v \in Volume, SetTip(v) \/ Detach(v) \/ Unlink(v) \/ Attach(v)
      PROVE  UNCHANGED Promised!vars
  <2>1. Up' = Up /\ UNCHANGED <<view, stable, offered, past>>
    BY <1>1 DEF SetTip, Detach, Unlink, Attach, Idle, Up, promises
  <2> QED  BY <2>1, UnseenStep
<1>2. ASSUME NEW at, Rewind(at)  PROVE Promised!Next
  <2>1. /\ step = "idle" /\ Up /\ Up' /\ IsAt(at, "COMM") /\ at[1] \in attached
        /\ view' = RecordAt(at).left /\ UNCHANGED <<stable, offered, past>>
    BY <1>2 DEF Rewind, Idle, Up, promises
  <2>2. Shape /\ Durable /\ at[1] \in Volume /\ offered = {}
    BY <2>1 DEF Recovery, Shape, TypeOK, Durable, Offering
  <2>3. at[2] \in Commits(file[at[1]]) /\ RecordAt(at) = file[at[1]][at[2]]
    BY <2>1, <2>2, CommitInFile
  <2>4. view' \in past
    BY <2>1, <2>2, <2>3 DEF Durable, CommitsWell, CommitWell
  <2>5. PICK left \in past : view' = left
    BY <2>4
  <2>6. Current' = left
    BY <2>1, <2>5, CurrentNext
  <2>7. Promised!Return(left)
    BY <2>1, <2>2, <2>6 DEF Promised!Return, Current
  <2> QED  BY <2>7 DEF Promised!Next
<1> QED  BY <1>1, <1>2 DEF VolumeStep

LEMMA CrashStepPromised ==
  ASSUME Recovery, Recovery', CrashStep
  PROVE  Promised!Next
<1>1. CASE ProcessDies \/ PowerFails
  <2>1. PICK kept, h : GoDown(kept, h)
    BY <1>1 DEF ProcessDies, PowerFails
  <2>2. ~Up' /\ UNCHANGED <<stable, offered, past>>
    BY <2>1 DEF GoDown, Up, promises
  <2>3. Up' = FALSE
    BY <2>2 DEF Up
  <2>4. Current' = stable
    BY <2>2, CurrentNext
  <2>5. Promised!Crash
    BY <2>2, <2>3, <2>4 DEF Promised!Crash, Current
  <2> QED  BY <2>5 DEF Promised!Next
<1>2. CASE Open
  <2>1. PICK left \in {stable} \cup offered : view' = left /\ stable' = left
    BY <1>2, OpenFinds
  <2>2. ~Up /\ Up' /\ offered' = {} /\ past' = past
    BY <1>2 DEF Open, Create, Reload, Up
  <2>3. Current' = left
    BY <2>1, <2>2, CurrentNext
  <2>4. Promised!Recover(left)
    BY <2>1, <2>2, <2>3 DEF Promised!Recover, Current
  <2> QED  BY <2>1, <2>4 DEF Promised!Next
<1> QED  BY <1>1, <1>2 DEF CrashStep

\* The store implements StableStore: commits are atomic and survive the crashes that
\* Disciplined allows (lssi_commit, lss_openx), and going back leads to what some commit has
\* left (lssi_rewind_to_gen).  Not among them: a crash that leaves a volume whose header
\* names no commit record before data, and a power failure that takes away records moved to
\* a volume not synced since, or what an earlier recovery had taken up unsynced.
THEOREM CommitsSurviveCrashes == ASSUME Disciplined PROVE Spec => CommitsSurvive
<1>1. Init => Promised!Init
  <2> SUFFICES ASSUME Init  PROVE Promised!Init
    OBVIOUS
  <2>1. Contents(entry) = [r \in Record |-> Absent]
    BY DEF Init, Contents
  <2>2. Up = TRUE
    BY DEF Init, Up
  <2> QED  BY <2>1, <2>2 DEF Init, Promised!Init
<1>2. Recovery /\ Recovery' /\ [Next]_vars => [Promised!Next]_(Promised!vars)
  <2> SUFFICES ASSUME Recovery, Recovery', [Next]_vars  PROVE [Promised!Next]_(Promised!vars)
    OBVIOUS
  <2>1. CASE UNCHANGED vars
    <3>1. Up' = Up /\ UNCHANGED <<view, stable, offered, past>>
      BY <2>1 DEF vars, history, promises, Up
    <3> QED  BY <3>1, UnseenStep
  <2> QED  BY <2>1, RecordStepPromised, CommitStepPromised, VolumeStepPromised,
              CrashStepPromised DEF Next
<1> QED  BY <1>1, <1>2, RecoveryHolds, PTL DEF Spec, CommitsSurvive, Promised!Spec

=============================================================================
