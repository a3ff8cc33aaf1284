------------------------------ MODULE LogStore ------------------------------
(***************************************************************************)
(* The log structured store (packages/lss/lssv3.c), as opened by           *)
(* lss_openx: records in volumes that only grow, an index in memory, and   *)
(* commit records from which a later process finds everything again.       *)
(*                                                                         *)
(* A volume is the sequence of the records written to its file; a locator  *)
(* is a volume and a position.  Sizes, gaps, compression and the lazy      *)
(* loading of index lines are left out.  One action is one call, except    *)
(* that a commit is cut where a crash makes a difference: before each      *)
(* write to a file.  A crash keeps what was written, or, when the power    *)
(* fails, what was synced and any part of the later writes, in order.      *)
(***************************************************************************)
EXTENDS Integers, Sequences, FiniteSets

CONSTANTS
  NumVols,            \* volumes are numbered from 0
  Record, Value,      \* record numbers, and contents of records
  Absent,             \* what is read where there is no record
  Line, LineOf,       \* index lines, and the line a record number is in
  NoDiff,             \* a record that is not in the list of differences
  MaxDiffs,           \* MAX_DIFFS
  OutBufSize,         \* records that the output buffers hold
  VolumeHeaderFuel, CommitFuelCost, BlockFuelCost,
  MaxOps, MaxGenerations, MaxCrashes,  \* bounds of the model
  Client,             \* the operations that clients call
  Risks               \* what clients and crashes may do, see Sighted etc.

Volume == 0 .. (NumVols - 1)
Nowhere == <<0, 0>>
Locator == Volume \X Nat

ASSUME LogStoreAssumption ==
  /\ NumVols \in Nat \ {0}
  /\ Absent \notin Value
  /\ NoDiff \notin Locator
  /\ IsFiniteSet(Record) /\ IsFiniteSet(Line)
  /\ LineOf \in [Record -> Line]
  /\ MaxDiffs \in Nat /\ OutBufSize \in Nat \ {0}
  /\ VolumeHeaderFuel \in Nat /\ CommitFuelCost \in Nat /\ BlockFuelCost \in Nat
  /\ MaxOps \in Nat /\ MaxGenerations \in Nat /\ MaxCrashes \in Nat

VARIABLES
  file,      \* file[v]: the records of a volume, its header first
  hint,      \* last_cr_at in the header of a volume
  synced,    \* how much of a file is safe from a power failure
  safeHint,  \* the hint that is
  attached,  \* volumes with an open file
  tip,       \* the volume that is written to
  outbuf,    \* records for the tip that are not yet in its file
  auxbuf,    \* auxbuf[v]: the same for records that are moved to other volumes
  entry,     \* entry[r]: where the record is, in memory
  lineAt,    \* lineAt[l]: where the index line is; Nowhere: it is dirty
  known,     \* lines in the master index
  cr,        \* the commit record in memory
  step,      \* the next step of a commit, or "idle", "down"
  detaching, \* the volumes that are closed when the commit is done
  bookmark,  \* the flag of the commit
  stable,    \* history: what the last acknowledged commit promised
  offered,   \* history: what a commit that is not acknowledged may leave
  past,      \* history: what all commits have left
  view,      \* history: what clients have written, committed or not
  era,       \* history: how often a volume was detached
  auxEnd,    \* history: how much of a file was written through auxbuf
  inherited, \* history: how much of a file there was when it was last opened
  ops,       \* how many operations clients have begun, commits excepted
  crashes

disk == <<file, hint, synced, safeHint>>
index == <<entry, lineAt, known>>
promises == <<stable, offered, past>>
history == <<promises, view, era, auxEnd, inherited>>
vars == <<disk, attached, tip, outbuf, auxbuf, index, cr, step, detaching,
          bookmark, history, ops, crashes>>

-----------------------------------------------------------------------------
(* Records in volumes *)

Header == [kind |-> "LSS"]
Segment == [kind |-> "DSEG"]
Data(r, val) == [kind |-> "DATA", rec |-> r, val |-> val]
IndexLine(l) == [kind |-> "INDX", line |-> l, entry |-> entry]
MasterIndex(at, lines) == [kind |-> "MIDX", lineAt |-> at, lines |-> lines]
Commit(c, left) == [kind |-> "COMM", cr |-> c, left |-> left, era |-> era]

NoDiffs == [r \in Record |-> NoDiff]
FirstCommitRecord ==
  [gen |-> 0, prev |-> Nowhere, self |-> Nowhere, mark |-> Nowhere,
   mix |-> Nowhere, diffs |-> NoDiffs, fuel |-> VolumeHeaderFuel]

IsCommit(f, i) == i \in DOMAIN f /\ f[i].kind = "COMM"
Commits(f) == {i \in DOMAIN f : f[i].kind = "COMM"}
Latest(S) == CHOOSE i \in S : \A j \in S : j <= i

\* lssi_flush_obufsv: a buffer becomes a data segment, an empty one nothing
Flushed(f, buf) == IF buf = <<>> THEN f ELSE f \o buf \o <<Segment>>

Pending(v) == IF v = tip THEN outbuf ELSE auxbuf[v]

\* Mutated: one record more is put in.
Full_late(buf) == Len(buf) > OutBufSize

\* There is no place for another record (lssi_write_alloc, lssi_write_alloc_aux).
Full(buf) == Len(buf) >= OutBufSize

\* The record at a locator, in a file or in a buffer.
InStore(at) == at[2] \in 1 .. (Len(file[at[1]]) + Len(Pending(at[1])))
RecordAt(at) == (file[at[1]] \o Pending(at[1]))[at[2]]
IsAt(at, kind) == InStore(at) /\ RecordAt(at).kind = kind

\* What a client reads.
Contents(at) ==
  [r \in Record |->
     IF at[r] = Nowhere THEN Absent
     ELSE IF IsAt(at[r], "DATA") THEN RecordAt(at[r]).val ELSE "garbage"]

-----------------------------------------------------------------------------
(* The index and the list of differences *)

RollIn(c) == [c EXCEPT !.mix = Nowhere, !.diffs = NoDiffs]

\* The part of lssi_index_store that touches the commit record.
NewLine(c, r, at) ==
  IF LineOf[r] \notin known /\ at # Nowhere THEN RollIn(c) ELSE c

DiffsFull(c) == Cardinality({r \in Record : c.diffs[r] # NoDiff}) >= MaxDiffs

\* Mutated: a full list is left as it is, without the new difference.
DiffStore_dropped(c, r, at) ==
  IF c.mix = Nowhere \/ DiffsFull(c) THEN c ELSE [c EXCEPT !.diffs[r] = at]

DiffStore(c, r, at) ==
  IF c.mix = Nowhere THEN c
  ELSE IF DiffsFull(c) THEN RollIn(c)
  ELSE [c EXCEPT !.diffs[r] = at]

\* lssi_index_store and lssi_diff_store, which are always called together
Store(r, at, fuel) ==
  /\ entry' = [entry EXCEPT ![r] = at]
  /\ lineAt' = [lineAt EXCEPT ![LineOf[r]] = Nowhere]
  /\ known' = IF at = Nowhere THEN known ELSE known \cup {LineOf[r]}
  /\ cr' = [DiffStore(NewLine(cr, r, at), r, at) EXCEPT !.fuel = @ - fuel]

\* lssi_load_mindex: the index lines, and then the differences
LoadLineAt(c) == RecordAt(c.mix).lineAt
LoadLines(c) == RecordAt(c.mix).lines

\* Mutated: the differences are forgotten.
LoadEntry_linesOnly(c) ==
  [r \in Record |->
     IF LineOf[r] \notin LoadLines(c) THEN Nowhere
     ELSE RecordAt(LoadLineAt(c)[LineOf[r]]).entry[r]]

LoadEntry(c) ==
  [r \in Record |->
     IF LineOf[r] \notin LoadLines(c) THEN Nowhere
     ELSE IF c.diffs[r] # NoDiff THEN c.diffs[r]
     ELSE RecordAt(LoadLineAt(c)[LineOf[r]]).entry[r]]

Loadable(c) ==
  /\ IsAt(c.mix, "MIDX")
  /\ \A l \in LoadLines(c) :
       IsAt(LoadLineAt(c)[l], "INDX") /\ RecordAt(LoadLineAt(c)[l]).line = l

Load(c) ==
  /\ cr' = c
  /\ known' = LoadLines(c)
  /\ lineAt' = [l \in Line |->
       IF l \in LoadLines(c)
          /\ \A r \in Record : LineOf[r] = l => c.diffs[r] = NoDiff
       THEN LoadLineAt(c)[l] ELSE Nowhere]
  /\ entry' = LoadEntry(c)

-----------------------------------------------------------------------------
(* Clients read and write *)

Idle == step = "idle"

\* lssi_writev: full buffers are flushed before the record is put in
Write(r, val) ==
  /\ Idle /\ ops < MaxOps
  /\ LET full == Full(outbuf)
         log == IF full THEN Flushed(file[tip], outbuf) ELSE file[tip]
         buf == IF full THEN <<>> ELSE outbuf
     IN /\ file' = [file EXCEPT ![tip] = log]
        /\ outbuf' = Append(buf, Data(r, val))
        /\ Store(r, <<tip, Len(log) + Len(buf) + 1>>, BlockFuelCost)
  /\ view' = [view EXCEPT ![r] = val]
  /\ ops' = ops + 1
  /\ UNCHANGED <<hint, synced, safeHint, attached, tip, auxbuf, step, detaching,
                 bookmark, promises, era, auxEnd, inherited, crashes>>

\* lssi_delete
Delete(r) ==
  /\ Idle /\ ops < MaxOps
  /\ Store(r, Nowhere, 0)
  /\ view' = [view EXCEPT ![r] = Absent]
  /\ ops' = ops + 1
  /\ UNCHANGED <<disk, attached, tip, outbuf, auxbuf, step, detaching, bookmark,
                 promises, era, auxEnd, inherited, crashes>>

\* lss_move_record to a volume that is not the tip: through its auxbuf.  To the
\* tip, it writes the record again as lssi_writev does.
MoveAside(r, v) ==
  /\ Idle /\ ops < MaxOps /\ "move" \in Client
  /\ v \in attached \ {tip}
  /\ entry[r] # Nowhere /\ entry[r][1] # v /\ IsAt(entry[r], "DATA")
  /\ LET full == Full(auxbuf[v])
         log == IF full THEN Flushed(file[v], auxbuf[v]) ELSE file[v]
         buf == IF full THEN <<>> ELSE auxbuf[v]
     IN /\ file' = [file EXCEPT ![v] = log]
        /\ auxbuf' = [auxbuf EXCEPT ![v] = Append(buf, RecordAt(entry[r]))]
        /\ auxEnd' = [auxEnd EXCEPT ![v] = IF full THEN Len(log) ELSE @]
        /\ Store(r, <<v, Len(log) + Len(buf) + 1>>, BlockFuelCost)
  /\ ops' = ops + 1
  /\ UNCHANGED <<hint, synced, safeHint, attached, tip, outbuf, step, detaching,
                 bookmark, promises, view, era, inherited, crashes>>

MoveToTip(r) ==
  /\ "move" \in Client
  /\ entry[r] # Nowhere /\ entry[r][1] # tip
  /\ IsAt(entry[r], "DATA") /\ Write(r, RecordAt(entry[r]).val)

-----------------------------------------------------------------------------
(* The tip *)

\* The client does not make commits of lower generations than another volume has:
\* they would be lost when the store is opened again.
NoneLater(v, gen) ==
  \/ "backlevel" \in Risks
  \/ \A w \in Volume \ {v} : \A i \in Commits(file[w]) : file[w][i].cr.gen <= gen

\* set_tip: what is pending goes to its file, and the old tip is synced.  A
\* buffer without records is taken for no buffer.
SwitchTip(v) ==
  /\ tip' = v
  /\ IF v = tip THEN UNCHANGED <<file, synced, safeHint, auxbuf, auxEnd>>
     ELSE LET spill(w) == v # tip /\ auxbuf[v] # <<>> /\ w # tip
              log(w) == IF w = tip THEN Flushed(file[w], outbuf)
                        ELSE IF spill(w) THEN Flushed(file[w], auxbuf[w])
                        ELSE file[w]
          IN /\ file' = [w \in Volume |-> log(w)]
             /\ synced' = [synced EXCEPT ![tip] = Len(log(tip))]
             /\ safeHint' = [safeHint EXCEPT ![tip] = hint[tip]]
             /\ auxbuf' = [w \in Volume |-> IF spill(w) THEN <<>> ELSE auxbuf[w]]
             /\ auxEnd' = [w \in Volume |->
                  IF spill(w) /\ auxbuf[w] # <<>> THEN Len(log(w)) ELSE auxEnd[w]]

SetTip(v) ==
  /\ Idle /\ ops < MaxOps /\ "set tip" \in Client
  /\ v \in attached \ {tip} /\ NoneLater(v, cr.gen)
  /\ SwitchTip(v)
  /\ outbuf' = <<>>
  /\ ops' = ops + 1
  /\ UNCHANGED <<hint, attached, index, cr, step, detaching, bookmark, promises,
                 view, era, inherited, crashes>>

-----------------------------------------------------------------------------
(* lssi_commit, cut before each write to a file *)

Dirty == {l \in known : lineAt[l] = Nowhere}

\* The index goes to the output buffer if the differences do not tell it all.
WriteIndex(flag) ==
  LET n == Cardinality(Dirty)
      order == CHOOSE o \in [1 .. n -> Dirty] : \A i, j \in 1 .. n : o[i] = o[j] => i = j
      top == Len(file[tip]) + Len(outbuf)
      at == [l \in Line |-> IF l \in Dirty
                            THEN <<tip, top + (CHOOSE i \in 1 .. n : order[i] = l)>>
                            ELSE lineAt[l]]
      new == IF cr.mix # Nowhere THEN outbuf
             ELSE outbuf \o [i \in 1 .. n |-> IndexLine(order[i])]
                         \o <<MasterIndex(at, known)>>
      flush == file[tip] = <<>>   \* the header must be in the file to be updated
  IN /\ lineAt' = IF cr.mix = Nowhere THEN at ELSE lineAt
     /\ cr' = IF cr.mix # Nowhere THEN [cr EXCEPT !.fuel = @ - CommitFuelCost]
              ELSE [cr EXCEPT !.fuel = @ - CommitFuelCost, !.diffs = NoDiffs,
                              !.mix = <<tip, top + n + 1>>]
     /\ file' = IF flush THEN [file EXCEPT ![tip] = Flushed(@, new)] ELSE file
     /\ outbuf' = IF flush THEN <<>> ELSE new
     /\ bookmark' = flag
     /\ step' = "header"

BeginCommit(flag) ==
  /\ Idle \/ (step = "detach" /\ flag = FALSE)
  /\ flag => "bookmark" \in Client
  /\ cr.gen < MaxGenerations
  /\ WriteIndex(flag)
  /\ UNCHANGED <<hint, synced, safeHint, attached, tip, auxbuf, entry, known,
                 detaching, history, ops, crashes>>

\* Mutated: the header points to the commit record that is about to be written.
LastCommitRecord_next == <<tip, Len(Flushed(file[tip], outbuf)) + 1>>

\* what lssi_update_one_volume_header writes to last_cr_at
LastCommitRecord == cr.self

\* lssi_update_volume_headers: in place, and only the header of the tip
CommitHeader ==
  /\ step = "header" /\ step' = "flush"
  /\ IF cr.fuel <= 0
     THEN /\ hint' = [hint EXCEPT ![tip] = LastCommitRecord]
          /\ cr' = [cr EXCEPT !.fuel = VolumeHeaderFuel]
     ELSE UNCHANGED <<hint, cr>>
  /\ UNCHANGED <<file, synced, safeHint, attached, tip, outbuf, auxbuf, index,
                 detaching, bookmark, history, ops, crashes>>

CommitFlush ==
  /\ step = "flush" /\ step' = "aux"
  /\ file' = [file EXCEPT ![tip] = Flushed(@, outbuf)]
  /\ outbuf' = <<>>
  /\ UNCHANGED <<hint, synced, safeHint, attached, tip, auxbuf, index, cr,
                 detaching, bookmark, history, ops, crashes>>

\* lssi_flush_auxbufs
CommitAux ==
  /\ step = "aux" /\ step' = "record"
  /\ file' = [v \in Volume |-> Flushed(file[v], auxbuf[v])]
  /\ auxbuf' = [v \in Volume |-> <<>>]
  /\ auxEnd' = [v \in Volume |->
       IF auxbuf[v] = <<>> THEN auxEnd[v] ELSE Len(Flushed(file[v], auxbuf[v]))]
  /\ UNCHANGED <<hint, synced, safeHint, attached, tip, outbuf, index, cr,
                 detaching, bookmark, promises, view, era, ops, inherited, crashes>>

\* lssi_write_cr up to the write: sync, then append one block
CommitRecord ==
  /\ step = "record" /\ step' = "sync"
  /\ LET self == <<tip, Len(file[tip]) + 1>>
     IN cr' = [cr EXCEPT !.prev = cr.self, !.self = self, !.gen = @ + 1,
                         !.mark = IF bookmark THEN self ELSE @]
  /\ file' = [file EXCEPT ![tip] = Append(@, Commit(cr', view))]
  /\ synced' = [synced EXCEPT ![tip] = Len(file[tip])]
  /\ safeHint' = [safeHint EXCEPT ![tip] = hint[tip]]
  /\ offered' = {view}
  /\ past' = past \cup {view}
  /\ UNCHANGED <<hint, attached, tip, outbuf, auxbuf, index, detaching, bookmark,
                 stable, view, era, auxEnd, ops, inherited, crashes>>

\* ... and from there to the return to the client
CommitSync ==
  /\ step = "sync" /\ step' = "idle"
  /\ synced' = [synced EXCEPT ![tip] = Len(file[tip])]
  /\ safeHint' = [safeHint EXCEPT ![tip] = hint[tip]]
  /\ stable' = view /\ offered' = {}
  /\ attached' = attached \ detaching
  /\ detaching' = {}
  /\ UNCHANGED <<file, hint, tip, outbuf, auxbuf, index, cr, bookmark, past, view,
                 era, auxEnd, ops, inherited, crashes>>

-----------------------------------------------------------------------------
(* Volumes are detached, unlinked and attached again by the compaction      *)
(* (packages/rstore/gc.scm, compact-lss-wipe)                               *)

\* lss_detach_vol up to its commit.  What it asserts, and the places where it
\* would panic, are the client's part; one that uses bookmarks has just made one.
Detach(v) ==
  /\ Idle /\ "detach" \in Client /\ cr.gen < MaxGenerations
  /\ v \in attached \ {tip}
  /\ \A r \in Record : entry[r] = Nowhere \/ entry[r][1] # v
  /\ cr.self # Nowhere /\ cr.self[1] # v
  /\ "bookmark" \in Client =>
       cr.mark = cr.self /\ entry = LoadEntry(RecordAt(cr.self).cr)
  /\ cr.mark = Nowhere \/ cr.mark[1] # v
  /\ file[tip] # <<>>
  /\ lineAt' = [l \in Line |-> IF lineAt[l][1] = v THEN Nowhere ELSE lineAt[l]]
  /\ cr' = [cr EXCEPT !.mix = Nowhere, !.fuel = 0]
  /\ hint' = [hint EXCEPT ![tip] = LastCommitRecord]
  /\ step' = "detach"
  /\ detaching' = {v}
  /\ era' = era + 1
  /\ UNCHANGED <<file, synced, safeHint, attached, tip, outbuf, auxbuf, entry,
                 known, bookmark, promises, view, auxEnd, ops, inherited, crashes>>

\* The client unlinks the file of a detached volume.
Unlink(v) ==
  /\ Idle /\ v \notin attached /\ file[v] # <<>>
  /\ file' = [file EXCEPT ![v] = <<>>]
  /\ hint' = [hint EXCEPT ![v] = Nowhere]
  /\ synced' = [synced EXCEPT ![v] = 0]
  /\ safeHint' = [safeHint EXCEPT ![v] = Nowhere]
  /\ auxEnd' = [auxEnd EXCEPT ![v] = 0]
  /\ inherited' = [inherited EXCEPT ![v] = 0]
  /\ UNCHANGED <<attached, tip, outbuf, auxbuf, index, cr, step, detaching,
                 bookmark, promises, view, era, ops, crashes>>

\* lss_attach_vol: the new volume becomes the tip
Attach(v) ==
  /\ Idle /\ v \notin attached /\ file[v] = <<>> /\ NoneLater(v, cr.gen)
  /\ SwitchTip(v)
  /\ outbuf' = <<Header>>
  /\ attached' = attached \cup {v}
  /\ UNCHANGED <<hint, index, cr, step, detaching, bookmark, promises, view, era,
                 ops, inherited, crashes>>

-----------------------------------------------------------------------------
(* Earlier commits *)

CommitAt(at) == RecordAt(at).cr

\* lssi_rewind_to_gen: the commit records that prev_cr_at leads to
Ancestor[n \in Nat] ==
  IF n = 0 THEN cr.self
  ELSE IF IsAt(Ancestor[n - 1], "COMM") THEN CommitAt(Ancestor[n - 1]).prev
  ELSE Nowhere

\* The last commit record that a volume's file shows when it is opened: the one
\* at its end, or the last one that a scan from the hint comes across.

\* Mutated: the commit record that the header points to, without a scan.
LastCommit_hint(f, h, v) == IF IsCommit(f, Len(f)) THEN <<v, Len(f)>> ELSE h

LastCommit(f, h, v) ==
  IF IsCommit(f, Len(f)) THEN <<v, Len(f)>>
  ELSE IF h = Nowhere THEN Nowhere
  ELSE <<v, Latest({i \in Commits(f) : i >= h[2]} \cup {h[2]})>>

FoundOn(v) == LastCommit(file[v], hint[v], v)

\* lss_set_generation, to a generation or to the bookmark.  The client does not
\* go back to before a volume was wiped.
Rewind(at) ==
  /\ Idle /\ ops < MaxOps /\ "rewind" \in Client
  /\ IsAt(at, "COMM") /\ at[1] \in attached /\ Loadable(CommitAt(at))
  /\ RecordAt(at).era = era
  /\ NoneLater(at[1], CommitAt(at).gen)
  /\ SwitchTip(at[1])
  /\ outbuf' = IF tip = at[1] THEN outbuf ELSE <<>>
  /\ Load(CommitAt(at))
  /\ view' = RecordAt(at).left
  /\ ops' = ops + 1
  /\ UNCHANGED <<hint, attached, step, detaching, bookmark, promises, era, inherited,
                 crashes>>

-----------------------------------------------------------------------------
(* Crash and recovery *)

\* A volume whose last commit record is looked for: it is at the end of the file,
\* or the header points to one, or there is none.
Sighted(f, h) ==
  \/ f = <<>>
  \/ IsCommit(f, Len(f))
  \/ h = Nowhere => Commits(f) = {}

\* The points where a file may end after a power failure.
Ends(v) == {n \in synced[v] .. Len(file[v]) :
              n \in {0, Len(file[v])} \/ file[v][n].kind \in {"DSEG", "COMM"}}

\* What is left is the files up to kept, and headers with the hints h.
GoDown(kept, h) ==
  /\ step # "down" /\ crashes < MaxCrashes
  /\ \/ "blind" \in Risks
     \/ \A v \in Volume : Sighted(SubSeq(file[v], 1, kept[v]), h[v])
  /\ "unsynced move" \in Risks \/ \A v \in Volume : kept[v] >= auxEnd[v]
  /\ "unsynced recovery" \in Risks \/ \A v \in Volume : kept[v] >= inherited[v]
  /\ file' = [v \in Volume |-> SubSeq(file[v], 1, kept[v])]
  /\ hint' = [v \in Volume |-> IF kept[v] = 0 THEN Nowhere ELSE h[v]]
  /\ auxEnd' = [v \in Volume |-> IF auxEnd[v] > kept[v] THEN kept[v] ELSE auxEnd[v]]
  /\ inherited' = kept
  /\ outbuf' = <<>> /\ auxbuf' = [v \in Volume |-> <<>>]
  /\ step' = "down" /\ detaching' = {}
  /\ crashes' = crashes + 1
  /\ UNCHANGED <<attached, tip, index, cr, bookmark, promises, view, era, ops>>

\* All that was written is still there, but a power failure can yet take it away.
ProcessDies ==
  /\ GoDown([v \in Volume |-> Len(file[v])], hint)
  /\ UNCHANGED <<synced, safeHint>>

PowerFails ==
  \E kept \in [Volume -> UNION {Ends(v) : v \in Volume}], old \in SUBSET Volume :
    /\ \A v \in Volume : kept[v] \in Ends(v)
    /\ GoDown(kept, [v \in Volume |-> IF v \in old THEN safeHint[v] ELSE hint[v]])
    /\ synced' = kept /\ safeHint' = hint'

\* What find_most_favored_cr makes of volumes without any commit record: they
\* are truncated and get new headers.
Fresh(f, buf) ==
  /\ f = [v \in Volume |-> IF NumVols = 1 THEN <<>> ELSE <<Header, Segment>>]
  /\ buf = IF NumVols = 1 THEN <<Header>> ELSE <<>>

Create ==
  /\ Fresh(file', outbuf')
  /\ synced' = [v \in Volume |-> Len(file'[v])]
  /\ hint' = [v \in Volume |-> Nowhere] /\ safeHint' = hint'
  /\ auxEnd' = [v \in Volume |-> 0] /\ inherited' = [v \in Volume |-> 0]
  /\ tip' = 0 /\ attached' = Volume
  /\ entry' = [r \in Record |-> Nowhere]
  /\ lineAt' = [l \in Line |-> Nowhere] /\ known' = {}
  /\ cr' = FirstCommitRecord
  /\ step' = "idle"

\* lss_openx, which reads every volume that has a header.  The asserts that a
\* hint points to a commit record of its own volume, and that the index of the
\* best commit record can be read, stop it for good.
Found == {v \in Volume : FoundOn(v) # Nowhere}
Favored(v) ==
  /\ v \in Found
  /\ \A w \in Found :
       LET g == CommitAt(FoundOn(v)).gen
           h == CommitAt(FoundOn(w)).gen
       IN  g > h \/ (g = h /\ v <= w)

Misled(v) ==
  /\ file[v] # <<>> /\ ~IsCommit(file[v], Len(file[v]))
  /\ hint[v] # Nowhere
  /\ hint[v][1] # v \/ ~IsCommit(file[v], hint[v][2])

Reload(v) ==
  LET best == CommitAt(FoundOn(v))
  IN /\ Loadable(best) /\ Load(best)
     /\ tip' = v
     /\ attached' = {w \in Volume : file[w] # <<>>}
     /\ step' = "idle"
     /\ UNCHANGED <<disk, outbuf, auxEnd, inherited>>

CannotOpen ==
  IF \E v \in Volume : Misled(v) THEN TRUE
  ELSE \E v \in Volume : Favored(v) /\ ~Loadable(CommitAt(FoundOn(v)))

\* The client may rely on nothing but its last commit, or the one it was at.
Open ==
  /\ step = "down" /\ ~CannotOpen
  /\ IF Found = {} THEN Create ELSE \E v \in Volume : Favored(v) /\ Reload(v)
  /\ view' = IF Contents(entry') \in offered THEN Contents(entry') ELSE stable
  /\ stable' = view' /\ offered' = {}
  /\ UNCHANGED <<auxbuf, detaching, bookmark, past, era, ops, crashes>>

-----------------------------------------------------------------------------
Init ==
  /\ Fresh(file, outbuf)
  /\ synced = [v \in Volume |-> Len(file[v])]
  /\ hint = [v \in Volume |-> Nowhere] /\ safeHint = hint
  /\ attached = Volume /\ tip = 0
  /\ auxbuf = [v \in Volume |-> <<>>]
  /\ entry = [r \in Record |-> Nowhere]
  /\ lineAt = [l \in Line |-> Nowhere] /\ known = {}
  /\ cr = FirstCommitRecord
  /\ step = "idle" /\ detaching = {} /\ bookmark = FALSE
  /\ view = [r \in Record |-> Absent]
  /\ stable = view /\ offered = {} /\ past = {view}
  /\ era = 0 /\ auxEnd = [v \in Volume |-> 0] /\ inherited = auxEnd
  /\ ops = 0 /\ crashes = 0

CommitStep ==
  \/ \E flag \in BOOLEAN : BeginCommit(flag)
  \/ CommitHeader \/ CommitFlush \/ CommitAux \/ CommitRecord \/ CommitSync

RecordStep ==
  \E r \in Record :
    \/ \E val \in Value : Write(r, val)
    \/ Delete(r)
    \/ \E v \in Volume : MoveAside(r, v)
    \/ MoveToTip(r)

VolumeStep ==
  \/ \E v \in Volume : SetTip(v) \/ Detach(v) \/ Unlink(v) \/ Attach(v)
  \/ \E at \in {Ancestor[n] : n \in 0 .. cr.gen} \cup {cr.mark} : Rewind(at)

CrashStep == ProcessDies \/ PowerFails \/ Open

Next == RecordStep \/ CommitStep \/ VolumeStep \/ CrashStep

Spec == Init /\ [][Next]_vars

-----------------------------------------------------------------------------
(* Properties *)

CommitRecordType ==
  [gen : Nat, prev : Locator, self : Locator, mark : Locator, mix : Locator,
   diffs : [Record -> Locator \cup {NoDiff}], fuel : Int]

Snapshot == [Record -> Value \cup {Absent}]

RecordType ==
  {Header, Segment} \cup [kind : {"DATA"}, rec : Record, val : Value]
    \cup [kind : {"INDX"}, line : Line, entry : [Record -> Locator]]
    \cup [kind : {"MIDX"}, lineAt : [Line -> Locator], lines : SUBSET Line]
    \cup [kind : {"COMM"}, cr : CommitRecordType, left : Snapshot, era : Nat]

\* The types of the variables; what was synced or moved is in the file, and the
\* buffers hold what they have room for, the index at a commit apart.
TypeOK ==
  /\ file \in [Volume -> Seq(RecordType)]
  /\ outbuf \in Seq(RecordType) /\ auxbuf \in [Volume -> Seq(RecordType)]
  /\ Idle => Len(outbuf) <= OutBufSize
  /\ \A v \in Volume :
       /\ synced[v] <= Len(file[v]) /\ auxEnd[v] <= Len(file[v])
       /\ inherited[v] <= Len(file[v])
       /\ Len(auxbuf[v]) <= OutBufSize
  /\ hint \in [Volume -> Locator] /\ safeHint \in [Volume -> Locator]
  /\ synced \in [Volume -> Nat] /\ auxEnd \in [Volume -> Nat]
  /\ inherited \in [Volume -> Nat]
  /\ attached \subseteq Volume /\ detaching \subseteq Volume /\ tip \in Volume
  /\ entry \in [Record -> Locator] /\ lineAt \in [Line -> Locator]
  /\ known \subseteq Line
  /\ cr \in CommitRecordType
  /\ step \in {"idle", "detach", "header", "flush", "aux", "record", "sync",
               "down"}
  /\ bookmark \in BOOLEAN
  /\ view \in Snapshot /\ stable \in Snapshot
  /\ offered \subseteq Snapshot /\ past \subseteq Snapshot
  /\ era \in Nat /\ ops \in Nat /\ crashes \in Nat

Up == step # "down"

\* A client reads what it wrote: the index in memory leads to the last version of
\* each record, in a file or in a buffer, whatever was flushed, moved, detached
\* or opened again in between (lssi_index_load, lssi_read_access_at).
ReadsSeeWrites == Up => Contents(entry) = view

\* Each commit record since the last volume was detached, the one at the tip and
\* all older ones, leads to what was written when it was made: its master index,
\* the lines and the differences together (lssi_load_mindex).
EveryCommitReadable ==
  \A v \in Volume : \A i \in Commits(file[v]) :
    file[v][i].era = era =>
      /\ Loadable(file[v][i].cr)
      /\ Contents(LoadEntry(file[v][i].cr)) = file[v][i].left

\* How much of a file is there after a crash: what was synced, and what was there
\* when the file was opened, for no power failure follows an unsynced recovery.
Firm == [v \in Volume |-> IF synced[v] < inherited[v] THEN inherited[v] ELSE synced[v]]

\* A hint within its own volume is a commit record, and one that is synced or was
\* there, synced or not, when the store was opened: the question that the comment in
\* lssi_commit asks ("will the volume header have an incorrect forward pointer to the
\* CR?").  lss_openx takes up a commit record that a process has not synced before it
\* died, and syncs nothing, so that the next header may point to it.
HeaderPointsBack ==
  \A v \in Volume : \A h \in {hint[v], safeHint[v]} :
    h # Nowhere /\ h[1] = v => h[2] <= Firm[v] /\ IsCommit(file[v], h[2])

\* A volume without a commit record at its end, whose header was updated before the
\* first commit on it: the hint is the commit record of another volume.
Astray(v) ==
  /\ file[v] # <<>> /\ ~IsCommit(file[v], Len(file[v]))
  /\ hint[v] # Nowhere /\ hint[v][1] # v

\* The store can be opened after a crash unless a hint has gone astray, where
\* lssi_find_last_cr panics ("CR is not on this volume"): no other hint misleads the
\* search for the last commit record, and the index that it names is there (lss_openx).
OpensAgain == Up \/ ~CannotOpen \/ \E v \in Volume : Astray(v)

\* The commits are atomic and survive crashes (lssi_commit, lss_openx).
Promised == INSTANCE StableStore WITH
  up <- Up, current <- IF Up THEN Contents(entry) ELSE stable
CommitsSurvive == Promised!Spec

\* "any LSS-level GC promises to preserve everything reachable via any of these
\* bookmarks" (lssv3.h:262): the bookmarked commit record can be loaded.
BookmarkPreserved ==
  Up /\ cr.mark # Nowhere =>
    /\ IsAt(cr.mark, "COMM") /\ Loadable(CommitAt(cr.mark))
    /\ Contents(LoadEntry(CommitAt(cr.mark))) = RecordAt(cr.mark).left

=============================================================================
