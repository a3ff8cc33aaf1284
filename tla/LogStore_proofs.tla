--------------------------- MODULE LogStore_proofs ---------------------------
(***************************************************************************)
(* Proofs about LogStore: volumes as sequences that grow, and the types of *)
(* its variables.                                                          *)
(***************************************************************************)
EXTENDS LogStore, FiniteSetTheorems, SequenceTheorems, TLAPS

-----------------------------------------------------------------------------
(* Sequences                                                               *)

\* g is f with something put at its end, or f itself.
Begins(f, g) == Len(f) <= Len(g) /\ \A i \in 1 .. Len(f) : g[i] = f[i]

LEMMA BeginsItself ==
  ASSUME NEW S, NEW f \in Seq(S)  PROVE Begins(f, f)
  BY LenProperties DEF Begins

LEMMA BeginsFurther ==
  ASSUME NEW S, NEW f \in Seq(S), NEW g \in Seq(S), NEW h \in Seq(S),
         Begins(f, g), Begins(g, h)
  PROVE  Begins(f, h)
  BY LenProperties DEF Begins

LEMMA BeginsConcat ==
  ASSUME NEW S, NEW f \in Seq(S), NEW g \in Seq(S)  PROVE Begins(f, f \o g)
  BY LenProperties, ConcatProperties DEF Begins

LEMMA BeginsConcatMore ==
  ASSUME NEW S, NEW f \in Seq(S), NEW g \in Seq(S), NEW h \in Seq(S), Begins(g, h)
  PROVE  Begins(f \o g, f \o h)
<1>1. Len(f) \in Nat /\ Len(g) \in Nat /\ Len(h) \in Nat
  BY LenProperties
<1>2. Len(f \o g) = Len(f) + Len(g) /\ Len(f \o h) = Len(f) + Len(h)
  BY ConcatProperties
<1>3. ASSUME NEW i \in 1 .. (Len(f) + Len(g))  PROVE (f \o h)[i] = (f \o g)[i]
  <2>1. i \in 1 .. Len(f) + Len(g) /\ i \in 1 .. Len(f) + Len(h)
    BY <1>1 DEF Begins
  <2>2. (f \o g)[i] = IF i <= Len(f) THEN f[i] ELSE g[i - Len(f)]
    BY <2>1, ConcatProperties
  <2>3. (f \o h)[i] = IF i <= Len(f) THEN f[i] ELSE h[i - Len(f)]
    BY <2>1, ConcatProperties
  <2> QED  BY <1>1, <2>1, <2>2, <2>3 DEF Begins
<1> QED  BY <1>1, <1>2, <1>3 DEF Begins

LEMMA OneMore ==
  ASSUME NEW S, NEW f \in Seq(S), NEW x \in S
  PROVE  /\ f \o <<x>> \in Seq(S)
         /\ Len(f \o <<x>>) = Len(f) + 1
         /\ (f \o <<x>>)[Len(f) + 1] = x
<1>1. <<x>> \in Seq(S) /\ Len(<<x>>) = 1 /\ <<x>>[1] = x /\ Len(f) \in Nat
  BY LenProperties
<1>2. f \o <<x>> \in Seq(S) /\ Len(f \o <<x>>) = Len(f) + 1
  BY <1>1, ConcatProperties
<1>3. (f \o <<x>>)[Len(f) + 1]
        = IF Len(f) + 1 <= Len(f) THEN f[Len(f) + 1] ELSE <<x>>[Len(f) + 1 - Len(f)]
  <2>1. Len(f) + 1 \in 1 .. Len(f) + Len(<<x>>)
    BY <1>1
  <2> QED  BY <1>1, <2>1, ConcatProperties
<1>4. Len(f) + 1 - Len(f) = 1 /\ ~(Len(f) + 1 <= Len(f))
  BY <1>1
<1> QED  BY <1>1, <1>2, <1>3, <1>4

LEMMA BeginsAppend ==
  ASSUME NEW S, NEW f \in Seq(S), NEW x \in S  PROVE Begins(f, Append(f, x))
  BY LenProperties, AppendProperties DEF Begins

\* What set_tip and the commits make of a file and the buffer for it.
LEMMA FlushedFacts ==
  ASSUME NEW f \in Seq(RecordType), NEW buf \in Seq(RecordType)
  PROVE  /\ Flushed(f, buf) \in Seq(RecordType)
         /\ Begins(f \o buf, Flushed(f, buf))
         /\ Begins(f, Flushed(f, buf))
         /\ Len(Flushed(f, buf)) >= Len(f) + Len(buf)
         /\ \A i \in (Len(f) + Len(buf) + 1) .. Len(Flushed(f, buf)) :
               Flushed(f, buf)[i] = Segment
         /\ f # <<>> \/ buf # <<>> => Flushed(f, buf) # <<>>
<1>1. f \o buf \in Seq(RecordType) /\ Len(f \o buf) = Len(f) + Len(buf)
      /\ Len(f) \in Nat /\ Len(buf) \in Nat /\ Begins(f, f \o buf)
  BY LenProperties, ConcatProperties, BeginsConcat
<1>2. CASE buf = <<>>
  <2>1. Len(buf) = 0 /\ Flushed(f, buf) = f
    BY <1>2 DEF Flushed
  <2>2. f \o buf = f
    BY <1>2
  <2> QED  BY <1>1, <1>2, <2>1, <2>2, BeginsItself
<1>3. CASE buf # <<>>
  <2> DEFINE g == f \o buf
  <2>1. Flushed(f, buf) = g \o <<Segment>>
    BY <1>3 DEF Flushed
  <2>2. Segment \in RecordType /\ <<Segment>> \in Seq(RecordType)
    BY DEF RecordType
  <2>3. /\ g \o <<Segment>> \in Seq(RecordType)
        /\ Len(g \o <<Segment>>) = Len(g) + 1
        /\ (g \o <<Segment>>)[Len(g) + 1] = Segment
    BY <1>1, <2>2, OneMore
  <2>4. Begins(g, g \o <<Segment>>)
    BY <1>1, <2>2, BeginsConcat
  <2> HIDE DEF g
  <2>5. Begins(f, g \o <<Segment>>)
    BY <1>1, <2>3, <2>4, BeginsFurther DEF g
  <2>6. g \o <<Segment>> # <<>>
    <3>1. Len(g \o <<Segment>>) # 0
      BY <1>1, <2>3 DEF g
    <3> QED  BY <3>1
  <2> QED  BY <1>1, <2>1, <2>3, <2>4, <2>5, <2>6 DEF g
<1> QED  BY <1>2, <1>3

\* The commit records of a file are not touched.
Quiet(f, g) == Begins(f, g) /\ Commits(g) = Commits(f)

NoCommits(buf) == \A i \in 1 .. Len(buf) : buf[i].kind # "COMM"

LEMMA CommitsOf ==
  ASSUME NEW f \in Seq(RecordType)
  PROVE  /\ Commits(f) = {i \in 1 .. Len(f) : f[i].kind = "COMM"}
         /\ \A i : IsCommit(f, i) <=> i \in Commits(f)
  BY LenProperties DEF Commits, IsCommit

LEMMA QuietIf ==
  ASSUME NEW f \in Seq(RecordType), NEW g \in Seq(RecordType), Begins(f, g),
         \A i \in (Len(f) + 1) .. Len(g) : g[i].kind # "COMM"
  PROVE  Quiet(f, g)
<1>1. Len(f) \in Nat /\ Len(g) \in Nat /\ Len(f) <= Len(g)
      /\ \A i \in 1 .. Len(f) : g[i] = f[i]
  BY LenProperties DEF Begins
<1>2. Commits(f) = {i \in 1 .. Len(f) : f[i].kind = "COMM"}
      /\ Commits(g) = {i \in 1 .. Len(g) : g[i].kind = "COMM"}
  BY CommitsOf
<1>3. ASSUME NEW i \in 1 .. Len(g), g[i].kind = "COMM"
      PROVE  i \in 1 .. Len(f) /\ f[i].kind = "COMM"
  BY <1>1, <1>3
<1>4. ASSUME NEW i \in 1 .. Len(f), f[i].kind = "COMM"
      PROVE  i \in 1 .. Len(g) /\ g[i].kind = "COMM"
  BY <1>1, <1>4
<1>5. Commits(g) = Commits(f)
  BY <1>2, <1>3, <1>4
<1> QED  BY <1>5 DEF Quiet

LEMMA FlushedQuiet ==
  ASSUME NEW f \in Seq(RecordType), NEW buf \in Seq(RecordType), NoCommits(buf)
  PROVE  Quiet(f, Flushed(f, buf))
<1> DEFINE g == Flushed(f, buf)
<1>1. Len(f) \in Nat /\ Len(buf) \in Nat /\ Len(f \o buf) = Len(f) + Len(buf)
      /\ g \in Seq(RecordType) /\ Len(g) \in Nat
  BY FlushedFacts, LenProperties, ConcatProperties
<1>2. ASSUME NEW i \in (Len(f) + 1) .. Len(g)  PROVE g[i].kind # "COMM"
  <2>1. CASE i <= Len(f) + Len(buf)
    <3>1. g[i] = (f \o buf)[i]
      BY <1>1, <2>1, FlushedFacts DEF Begins
    <3>2. i \in 1 .. Len(f) + Len(buf) /\ ~(i <= Len(f)) /\ i - Len(f) \in 1 .. Len(buf)
      BY <1>1, <2>1
    <3>3. (f \o buf)[i] = buf[i - Len(f)]
      BY <3>2, ConcatProperties
    <3> QED  BY <3>1, <3>2, <3>3 DEF NoCommits
  <2>2. CASE i > Len(f) + Len(buf)
    <3>1. g[i] = Segment
      BY <1>1, <2>2, FlushedFacts
    <3> QED  BY <3>1 DEF Segment
  <2> QED  BY <1>1, <2>1, <2>2
<1> QED  BY <1>1, <1>2, FlushedFacts, QuietIf

\* What lssi_writev and lss_move_record do to a file and its buffer.
PutLog(f, buf) == IF Full(buf) THEN Flushed(f, buf) ELSE f
PutBuf(buf) == IF Full(buf) THEN <<>> ELSE buf

LEMMA PutIn ==
  ASSUME NEW f \in Seq(RecordType), NEW b \in Seq(RecordType), NoCommits(b),
         NEW x \in RecordType, x.kind # "COMM"
  PROVE  LET log == PutLog(f, b)
             buf == Append(PutBuf(b), x)
             n == Len(log) + Len(PutBuf(b)) + 1
         IN  /\ log \in Seq(RecordType) /\ buf \in Seq(RecordType)
             /\ Quiet(f, log) /\ NoCommits(buf)
             /\ Begins(f \o b, log \o buf)
             /\ n \in 1 .. Len(log \o buf) /\ n \in Nat /\ (log \o buf)[n] = x
             /\ f # <<>> => log # <<>>
             /\ buf # <<>> /\ Len(buf) = IF Full(b) THEN 1 ELSE Len(b) + 1
<1> DEFINE log == PutLog(f, b)
           old == PutBuf(b)
           buf == Append(old, x)
<1>1. log \in Seq(RecordType) /\ old \in Seq(RecordType)
  BY FlushedFacts DEF PutLog, PutBuf
<1>2. Quiet(f, log) /\ (f # <<>> => log # <<>>)
  BY FlushedFacts, FlushedQuiet, BeginsItself DEF PutLog, Quiet
<1>3. Begins(f \o b, log \o old)
  <2>1. CASE Full(b)
    <3>1. log \o old = log
      BY <1>1, <2>1 DEF PutBuf
    <3> QED  BY <2>1, <3>1, FlushedFacts DEF PutLog
  <2>2. CASE ~Full(b)
    BY <2>2, ConcatProperties, BeginsItself DEF PutLog, PutBuf
  <2> QED  BY <2>1, <2>2
<1>4. Len(old) = (IF Full(b) THEN 0 ELSE Len(b)) /\ NoCommits(old)
  BY DEF PutBuf, NoCommits
<1> HIDE DEF log, old
<1>5. /\ buf \in Seq(RecordType) /\ buf # <<>> /\ Len(buf) = Len(old) + 1
      /\ buf[Len(old) + 1] = x /\ \A i \in 1 .. Len(old) : buf[i] = old[i]
      /\ Len(old) \in Nat /\ Len(log) \in Nat
  BY <1>1, AppendProperties, LenProperties
<1>6. NoCommits(buf)
  BY <1>4, <1>5 DEF NoCommits
<1>7. Begins(f \o b, log \o buf)
  <2>1. Begins(log \o old, log \o buf)
    BY <1>1, <1>5, BeginsAppend, BeginsConcatMore
  <2>2. /\ f \o b \in Seq(RecordType) /\ log \o old \in Seq(RecordType)
        /\ log \o buf \in Seq(RecordType)
    BY <1>1, <1>5, ConcatProperties
  <2> QED  BY <1>3, <2>1, <2>2, BeginsFurther
<1>8. LET n == Len(log) + Len(old) + 1
      IN  n \in 1 .. Len(log \o buf) /\ n \in Nat /\ (log \o buf)[n] = x
  <2> DEFINE n == Len(log) + Len(old) + 1
  <2>1. Len(log \o buf) = Len(log) + Len(buf)
    BY <1>1, <1>5, ConcatProperties
  <2>2. n \in 1 .. Len(log) + Len(buf) /\ ~(n <= Len(log)) /\ n - Len(log) = Len(old) + 1
    BY <1>5
  <2>3. (log \o buf)[n] = buf[n - Len(log)]
    BY <1>1, <1>5, <2>2, ConcatProperties
  <2> QED  BY <1>5, <2>1, <2>2, <2>3
<1>9. Len(buf) = IF Full(b) THEN 1 ELSE Len(b) + 1
  BY <1>4, <1>5
<1> QED  BY <1>1, <1>2, <1>5, <1>6, <1>7, <1>8, <1>9 DEF log, old

-----------------------------------------------------------------------------
(* Records and locators                                                    *)

LEMMA Locators ==
  /\ 0 \in Volume /\ Nowhere \in Locator
  /\ \A v \in Volume, n \in Nat : <<v, n>> \in Locator
  /\ \A at \in Locator : at[1] \in Volume /\ at[2] \in Nat /\ at = <<at[1], at[2]>>
  BY LogStoreAssumption DEF Volume, Nowhere, Locator

LEMMA RecordParts ==
  ASSUME NEW rec \in RecordType
  PROVE  /\ rec.kind = "DATA" => rec.val \in Value
         /\ rec.kind = "INDX" => rec.line \in Line /\ rec.entry \in [Record -> Locator]
         /\ rec.kind = "MIDX" => rec.lineAt \in [Line -> Locator] /\ rec.lines \subseteq Line
         /\ rec.kind = "COMM" => rec.cr \in CommitRecordType /\ rec.left \in Snapshot
                                 /\ rec.era \in Nat
  BY DEF RecordType, Header, Segment

LEMMA RecordsMade ==
  /\ Header \in RecordType /\ Segment \in RecordType
  /\ Header.kind = "LSS" /\ Segment.kind = "DSEG"
  /\ \A r \in Record, val \in Value :
       Data(r, val) \in RecordType /\ Data(r, val).kind = "DATA" /\ Data(r, val).val = val
  /\ entry \in [Record -> Locator] =>
       \A l \in Line : /\ IndexLine(l) \in RecordType /\ IndexLine(l).kind = "INDX"
                       /\ IndexLine(l).line = l /\ IndexLine(l).entry = entry
  /\ \A at \in [Line -> Locator], lines \in SUBSET Line :
       LET rec == MasterIndex(at, lines)
       IN  rec \in RecordType /\ rec.kind = "MIDX" /\ rec.lineAt = at /\ rec.lines = lines
  /\ era \in Nat =>
       \A c \in CommitRecordType, left \in Snapshot :
         LET rec == Commit(c, left)
         IN  /\ rec \in RecordType /\ rec.kind = "COMM" /\ rec.cr = c /\ rec.left = left
             /\ rec.era = era
  BY DEF RecordType, Header, Segment, Data, IndexLine, MasterIndex, Commit

\* The records of the volumes, those included that are still in a buffer.
Logs == [v \in Volume |-> file[v] \o Pending(v)]

LEMMA LogFacts ==
  ASSUME TypeOK, NEW v \in Volume
  PROVE  /\ Pending(v) \in Seq(RecordType) /\ file[v] \in Seq(RecordType)
         /\ Logs[v] \in Seq(RecordType)
         /\ Len(Logs[v]) = Len(file[v]) + Len(Pending(v))
         /\ Len(Logs[v]) \in Nat /\ Len(file[v]) \in Nat /\ Len(Pending(v)) \in Nat
         /\ Begins(file[v], Logs[v])
<1>1. Pending(v) \in Seq(RecordType) /\ file[v] \in Seq(RecordType)
  BY DEF TypeOK, Pending
<1> QED  BY <1>1, LenProperties, ConcatProperties, BeginsConcat DEF Logs

LEMMA StoredRecord ==
  ASSUME TypeOK, NEW at, at[1] \in Volume, InStore(at)
  PROVE  /\ at[2] \in 1 .. Len(Logs[at[1]]) /\ at[2] \in Nat
         /\ RecordAt(at) = Logs[at[1]][at[2]] /\ RecordAt(at) \in RecordType
<1>1. at[2] \in 1 .. Len(Logs[at[1]]) /\ Len(Logs[at[1]]) \in Nat
  BY LogFacts DEF InStore
<1>2. RecordAt(at) = Logs[at[1]][at[2]]
  BY DEF RecordAt, Logs
<1> QED  BY <1>1, <1>2, LogFacts, ElementOfSeq

LEMMA LoadedTypes ==
  ASSUME TypeOK, NEW c \in CommitRecordType, Loadable(c)
  PROVE  /\ LoadLines(c) \subseteq Line /\ LoadLineAt(c) \in [Line -> Locator]
         /\ LoadEntry(c) \in [Record -> Locator]
<1>1. c.mix \in Locator /\ c.diffs \in [Record -> Locator \cup {NoDiff}]
  BY DEF CommitRecordType
<1>2. InStore(c.mix) /\ RecordAt(c.mix).kind = "MIDX"
  BY DEF Loadable, IsAt
<1>3. LoadLines(c) \subseteq Line /\ LoadLineAt(c) \in [Line -> Locator]
  BY <1>1, <1>2, StoredRecord, RecordParts, Locators DEF LoadLines, LoadLineAt
<1>4. ASSUME NEW r \in Record  PROVE LoadEntry(c)[r] \in Locator
  <2>1. CASE LineOf[r] \notin LoadLines(c)
    BY <2>1, Locators DEF LoadEntry
  <2>2. CASE LineOf[r] \in LoadLines(c) /\ c.diffs[r] # NoDiff
    BY <1>1, <2>2 DEF LoadEntry
  <2>3. CASE LineOf[r] \in LoadLines(c) /\ c.diffs[r] = NoDiff
    <3> DEFINE at == LoadLineAt(c)[LineOf[r]]
    <3>1. InStore(at) /\ RecordAt(at).kind = "INDX" /\ at[1] \in Volume
      BY <1>3, <2>3, Locators DEF Loadable, IsAt
    <3>2. RecordAt(at).entry \in [Record -> Locator]
      BY <3>1, StoredRecord, RecordParts
    <3> QED  BY <2>3, <3>2 DEF LoadEntry
  <2> QED  BY <2>1, <2>2, <2>3
<1> QED  BY <1>3, <1>4 DEF LoadEntry

-----------------------------------------------------------------------------
(* The types of the variables                                              *)

\* No commit record is ever in a buffer, and a commit empties the buffers.
Buffers ==
  /\ NoCommits(outbuf) /\ \A v \in Volume : NoCommits(auxbuf[v])
  /\ step \in {"aux", "record", "sync", "down"} => outbuf = <<>>
  /\ step \in {"record", "sync", "down"} => \A v \in Volume : auxbuf[v] = <<>>

\* An open volume has a header in its file, or is new and has it in the buffer.
Opened ==
  /\ Up => /\ tip \in attached
           /\ \A v \in attached : file[v] # <<>> \/ (v = tip /\ outbuf # <<>>)
  /\ step \in {"header", "flush", "aux", "record", "sync", "detach"} => file[tip] # <<>>
  /\ \A v \in Volume : file[v] = <<>> => hint[v] = Nowhere
  /\ tip \notin detaching
  /\ step \in {"idle", "down"} => detaching = {}

Shape == TypeOK /\ Buffers /\ Opened

LEMMA StoreTypes ==
  ASSUME TypeOK, NEW r \in Record, NEW at \in Locator, NEW fuel \in Nat,
         Store(r, at, fuel)
  PROVE  /\ entry' \in [Record -> Locator] /\ lineAt' \in [Line -> Locator]
         /\ known' \subseteq Line /\ cr' \in CommitRecordType /\ cr'.gen = cr.gen
         /\ cr'.self = cr.self
<1>1. LineOf[r] \in Line /\ Nowhere \in Locator
  BY LogStoreAssumption, Locators
<1>2. entry' \in [Record -> Locator] /\ lineAt' \in [Line -> Locator] /\ known' \subseteq Line
  BY <1>1 DEF TypeOK, Store
<1>3. ASSUME NEW c \in CommitRecordType
      PROVE  RollIn(c) \in CommitRecordType /\ RollIn(c).gen = c.gen /\ RollIn(c).self = c.self
  BY <1>1 DEF RollIn, NoDiffs, CommitRecordType
<1>4. ASSUME NEW c \in CommitRecordType
      PROVE  [c EXCEPT !.diffs[r] = at] \in CommitRecordType
             /\ [c EXCEPT !.diffs[r] = at].gen = c.gen /\ [c EXCEPT !.diffs[r] = at].self = c.self
  BY DEF CommitRecordType
<1> DEFINE c == NewLine(cr, r, at)
           d == DiffStore(c, r, at)
<1>5. c \in CommitRecordType /\ c.gen = cr.gen /\ c.self = cr.self
  BY <1>3 DEF TypeOK, NewLine
<1>6. d \in CommitRecordType /\ d.gen = c.gen /\ d.self = c.self
  BY <1>3, <1>4, <1>5 DEF DiffStore
<1>7. cr' = [d EXCEPT !.fuel = @ - fuel]
  BY DEF Store
<1> HIDE DEF c, d
<1>8. cr' \in CommitRecordType /\ cr'.gen = d.gen /\ cr'.self = d.self
  BY <1>6, <1>7 DEF CommitRecordType
<1> QED  BY <1>2, <1>5, <1>6, <1>8

\* A record is put into a buffer, which goes to its file first if it is full.
LEMMA FullBuffers ==
  ASSUME NEW b, Len(b) \in Nat, Len(b) <= OutBufSize
  PROVE  (IF Full(b) THEN 1 ELSE Len(b) + 1) <= OutBufSize
  BY LogStoreAssumption DEF Full

\* What no step does but a crash, an unlink and the making of a new store:
\* records disappear from a volume, or less of it is safe.
Grows ==
  \A v \in Volume :
    /\ Begins(Logs[v], Logs'[v]) /\ Quiet(file[v], file'[v])
    /\ synced[v] <= synced'[v] /\ auxEnd[v] <= auxEnd'[v] /\ inherited'[v] = inherited[v]

\* What the steps that leave the files alone do to them.
LEMMA GrowsAlone ==
  ASSUME Shape, UNCHANGED <<file, tip, outbuf, auxbuf, synced, auxEnd, inherited>>
  PROVE  Grows
<1> SUFFICES ASSUME NEW v \in Volume
             PROVE  /\ Begins(Logs[v], Logs'[v]) /\ Quiet(file[v], file'[v])
                    /\ synced[v] <= synced'[v] /\ auxEnd[v] <= auxEnd'[v]
                    /\ inherited'[v] = inherited[v]
  BY DEF Grows
<1>1. Logs'[v] = Logs[v]
  BY DEF Logs, Pending
<1>2. synced[v] \in Nat /\ auxEnd[v] \in Nat /\ inherited[v] \in Nat
  BY DEF Shape, TypeOK
<1> QED  BY <1>1, <1>2, LogFacts, BeginsItself DEF Quiet, Shape

LEMMA WriteShape ==
  ASSUME Shape, NEW r \in Record, NEW val \in Value, Write(r, val)
  PROVE  /\ Shape' /\ Grows
         /\ \E n \in Nat : /\ Store(r, <<tip, n>>, BlockFuelCost)
                           /\ n \in 1 .. Len(Logs'[tip]) /\ Logs'[tip][n] = Data(r, val)
<1> DEFINE log == PutLog(file[tip], outbuf)
           buf == Append(PutBuf(outbuf), Data(r, val))
           n == Len(log) + Len(PutBuf(outbuf)) + 1
<1>1. /\ Idle /\ step' = step /\ tip' = tip /\ attached' = attached
      /\ file' = [file EXCEPT ![tip] = log] /\ outbuf' = buf
      /\ Store(r, <<tip, n>>, BlockFuelCost)
      /\ UNCHANGED <<hint, synced, safeHint, auxbuf, detaching, bookmark, stable,
                     offered, past, era, auxEnd, inherited, crashes>>
      /\ view' = [view EXCEPT ![r] = val] /\ ops' = ops + 1
  BY DEF Write, PutLog, PutBuf, promises
<1>2. /\ file[tip] \in Seq(RecordType) /\ outbuf \in Seq(RecordType) /\ NoCommits(outbuf)
      /\ tip \in Volume /\ Len(file[tip]) \in Nat /\ Len(outbuf) \in Nat
      /\ Len(outbuf) <= OutBufSize
  BY <1>1, LenProperties DEF Shape, TypeOK, Buffers
<1>3. Data(r, val) \in RecordType /\ Data(r, val).kind # "COMM"
  BY RecordsMade
<1>4. /\ log \in Seq(RecordType) /\ buf \in Seq(RecordType) /\ Quiet(file[tip], log)
      /\ NoCommits(buf) /\ n \in Nat /\ buf # <<>> /\ (file[tip] # <<>> => log # <<>>)
      /\ Len(buf) = IF Full(outbuf) THEN 1 ELSE Len(outbuf) + 1
      /\ Begins(file[tip] \o outbuf, log \o buf)
      /\ n \in 1 .. Len(log \o buf) /\ (log \o buf)[n] = Data(r, val)
  BY <1>2, <1>3, PutIn
<1>5. Len(buf) <= OutBufSize
  BY <1>2, <1>4, FullBuffers
<1>6. Len(log) \in Nat /\ Len(file[tip]) <= Len(log)
  BY <1>4, LenProperties DEF Quiet, Begins
<1> HIDE DEF log, buf, n
<1>7. <<tip, n>> \in Locator
  BY <1>2, <1>4, Locators
<1>8. /\ entry' \in [Record -> Locator] /\ lineAt' \in [Line -> Locator]
      /\ known' \subseteq Line /\ cr' \in CommitRecordType
  BY <1>1, <1>7, StoreTypes, LogStoreAssumption DEF Shape
<1>9. /\ file' \in [Volume -> Seq(RecordType)] /\ file'[tip] = log
      /\ \A v \in Volume : v # tip => file'[v] = file[v]
  BY <1>1, <1>2, <1>4 DEF Shape, TypeOK
<1>10. view' \in Snapshot
  BY <1>1 DEF Shape, TypeOK, Snapshot
<1>11. \A v \in Volume : synced[v] <= Len(file'[v]) /\ auxEnd[v] <= Len(file'[v])
                         /\ inherited[v] <= Len(file'[v])
  <2> TAKE v \in Volume
  <2>1. /\ synced[v] \in Nat /\ auxEnd[v] \in Nat
        /\ inherited[v] \in Nat /\ Len(file[v]) \in Nat
        /\ synced[v] <= Len(file[v]) /\ auxEnd[v] <= Len(file[v])
        /\ inherited[v] <= Len(file[v])
    BY LenProperties DEF Shape, TypeOK
  <2> QED  BY <1>6, <1>9, <2>1
<1>12. TypeOK'
  BY <1>1, <1>4, <1>5, <1>8, <1>9, <1>10, <1>11 DEF Shape, TypeOK, Idle
<1>13. Buffers'
  BY <1>1, <1>4 DEF Shape, Buffers, Idle
<1>14. Opened'
  BY <1>1, <1>4, <1>9 DEF Shape, Opened, Up, Idle
<1>15. Logs'[tip] = log \o buf /\ Logs[tip] = file[tip] \o outbuf
  BY <1>1, <1>9 DEF Logs, Pending
<1>16. Grows
  <2> SUFFICES ASSUME NEW v \in Volume
               PROVE  /\ Begins(Logs[v], Logs'[v]) /\ Quiet(file[v], file'[v])
                      /\ synced[v] <= synced'[v] /\ auxEnd[v] <= auxEnd'[v]
                      /\ inherited'[v] = inherited[v]
    BY DEF Grows
  <2>1. synced[v] <= synced'[v] /\ auxEnd[v] <= auxEnd'[v] /\ inherited'[v] = inherited[v]
    BY <1>1 DEF Shape, TypeOK
  <2>2. CASE v = tip
    BY <1>4, <1>9, <1>15, <2>1, <2>2
  <2>3. CASE v # tip
    <3>1. Logs'[v] = Logs[v] /\ file'[v] = file[v]
      BY <1>1, <1>9, <2>3 DEF Logs, Pending
    <3> QED  BY <2>1, <3>1, LogFacts, BeginsItself DEF Shape, Quiet
  <2> QED  BY <2>2, <2>3
<1> QED  BY <1>1, <1>4, <1>12, <1>13, <1>14, <1>15, <1>16 DEF Shape

LEMMA DeleteShape ==
  ASSUME Shape, NEW r \in Record, Delete(r)
  PROVE  Shape' /\ Grows
<1>1. /\ Idle /\ Store(r, Nowhere, 0)
      /\ UNCHANGED <<file, hint, synced, safeHint, attached, tip, outbuf, auxbuf, step,
                     detaching, bookmark, stable, offered, past, era, auxEnd,
                     inherited, crashes>>
      /\ view' = [view EXCEPT ![r] = Absent] /\ ops' = ops + 1
  BY DEF Delete, disk, promises
<1>2. /\ entry' \in [Record -> Locator] /\ lineAt' \in [Line -> Locator]
      /\ known' \subseteq Line /\ cr' \in CommitRecordType
  BY <1>1, Locators, StoreTypes DEF Shape
<1>3. view' \in Snapshot
  BY <1>1 DEF Shape, TypeOK, Snapshot
<1>4. TypeOK'
  BY <1>1, <1>2, <1>3 DEF Shape, TypeOK, Idle
<1>5. Buffers' /\ Opened'
  BY <1>1 DEF Shape, Buffers, Opened, Up
<1> QED  BY <1>1, <1>4, <1>5, GrowsAlone DEF Shape

LEMMA MoveAsideShape ==
  ASSUME Shape, NEW r \in Record, NEW v \in Volume, MoveAside(r, v)
  PROVE  /\ Shape' /\ Grows
         /\ \E n \in Nat : /\ Store(r, <<v, n>>, BlockFuelCost)
                           /\ n \in 1 .. Len(Logs'[v]) /\ Logs'[v][n] = RecordAt(entry[r])
         /\ file'[v] = file[v] \/ Len(file'[v]) <= auxEnd'[v]
         /\ \A w \in Volume : w # v => file'[w] = file[w]
<1> DEFINE rec == RecordAt(entry[r])
           f == file[v]
           b == auxbuf[v]
           log == PutLog(f, b)
           buf == Append(PutBuf(b), rec)
           n == Len(log) + Len(PutBuf(b)) + 1
           end == IF Full(b) THEN Len(log) ELSE auxEnd[v]
<1>1. /\ Idle /\ step' = step /\ v # tip /\ v \in attached
      /\ file' = [file EXCEPT ![v] = log] /\ auxbuf' = [auxbuf EXCEPT ![v] = buf]
      /\ auxEnd' = [auxEnd EXCEPT ![v] = end]
      /\ Store(r, <<v, n>>, BlockFuelCost)
      /\ UNCHANGED <<hint, synced, safeHint, tip, attached, outbuf, detaching, bookmark,
                     stable, offered, past, view, era, inherited, crashes>>
      /\ ops' = ops + 1 /\ IsAt(entry[r], "DATA")
  BY DEF MoveAside, PutLog, PutBuf, promises
<1>2. /\ f \in Seq(RecordType) /\ b \in Seq(RecordType) /\ NoCommits(b)
      /\ Len(f) \in Nat /\ Len(b) \in Nat /\ Len(b) <= OutBufSize
      /\ auxEnd[v] \in Nat /\ auxEnd[v] <= Len(f) /\ tip \in Volume
  BY <1>1, LenProperties DEF Shape, TypeOK, Buffers
<1>3. rec \in RecordType /\ rec.kind # "COMM"
  <2>1. entry[r][1] \in Volume
    BY Locators DEF Shape, TypeOK
  <2> QED  BY <1>1, <2>1, StoredRecord DEF IsAt, Shape
<1> HIDE DEF rec, f, b
<1>4. /\ log \in Seq(RecordType) /\ buf \in Seq(RecordType) /\ Quiet(f, log)
      /\ NoCommits(buf) /\ n \in Nat /\ (f # <<>> => log # <<>>)
      /\ Len(buf) = IF Full(b) THEN 1 ELSE Len(b) + 1
      /\ Begins(f \o b, log \o buf)
      /\ n \in 1 .. Len(log \o buf) /\ (log \o buf)[n] = rec
  BY <1>2, <1>3, PutIn
<1>5. Len(buf) <= OutBufSize
  BY <1>2, <1>4, FullBuffers
<1>6. /\ Len(log) \in Nat /\ Len(f) <= Len(log)
      /\ end \in Nat /\ auxEnd[v] <= end /\ end <= Len(log)
      /\ log = f \/ Len(log) <= end
  <2>1. Len(log) \in Nat /\ Len(f) <= Len(log)
    BY <1>4, LenProperties DEF Quiet, Begins
  <2> QED  BY <1>2, <2>1 DEF PutLog
<1> HIDE DEF log, buf, n, end
<1> USE DEF f, b
<1>7. <<v, n>> \in Locator
  BY <1>4, Locators
<1>8. /\ entry' \in [Record -> Locator] /\ lineAt' \in [Line -> Locator]
      /\ known' \subseteq Line /\ cr' \in CommitRecordType
  BY <1>1, <1>7, StoreTypes, LogStoreAssumption DEF Shape
<1>9. /\ file' \in [Volume -> Seq(RecordType)] /\ file'[v] = log
      /\ auxbuf' \in [Volume -> Seq(RecordType)] /\ auxbuf'[v] = buf
      /\ auxEnd' \in [Volume -> Nat] /\ inherited' \in [Volume -> Nat] /\ auxEnd'[v] = end
      /\ \A w \in Volume : w # v =>
           file'[w] = file[w] /\ auxbuf'[w] = auxbuf[w] /\ auxEnd'[w] = auxEnd[w]
      /\ inherited' = inherited
  BY <1>1, <1>2, <1>4, <1>6 DEF Shape, TypeOK
<1>10. \A w \in Volume : /\ synced[w] <= Len(file'[w]) /\ auxEnd'[w] <= Len(file'[w])
                         /\ inherited'[w] <= Len(file'[w])
                         /\ Len(auxbuf'[w]) <= OutBufSize
                         /\ auxEnd[w] <= auxEnd'[w] /\ inherited'[w] = inherited[w]
  <2> TAKE w \in Volume
  <2>1. /\ synced[w] \in Nat /\ auxEnd[w] \in Nat
        /\ inherited[w] \in Nat /\ Len(file[w]) \in Nat
        /\ synced[w] <= Len(file[w]) /\ auxEnd[w] <= Len(file[w])
        /\ inherited[w] <= Len(file[w])
        /\ Len(auxbuf[w]) <= OutBufSize
    BY LenProperties DEF Shape, TypeOK
  <2>2. CASE w = v
    BY <1>2, <1>5, <1>6, <1>9, <2>1, <2>2
  <2>3. CASE w # v
    BY <1>9, <2>1, <2>3
  <2> QED  BY <2>2, <2>3
<1>11. TypeOK'
  BY <1>1, <1>8, <1>9, <1>10, SMTT(30) DEF Shape, TypeOK, Idle
<1>12. Buffers'
  BY <1>1, <1>4, <1>9 DEF Shape, Buffers, Idle
<1>13. Opened'
  BY <1>1, <1>4, <1>9 DEF Shape, Opened, Up, Idle
<1>14. Logs'[v] = log \o buf /\ Logs[v] = file[v] \o auxbuf[v]
  BY <1>1, <1>9 DEF Logs, Pending
<1>15. Grows
  <2> SUFFICES ASSUME NEW w \in Volume
               PROVE  /\ Begins(Logs[w], Logs'[w]) /\ Quiet(file[w], file'[w])
                      /\ synced[w] <= synced'[w] /\ auxEnd[w] <= auxEnd'[w]
                      /\ inherited'[w] = inherited[w]
    BY DEF Grows
  <2>1. synced[w] <= synced'[w]
    BY <1>1 DEF Shape, TypeOK
  <2>2. CASE w = v
    BY <1>4, <1>9, <1>10, <1>14, <2>1, <2>2
  <2>3. CASE w # v
    <3>1. Logs'[w] = Logs[w] /\ file'[w] = file[w]
      BY <1>1, <1>9, <2>3 DEF Logs, Pending
    <3> QED  BY <1>10, <2>1, <3>1, LogFacts, BeginsItself DEF Shape, Quiet
  <2> QED  BY <2>2, <2>3
<1> QED  BY <1>1, <1>4, <1>6, <1>9, <1>11, <1>12, <1>13, <1>14, <1>15 DEF Shape, rec

LEMMA MoveToTipWrites ==
  ASSUME TypeOK, NEW r \in Record, MoveToTip(r)
  PROVE  \E val \in Value : /\ Write(r, val) /\ IsAt(entry[r], "DATA")
                            /\ val = RecordAt(entry[r]).val
<1>1. IsAt(entry[r], "DATA") /\ Write(r, RecordAt(entry[r]).val) /\ entry[r][1] \in Volume
  BY Locators DEF MoveToTip, TypeOK
<1>2. RecordAt(entry[r]).val \in Value
  BY <1>1, StoredRecord, RecordParts DEF IsAt
<1> QED  BY <1>1, <1>2

\* What set_tip, attach and rewind do to the files and buffers, nb being what is
\* in the output buffer of a new tip.
LEMMA SwitchTipFacts ==
  ASSUME Shape, Idle, NEW v \in Volume, NEW nb \in Seq(RecordType), SwitchTip(v),
         inherited' = inherited, outbuf' = IF v = tip THEN outbuf ELSE nb
  PROVE  /\ Grows /\ tip' = v
         /\ file' \in [Volume -> Seq(RecordType)] /\ auxbuf' \in [Volume -> Seq(RecordType)]
         /\ synced' \in [Volume -> Nat] /\ auxEnd' \in [Volume -> Nat]
         /\ inherited' \in [Volume -> Nat]
         /\ safeHint' \in [Volume -> Locator]
         /\ \A w \in Volume :
              /\ synced'[w] <= Len(file'[w]) /\ auxEnd'[w] <= Len(file'[w])
              /\ inherited'[w] <= Len(file'[w])
              /\ Len(auxbuf'[w]) <= OutBufSize /\ NoCommits(auxbuf'[w])
              /\ file[w] # <<>> => file'[w] # <<>>
              /\ w = tip /\ outbuf # <<>> => v = tip \/ file'[w] # <<>>
              /\ w = tip /\ v # tip => synced'[w] = Len(file'[w])
              /\ w # tip => file'[w] = file[w] \/ Len(file'[w]) <= auxEnd'[w]
              /\ safeHint'[w] \in {hint[w], safeHint[w]}
<1>1. tip' = v /\ tip \in Volume /\ NoCommits(outbuf) /\ outbuf \in Seq(RecordType)
  BY DEF SwitchTip, Shape, TypeOK, Buffers
<1>2. \A w \in Volume :
         /\ file[w] \in Seq(RecordType) /\ auxbuf[w] \in Seq(RecordType)
         /\ synced[w] \in Nat /\ auxEnd[w] \in Nat
         /\ inherited[w] \in Nat /\ Len(file[w]) \in Nat
         /\ synced[w] <= Len(file[w]) /\ auxEnd[w] <= Len(file[w])
         /\ inherited[w] <= Len(file[w])
         /\ Len(auxbuf[w]) <= OutBufSize /\ NoCommits(auxbuf[w])
  BY LenProperties DEF Shape, TypeOK, Buffers
<1>3. CASE v = tip
  <2>1. UNCHANGED <<file, tip, outbuf, auxbuf, synced, auxEnd, inherited, safeHint>>
    BY <1>1, <1>3 DEF SwitchTip
  <2> QED  BY <1>1, <1>2, <1>3, <2>1, GrowsAlone DEF Shape, TypeOK
<1>4. CASE v # tip
  <2> DEFINE spill(w) == auxbuf[v] # <<>> /\ w # tip
             log(w) == IF w = tip THEN Flushed(file[w], outbuf)
                       ELSE IF spill(w) THEN Flushed(file[w], auxbuf[w]) ELSE file[w]
  <2>1. /\ file' = [w \in Volume |-> log(w)]
        /\ synced' = [synced EXCEPT ![tip] = Len(log(tip))]
        /\ safeHint' = [safeHint EXCEPT ![tip] = hint[tip]]
        /\ auxbuf' = [w \in Volume |-> IF spill(w) THEN <<>> ELSE auxbuf[w]]
        /\ auxEnd' = [w \in Volume |->
             IF spill(w) /\ auxbuf[w] # <<>> THEN Len(log(w)) ELSE auxEnd[w]]
    BY <1>4 DEF SwitchTip
  <2>2. ASSUME NEW w \in Volume
        PROVE  /\ log(w) \in Seq(RecordType) /\ Quiet(file[w], log(w))
               /\ Len(file[w]) <= Len(log(w)) /\ Len(log(w)) \in Nat
               /\ file[w] # <<>> => log(w) # <<>>
               /\ w = tip /\ outbuf # <<>> => log(w) # <<>>
               /\ w # tip /\ (~spill(w) \/ auxbuf[w] = <<>>) => log(w) = file[w]
               /\ w = tip => Begins(file[w] \o outbuf, log(w))
               /\ spill(w) => Begins(file[w] \o auxbuf[w], log(w))
    <3>1. /\ log(w) \in Seq(RecordType) /\ Quiet(file[w], log(w))
          /\ file[w] # <<>> => log(w) # <<>>
          /\ w = tip /\ outbuf # <<>> => log(w) # <<>>
      BY <1>1, <1>2, FlushedFacts, FlushedQuiet, BeginsItself DEF Quiet
    <3>2. /\ w = tip => Begins(file[w] \o outbuf, log(w))
          /\ spill(w) => Begins(file[w] \o auxbuf[w], log(w))
      BY <1>1, <1>2, FlushedFacts
    <3>4. w # tip /\ (~spill(w) \/ auxbuf[w] = <<>>) => log(w) = file[w]
      BY DEF Flushed
    <3>3. Len(file[w]) <= Len(log(w)) /\ Len(log(w)) \in Nat
      BY <3>1, LenProperties DEF Quiet, Begins
    <3> QED  BY <3>1, <3>2, <3>3, <3>4
  <2>3. \A w \in Volume :
          /\ file'[w] = log(w)
          /\ auxbuf'[w] = IF spill(w) THEN <<>> ELSE auxbuf[w]
          /\ auxEnd'[w] = IF spill(w) /\ auxbuf[w] # <<>> THEN Len(log(w)) ELSE auxEnd[w]
          /\ synced'[w] = IF w = tip THEN Len(log(w)) ELSE synced[w]
          /\ safeHint'[w] = IF w = tip THEN hint[w] ELSE safeHint[w]
    BY <1>1, <2>1 DEF Shape, TypeOK
  <2> HIDE DEF log
  <2>4. /\ file' \in [Volume -> Seq(RecordType)] /\ auxbuf' \in [Volume -> Seq(RecordType)]
        /\ synced' \in [Volume -> Nat] /\ auxEnd' \in [Volume -> Nat]
        /\ inherited' \in [Volume -> Nat]
        /\ safeHint' \in [Volume -> Locator]
    <3>1. <<>> \in Seq(RecordType)
      BY EmptySeq
    <3> QED  BY <1>1, <1>2, <2>1, <2>2, <3>1 DEF Shape, TypeOK
  <2>5. ASSUME NEW w \in Volume
        PROVE  /\ synced'[w] <= Len(file'[w]) /\ auxEnd'[w] <= Len(file'[w])
               /\ inherited'[w] <= Len(file'[w])
               /\ synced[w] <= synced'[w] /\ auxEnd[w] <= auxEnd'[w]
               /\ inherited'[w] = inherited[w]
               /\ Len(auxbuf'[w]) <= OutBufSize /\ NoCommits(auxbuf'[w])
               /\ w # tip => file'[w] = file[w] \/ Len(file'[w]) <= auxEnd'[w]
    <3>1. Len(<<>>) = 0 /\ NoCommits(<<>>) /\ 0 <= OutBufSize
      BY LogStoreAssumption DEF NoCommits
    <3> QED  BY <1>2, <2>2, <2>3, <3>1, SMTT(30)
  <2>6. ASSUME NEW w \in Volume  PROVE Begins(Logs[w], Logs'[w])
    <3>1. Logs[w] = file[w] \o (IF w = tip THEN outbuf ELSE auxbuf[w])
          /\ Logs'[w] = log(w) \o (IF w = v THEN nb ELSE auxbuf'[w])
      BY <1>1, <1>4, <2>3 DEF Logs, Pending
    <3>2. auxbuf'[w] \in Seq(RecordType) /\ Logs[w] \in Seq(RecordType)
          /\ Logs'[w] \in Seq(RecordType)
      BY <1>1, <1>2, <2>2, <2>4, <3>1, ConcatProperties
    <3>3. CASE w = tip \/ spill(w)
      <4>1. Begins(Logs[w], log(w))
        BY <2>2, <3>1, <3>3
      <4>2. Begins(log(w), Logs'[w])
        BY <2>2, <3>1, <3>2, BeginsConcat
      <4> QED  BY <2>2, <3>2, <4>1, <4>2, BeginsFurther
    <3>4. CASE w # tip /\ ~spill(w)
      <4>1. log(w) = file[w] /\ auxbuf'[w] = auxbuf[w] /\ (w = v => auxbuf[w] = <<>>)
        BY <2>2, <2>3, <3>4
      <4>2. CASE w = v
        <5>1. file[w] \o <<>> = file[w]
          BY <1>2
        <5>2. Logs[w] = file[w]
          BY <3>1, <3>4, <4>1, <4>2, <5>1
        <5>3. Logs'[w] = file[w] \o nb
          BY <3>1, <4>1, <4>2
        <5> QED  BY <1>2, <5>2, <5>3, BeginsConcat
      <4>3. CASE w # v
        BY <3>1, <3>2, <3>4, <4>1, <4>3, BeginsItself
      <4> QED  BY <4>2, <4>3
    <3> QED  BY <3>3, <3>4
  <2>7. Grows
    BY <2>2, <2>3, <2>5, <2>6 DEF Grows
  <2> QED  BY <1>1, <1>4, <2>2, <2>3, <2>4, <2>5, <2>7
<1> QED  BY <1>3, <1>4

LEMMA SetTipShape ==
  ASSUME Shape, NEW v \in Volume, SetTip(v)
  PROVE  Shape' /\ Grows
<1> DEFINE nb == <<>>
<1>1. /\ Idle /\ v \in attached /\ v # tip /\ SwitchTip(v) /\ outbuf' = nb
      /\ UNCHANGED <<hint, attached, entry, lineAt, known, cr, step, detaching, bookmark,
                     stable, offered, past, view, era, inherited, crashes>>
      /\ ops' = ops + 1
  BY DEF SetTip, index, promises
<1>2. nb \in Seq(RecordType) /\ Len(nb) = 0 /\ NoCommits(nb) /\ 0 <= OutBufSize
  BY EmptySeq, LogStoreAssumption DEF NoCommits
<1> HIDE DEF nb
<1>3. /\ Grows /\ tip' = v
      /\ file' \in [Volume -> Seq(RecordType)] /\ auxbuf' \in [Volume -> Seq(RecordType)]
      /\ synced' \in [Volume -> Nat] /\ auxEnd' \in [Volume -> Nat]
      /\ inherited' \in [Volume -> Nat]
      /\ safeHint' \in [Volume -> Locator]
      /\ \A w \in Volume :
           /\ synced'[w] <= Len(file'[w]) /\ auxEnd'[w] <= Len(file'[w])
           /\ inherited'[w] <= Len(file'[w])
           /\ Len(auxbuf'[w]) <= OutBufSize /\ NoCommits(auxbuf'[w])
           /\ file[w] # <<>> => file'[w] # <<>>
           /\ w = tip /\ outbuf # <<>> => file'[w] # <<>>
  BY <1>1, <1>2, SwitchTipFacts
<1>4. TypeOK'
  <2>1. outbuf' \in Seq(RecordType) /\ Len(outbuf') <= OutBufSize
    BY <1>1, <1>2
  <2>2. /\ hint' \in [Volume -> Locator] /\ attached' \subseteq Volume
        /\ detaching' \subseteq Volume /\ tip' \in Volume
        /\ entry' \in [Record -> Locator] /\ lineAt' \in [Line -> Locator]
        /\ known' \subseteq Line /\ cr' \in CommitRecordType
        /\ step' \in {"idle", "detach", "header", "flush", "aux", "record", "sync", "down"}
        /\ bookmark' \in BOOLEAN /\ view' \in Snapshot /\ stable' \in Snapshot
        /\ offered' \subseteq Snapshot /\ past' \subseteq Snapshot
        /\ era' \in Nat /\ ops' \in Nat /\ crashes' \in Nat
    BY <1>1, <1>3 DEF Shape, TypeOK
  <2> QED  BY <1>3, <2>1, <2>2 DEF TypeOK
<1>5. Buffers'
  BY <1>1, <1>2, <1>3 DEF Shape, Buffers, Idle
<1>6. Opened'
  BY <1>1, <1>3 DEF Shape, TypeOK, Opened, Idle, Up
<1> QED  BY <1>3, <1>4, <1>5, <1>6 DEF Shape

LEMMA AttachShape ==
  ASSUME Shape, NEW v \in Volume, Attach(v)
  PROVE  Shape' /\ Grows
<1> DEFINE nb == <<Header>>
<1>1. /\ Idle /\ v \notin attached /\ SwitchTip(v) /\ outbuf' = nb
      /\ attached' = attached \cup {v}
      /\ UNCHANGED <<hint, entry, lineAt, known, cr, step, detaching, bookmark,
                     stable, offered, past, view, era, inherited, ops, crashes>>
  BY DEF Attach, index, promises
<1>2. nb \in Seq(RecordType) /\ Len(nb) = 1 /\ NoCommits(nb) /\ 1 <= OutBufSize /\ nb # <<>>
  <2>1. Len(nb) = 1 /\ nb[1] = Header
    OBVIOUS
  <2>2. \A i \in 1 .. 1 : i = 1
    OBVIOUS
  <2>3. NoCommits(nb)
    BY <2>1, <2>2, RecordsMade DEF NoCommits
  <2>4. nb \in Seq(RecordType) /\ nb # <<>>
    BY RecordsMade
  <2> QED  BY <2>1, <2>3, <2>4, LogStoreAssumption
<1> HIDE DEF nb
<1>3. v # tip
  BY <1>1 DEF Shape, Opened, Up, Idle
<1>4. /\ Grows /\ tip' = v
      /\ file' \in [Volume -> Seq(RecordType)] /\ auxbuf' \in [Volume -> Seq(RecordType)]
      /\ synced' \in [Volume -> Nat] /\ auxEnd' \in [Volume -> Nat]
      /\ inherited' \in [Volume -> Nat]
      /\ safeHint' \in [Volume -> Locator]
      /\ \A w \in Volume :
           /\ synced'[w] <= Len(file'[w]) /\ auxEnd'[w] <= Len(file'[w])
           /\ inherited'[w] <= Len(file'[w])
           /\ Len(auxbuf'[w]) <= OutBufSize /\ NoCommits(auxbuf'[w])
           /\ file[w] # <<>> => file'[w] # <<>>
           /\ w = tip /\ outbuf # <<>> => file'[w] # <<>>
  BY <1>1, <1>2, <1>3, SwitchTipFacts
<1>5. TypeOK'
  <2>1. outbuf' \in Seq(RecordType) /\ Len(outbuf') <= OutBufSize
    BY <1>1, <1>2
  <2>2. /\ hint' \in [Volume -> Locator] /\ attached' \subseteq Volume
        /\ detaching' \subseteq Volume /\ tip' \in Volume
        /\ entry' \in [Record -> Locator] /\ lineAt' \in [Line -> Locator]
        /\ known' \subseteq Line /\ cr' \in CommitRecordType
        /\ step' \in {"idle", "detach", "header", "flush", "aux", "record", "sync", "down"}
        /\ bookmark' \in BOOLEAN /\ view' \in Snapshot /\ stable' \in Snapshot
        /\ offered' \subseteq Snapshot /\ past' \subseteq Snapshot
        /\ era' \in Nat /\ ops' \in Nat /\ crashes' \in Nat
    BY <1>1, <1>4 DEF Shape, TypeOK
  <2> QED  BY <1>4, <2>1, <2>2 DEF TypeOK
<1>6. Buffers'
  BY <1>1, <1>2, <1>4 DEF Shape, Buffers, Idle
<1>7. Opened'
  BY <1>1, <1>2, <1>4 DEF Shape, TypeOK, Opened, Idle, Up
<1> QED  BY <1>4, <1>5, <1>6, <1>7 DEF Shape

LEMMA LoadTypes ==
  ASSUME TypeOK, NEW c \in CommitRecordType, Loadable(c), Load(c)
  PROVE  /\ entry' \in [Record -> Locator] /\ lineAt' \in [Line -> Locator]
         /\ known' \subseteq Line /\ cr' \in CommitRecordType
  BY LoadedTypes, Locators DEF Load

LEMMA RewindShape ==
  ASSUME Shape, NEW at, Rewind(at)
  PROVE  Shape' /\ Grows
<1> DEFINE v == at[1]
           rec == RecordAt(at)
           nb == <<>>
<1>1. /\ Idle /\ SwitchTip(v) /\ outbuf' = IF v = tip THEN outbuf ELSE nb
      /\ v \in attached /\ IsAt(at, "COMM") /\ Loadable(rec.cr) /\ Load(rec.cr)
      /\ view' = rec.left /\ ops' = ops + 1
      /\ UNCHANGED <<hint, attached, step, detaching, bookmark, stable, offered, past,
                     era, inherited, crashes>>
  BY DEF Rewind, promises, CommitAt
<1>2. nb \in Seq(RecordType) /\ Len(nb) = 0 /\ NoCommits(nb) /\ 0 <= OutBufSize
  BY EmptySeq, LogStoreAssumption DEF NoCommits
<1>3. v \in Volume /\ rec.cr \in CommitRecordType /\ rec.left \in Snapshot
  <2>1. v \in Volume
    BY <1>1 DEF Shape, TypeOK
  <2>2. rec \in RecordType /\ rec.kind = "COMM"
    BY <1>1, <2>1, StoredRecord DEF Shape, IsAt
  <2> QED  BY <2>1, <2>2, RecordParts
<1> HIDE DEF v, rec, nb
<1>4. /\ Grows /\ tip' = v
      /\ file' \in [Volume -> Seq(RecordType)] /\ auxbuf' \in [Volume -> Seq(RecordType)]
      /\ synced' \in [Volume -> Nat] /\ auxEnd' \in [Volume -> Nat]
      /\ inherited' \in [Volume -> Nat]
      /\ safeHint' \in [Volume -> Locator]
      /\ \A w \in Volume :
           /\ synced'[w] <= Len(file'[w]) /\ auxEnd'[w] <= Len(file'[w])
           /\ inherited'[w] <= Len(file'[w])
           /\ Len(auxbuf'[w]) <= OutBufSize /\ NoCommits(auxbuf'[w])
           /\ file[w] # <<>> => file'[w] # <<>>
           /\ w = tip /\ outbuf # <<>> => v = tip \/ file'[w] # <<>>
  BY <1>1, <1>2, <1>3, SwitchTipFacts
<1>5. /\ entry' \in [Record -> Locator] /\ lineAt' \in [Line -> Locator]
      /\ known' \subseteq Line /\ cr' \in CommitRecordType
  BY <1>1, <1>3, LoadTypes DEF Shape
<1>6. TypeOK'
  <2>1. outbuf' \in Seq(RecordType) /\ Len(outbuf') <= OutBufSize
    BY <1>1, <1>2 DEF Shape, TypeOK
  <2>2. /\ hint' \in [Volume -> Locator] /\ attached' \subseteq Volume
        /\ detaching' \subseteq Volume /\ tip' \in Volume
        /\ step' \in {"idle", "detach", "header", "flush", "aux", "record", "sync", "down"}
        /\ bookmark' \in BOOLEAN /\ view' \in Snapshot /\ stable' \in Snapshot
        /\ offered' \subseteq Snapshot /\ past' \subseteq Snapshot
        /\ era' \in Nat /\ ops' \in Nat /\ crashes' \in Nat
    BY <1>1, <1>3, <1>4 DEF Shape, TypeOK
  <2> QED  BY <1>4, <1>5, <2>1, <2>2 DEF TypeOK
<1>7. Buffers'
  BY <1>1, <1>2, <1>4 DEF Shape, Buffers, Idle
<1>8. Opened'
  BY <1>1, <1>2, <1>4 DEF Shape, TypeOK, Opened, Idle, Up
<1> QED  BY <1>4, <1>6, <1>7, <1>8 DEF Shape

-----------------------------------------------------------------------------
(* The index that a commit writes                                          *)

IndexSize == Cardinality(Dirty)
IndexOrder ==
  CHOOSE o \in [1 .. IndexSize -> Dirty] :
    \A i, j \in 1 .. IndexSize : o[i] = o[j] => i = j
IndexTop == Len(file[tip]) + Len(outbuf)
IndexPlace(l) == CHOOSE i \in 1 .. IndexSize : IndexOrder[i] = l
IndexAt ==
  [l \in Line |-> IF l \in Dirty THEN <<tip, IndexTop + IndexPlace(l)>> ELSE lineAt[l]]
IndexLines == [i \in 1 .. IndexSize |-> IndexLine(IndexOrder[i])]
IndexRecords == IndexLines \o <<MasterIndex(IndexAt, known)>>

\* Each dirty line has a place of its own in what is written.
LEMMA IndexOrderFacts ==
  ASSUME TypeOK
  PROVE  /\ IndexSize \in Nat /\ IndexOrder \in [1 .. IndexSize -> Dirty]
         /\ Dirty \subseteq Line
         /\ \A l \in Dirty : /\ IndexPlace(l) \in 1 .. IndexSize
                             /\ IndexOrder[IndexPlace(l)] = l
<1>1. Dirty \subseteq Line
  BY DEF Dirty, TypeOK
<1>2. IsFiniteSet(Dirty)
  BY <1>1, FS_Subset, LogStoreAssumption
<1>3. IndexSize \in Nat /\ ExistsBijection(1 .. IndexSize, Dirty)
  BY <1>2, FS_CardinalityType DEF IndexSize
<1> DEFINE n == IndexSize
           IsOrder(o) == \A i, j \in 1 .. n : o[i] = o[j] => i = j
<1>4. PICK o \in [1 .. n -> Dirty] : IsOrder(o)
  <2>1. PICK o \in Bijection(1 .. n, Dirty) : TRUE
    BY <1>3 DEF ExistsBijection
  <2>2. o \in [1 .. n -> Dirty] /\ IsOrder(o)
    BY <2>1 DEF Bijection, Injection, IsInjective
  <2> QED  BY <2>2
<1>5. IndexOrder \in [1 .. n -> Dirty] /\ IsOrder(IndexOrder)
  BY <1>4 DEF IndexOrder
<1>6. IndexOrder \in Injection(1 .. n, Dirty)
  BY <1>5 DEF Injection, IsInjective
<1>7. Cardinality(1 .. n) = n
  BY <1>3, FS_Interval
<1>8. IndexOrder \in Surjection(1 .. n, Dirty)
  BY <1>2, <1>6, <1>7, FS_Injection DEF IndexSize
<1>9. \A l \in Dirty : \E i \in 1 .. n : IndexOrder[i] = l
  BY <1>8 DEF Surjection
<1>10. \A l \in Dirty : IndexPlace(l) \in 1 .. n /\ IndexOrder[IndexPlace(l)] = l
  BY <1>9 DEF IndexPlace
<1> QED  BY <1>1, <1>3, <1>5, <1>10

LEMMA IndexRecordsFacts ==
  ASSUME TypeOK
  PROVE  /\ IndexAt \in [Line -> Locator]
         /\ IndexRecords \in Seq(RecordType) /\ NoCommits(IndexRecords)
         /\ Len(IndexRecords) = IndexSize + 1 /\ IndexSize \in Nat
         /\ \A i \in 1 .. IndexSize : IndexRecords[i] = IndexLine(IndexOrder[i])
         /\ IndexRecords[IndexSize + 1] = MasterIndex(IndexAt, known)
<1>1. IndexTop \in Nat /\ tip \in Volume
  BY LenProperties DEF IndexTop, TypeOK
<1>2. IndexAt \in [Line -> Locator]
  <2>1. ASSUME NEW l \in Line  PROVE IndexAt[l] \in Locator
    <3>1. CASE l \in Dirty
      <4>1. IndexPlace(l) \in Nat
        BY <3>1, IndexOrderFacts
      <4>2. IndexTop + IndexPlace(l) \in Nat
        BY <1>1, <4>1
      <4> QED  BY <1>1, <3>1, <4>2, Locators DEF IndexAt
    <3>2. CASE l \notin Dirty
      BY <3>2 DEF IndexAt, TypeOK
    <3> QED  BY <3>1, <3>2
  <2> QED  BY <2>1 DEF IndexAt
<1> DEFINE master == MasterIndex(IndexAt, known)
<1>3. master \in RecordType /\ master.kind = "MIDX"
  BY <1>2 DEF MasterIndex, RecordType, TypeOK
<1>4. IndexSize \in Nat
  BY IndexOrderFacts
<1>5. \A i \in 1 .. IndexSize : /\ IndexLine(IndexOrder[i]) \in RecordType
                               /\ IndexLine(IndexOrder[i]).kind = "INDX"
  <2> TAKE i \in 1 .. IndexSize
  <2>1. IndexOrder[i] \in Line
    BY IndexOrderFacts
  <2> QED  BY <2>1, RecordsMade DEF TypeOK
<1>6. /\ IndexLines \in Seq(RecordType) /\ Len(IndexLines) = IndexSize
      /\ \A i \in 1 .. IndexSize : IndexLines[i] = IndexLine(IndexOrder[i])
  <2>1. IndexLines \in Seq(RecordType)
    BY <1>4, <1>5, IsASeq DEF IndexLines
  <2>2. DOMAIN IndexLines = 1 .. IndexSize
    BY DEF IndexLines
  <2>3. Len(IndexLines) = IndexSize
    BY <1>4, <2>1, <2>2, LenProperties
  <2> QED  BY <2>1, <2>3 DEF IndexLines
<1> HIDE DEF master
<1>7. /\ IndexRecords \in Seq(RecordType) /\ Len(IndexRecords) = IndexSize + 1
      /\ IndexRecords[IndexSize + 1] = master
  BY <1>3, <1>6, OneMore DEF IndexRecords, master
<1>8. ASSUME NEW i \in 1 .. IndexSize
      PROVE  IndexRecords[i] = IndexLine(IndexOrder[i])
  <2>1. <<master>> \in Seq(RecordType) /\ Len(<<master>>) = 1
    BY <1>3
  <2>2. Begins(IndexLines, IndexLines \o <<master>>)
    BY <1>6, <2>1, BeginsConcat
  <2> QED  BY <1>6, <2>2 DEF IndexRecords, master, Begins
<1>9. NoCommits(IndexRecords)
  <2> SUFFICES ASSUME NEW i \in 1 .. (IndexSize + 1)  PROVE IndexRecords[i].kind # "COMM"
    BY <1>7 DEF NoCommits
  <2>1. CASE i = IndexSize + 1
    BY <1>3, <1>7, <2>1
  <2>2. CASE i # IndexSize + 1
    <3>1. i \in 1 .. IndexSize
      BY <1>4, <2>2
    <3> QED  BY <1>5, <1>8, <3>1
  <2> QED  BY <2>1, <2>2
<1> QED  BY <1>2, <1>4, <1>7, <1>8, <1>9 DEF master

\* What is in the output buffer when the index has been written.
IndexBuf == IF cr.mix # Nowhere THEN outbuf ELSE outbuf \o IndexRecords

LEMMA IndexBufFacts ==
  ASSUME Shape, NEW flag, WriteIndex(flag), Up
  PROVE  /\ IndexBuf \in Seq(RecordType) /\ NoCommits(IndexBuf)
         /\ Begins(outbuf, IndexBuf) /\ (file[tip] = <<>> => IndexBuf # <<>>)
         /\ file' = IF file[tip] = <<>> THEN [file EXCEPT ![tip] = Flushed(@, IndexBuf)]
                    ELSE file
         /\ outbuf' = IF file[tip] = <<>> THEN <<>> ELSE IndexBuf
         /\ lineAt' = IF cr.mix = Nowhere THEN IndexAt ELSE lineAt
         /\ cr' = IF cr.mix # Nowhere THEN [cr EXCEPT !.fuel = @ - CommitFuelCost]
                  ELSE [cr EXCEPT !.fuel = @ - CommitFuelCost, !.diffs = NoDiffs,
                                  !.mix = <<tip, IndexTop + IndexSize + 1>>]
         /\ bookmark' = flag /\ step' = "header"
<1> DEFINE master == <<MasterIndex(IndexAt, known)>>
<1>1. outbuf \in Seq(RecordType) /\ NoCommits(outbuf) /\ tip \in Volume /\ known \in SUBSET Line
      /\ (file[tip] = <<>> => outbuf # <<>>)
  BY DEF Shape, TypeOK, Buffers, Opened
<1>2. IndexRecords \in Seq(RecordType) /\ NoCommits(IndexRecords)
  BY IndexRecordsFacts DEF Shape
<1>3. IndexLines \in Seq(RecordType) /\ master \in Seq(RecordType)
  <2>1. master \in Seq(RecordType)
    BY <1>1, IndexRecordsFacts, RecordsMade DEF Shape
  <2>2. \A i \in 1 .. IndexSize : IndexLine(IndexOrder[i]) \in RecordType
    <3> TAKE i \in 1 .. IndexSize
    <3>1. IndexOrder[i] \in Line
      BY IndexOrderFacts DEF Shape
    <3> QED  BY <3>1, RecordsMade DEF Shape, TypeOK
  <2>3. IndexLines \in Seq(RecordType)
    BY <2>2, IndexOrderFacts, IsASeq DEF IndexLines, Shape
  <2> QED  BY <2>1, <2>3
<1>4. (outbuf \o IndexLines) \o master = outbuf \o IndexRecords
  BY <1>1, <1>3, ConcatAssociative DEF IndexRecords
<1>5. /\ outbuf \o IndexRecords \in Seq(RecordType)
      /\ Len(outbuf \o IndexRecords) = Len(outbuf) + Len(IndexRecords)
      /\ Begins(outbuf, outbuf \o IndexRecords)
      /\ Len(outbuf) \in Nat /\ Len(IndexRecords) \in Nat
  BY <1>1, <1>2, ConcatProperties, BeginsConcat, LenProperties
<1>6. NoCommits(outbuf \o IndexRecords)
  <2> SUFFICES ASSUME NEW i \in 1 .. (Len(outbuf) + Len(IndexRecords))
               PROVE  (outbuf \o IndexRecords)[i].kind # "COMM"
    BY <1>5 DEF NoCommits
  <2>1. (outbuf \o IndexRecords)[i]
          = IF i <= Len(outbuf) THEN outbuf[i] ELSE IndexRecords[i - Len(outbuf)]
    BY <1>1, <1>2, ConcatProperties
  <2>2. i <= Len(outbuf) => i \in 1 .. Len(outbuf)
    BY <1>5
  <2>3. ~(i <= Len(outbuf)) => i - Len(outbuf) \in 1 .. Len(IndexRecords)
    BY <1>5
  <2> QED  BY <1>1, <1>2, <2>1, <2>2, <2>3 DEF NoCommits
<1>7. outbuf # <<>> => outbuf \o IndexRecords # <<>>
  <2> SUFFICES ASSUME outbuf # <<>>, outbuf \o IndexRecords = <<>>  PROVE FALSE
    OBVIOUS
  <2>1. Len(outbuf) # 0
    BY <1>1, EmptySeq
  <2>2. Len(outbuf \o IndexRecords) = 0
    BY EmptySeq
  <2> QED  BY <1>5, <2>1, <2>2
<1>8. /\ IndexBuf \in Seq(RecordType) /\ NoCommits(IndexBuf)
      /\ Begins(outbuf, IndexBuf) /\ (file[tip] = <<>> => IndexBuf # <<>>)
  BY <1>1, <1>5, <1>6, <1>7, BeginsItself DEF IndexBuf
<1>9. /\ file' = IF file[tip] = <<>> THEN [file EXCEPT ![tip] = Flushed(@, IndexBuf)]
                 ELSE file
      /\ outbuf' = IF file[tip] = <<>> THEN <<>> ELSE IndexBuf
  <2>1. IndexBuf = IF cr.mix # Nowhere THEN outbuf ELSE outbuf \o IndexLines \o master
    BY <1>4 DEF IndexBuf
  <2> QED  BY <2>1 DEF WriteIndex, IndexSize, IndexOrder, IndexTop, IndexPlace, IndexAt,
                       IndexLines
<1>10. /\ lineAt' = IF cr.mix = Nowhere THEN IndexAt ELSE lineAt
       /\ cr' = IF cr.mix # Nowhere THEN [cr EXCEPT !.fuel = @ - CommitFuelCost]
                ELSE [cr EXCEPT !.fuel = @ - CommitFuelCost, !.diffs = NoDiffs,
                                !.mix = <<tip, IndexTop + IndexSize + 1>>]
       /\ bookmark' = flag /\ step' = "header"
  BY DEF WriteIndex, IndexSize, IndexOrder, IndexTop, IndexPlace, IndexAt
<1> QED  BY <1>8, <1>9, <1>10

-----------------------------------------------------------------------------
(* The types of the variables: the steps of a commit                       *)

LEMMA Shifted ==
  ASSUME NEW a \in Nat, NEW b \in Nat, NEW n \in Nat, NEW i \in 1 .. n
  PROVE  /\ b + i \in 1 .. (b + n) /\ ~(b + i <= b) /\ b + i - b = i
         /\ a + b + i \in 1 .. (a + (b + n)) /\ ~(a + b + i <= a)
         /\ a + b + i - a = b + i /\ a + b + i \in Nat
  OBVIOUS

LEMMA BeginCommitShape ==
  ASSUME Shape, NEW flag \in BOOLEAN, BeginCommit(flag)
  PROVE  /\ Shape' /\ Grows
         /\ cr.mix = Nowhere =>
              \A i \in 1 .. (IndexSize + 1) :
                /\ IndexTop + i \in 1 .. Len(Logs'[tip]) /\ IndexTop + i \in Nat
                /\ Logs'[tip][IndexTop + i] = IndexRecords[i]
<1> DEFINE f == file[tip]
           log == IF f = <<>> THEN Flushed(f, IndexBuf) ELSE f
           buf == IF f = <<>> THEN <<>> ELSE IndexBuf
<1>1. /\ WriteIndex(flag) /\ step \in {"idle", "detach"} /\ Up
      /\ UNCHANGED <<hint, synced, safeHint, attached, tip, auxbuf, entry, known,
                     detaching, stable, offered, past, view, era, auxEnd, inherited,
                     ops, crashes>>
  BY DEF BeginCommit, Idle, Up, history, promises
<1>2. /\ f \in Seq(RecordType) /\ outbuf \in Seq(RecordType)
      /\ tip \in Volume /\ Len(f) \in Nat /\ Len(outbuf) \in Nat
      /\ f = file[tip] /\ IndexTop = Len(f) + Len(outbuf)
  BY <1>1, LenProperties DEF Shape, TypeOK, IndexTop
<1> HIDE DEF f
<1>3. /\ IndexBuf \in Seq(RecordType) /\ NoCommits(IndexBuf)
      /\ Begins(outbuf, IndexBuf) /\ (f = <<>> => IndexBuf # <<>>)
      /\ outbuf' = buf
      /\ lineAt' = IF cr.mix = Nowhere THEN IndexAt ELSE lineAt
      /\ cr' = IF cr.mix # Nowhere THEN [cr EXCEPT !.fuel = @ - CommitFuelCost]
               ELSE [cr EXCEPT !.fuel = @ - CommitFuelCost, !.diffs = NoDiffs,
                               !.mix = <<tip, IndexTop + IndexSize + 1>>]
      /\ bookmark' = flag /\ step' = "header"
  BY <1>1, <1>2, IndexBufFacts
<1>4. file' = [file EXCEPT ![tip] = log]
  <2>1. file' = IF f = <<>> THEN [file EXCEPT ![tip] = Flushed(@, IndexBuf)] ELSE file
    BY <1>1, <1>2, IndexBufFacts
  <2> QED  BY <1>2, <2>1 DEF Shape, TypeOK
<1>5. /\ log \in Seq(RecordType) /\ log # <<>> /\ Quiet(f, log)
      /\ buf \in Seq(RecordType) /\ NoCommits(buf)
  <2>1. NoCommits(<<>>) /\ <<>> \in Seq(RecordType)
    BY EmptySeq DEF NoCommits
  <2> QED  BY <1>2, <1>3, <2>1, FlushedFacts, FlushedQuiet, BeginsItself DEF Quiet
<1>6. Begins(f \o IndexBuf, log \o buf)
  <2>1. f \o IndexBuf \in Seq(RecordType)
    BY <1>2, <1>3, ConcatProperties
  <2>2. CASE f = <<>>
    <3>1. log \o buf = log
      BY <1>5, <2>2
    <3>2. log = Flushed(f, IndexBuf)
      BY <2>2
    <3>3. Begins(f \o IndexBuf, Flushed(f, IndexBuf))
      BY <1>2, <1>3, FlushedFacts
    <3> QED  BY <3>1, <3>2, <3>3
  <2>3. CASE f # <<>>
    BY <2>1, <2>3, BeginsItself
  <2> QED  BY <2>2, <2>3
<1>7. Begins(f \o outbuf, log \o buf)
  <2>1. Begins(f \o outbuf, f \o IndexBuf)
    BY <1>2, <1>3, BeginsConcatMore
  <2>2. /\ f \o outbuf \in Seq(RecordType) /\ f \o IndexBuf \in Seq(RecordType)
        /\ log \o buf \in Seq(RecordType)
    BY <1>2, <1>3, <1>5, ConcatProperties
  <2> QED  BY <1>6, <2>1, <2>2, BeginsFurther
<1>8. Len(f) <= Len(log) /\ Len(log) \in Nat
  BY <1>5, LenProperties DEF Quiet, Begins
<1> HIDE DEF log, buf
<1>9. /\ file' \in [Volume -> Seq(RecordType)] /\ file'[tip] = log
      /\ \A v \in Volume : v # tip => file'[v] = file[v]
  BY <1>2, <1>4, <1>5 DEF Shape, TypeOK
<1>10. lineAt' \in [Line -> Locator] /\ cr' \in CommitRecordType
  <2>1. IndexTop + IndexSize + 1 \in Nat
    BY <1>2, IndexOrderFacts DEF Shape
  <2>2. <<tip, IndexTop + IndexSize + 1>> \in Locator
    BY <1>2, <2>1, Locators
  <2>3. lineAt' \in [Line -> Locator]
    BY <1>3, IndexRecordsFacts DEF Shape, TypeOK
  <2>4. cr \in CommitRecordType /\ CommitFuelCost \in Nat
    BY LogStoreAssumption DEF Shape, TypeOK
  <2>5. NoDiffs \in [Record -> Locator \cup {NoDiff}]
    BY DEF NoDiffs
  <2>6. [cr EXCEPT !.fuel = @ - CommitFuelCost] \in CommitRecordType
    BY <2>4 DEF CommitRecordType
  <2>7. [cr EXCEPT !.fuel = @ - CommitFuelCost, !.diffs = NoDiffs,
                   !.mix = <<tip, IndexTop + IndexSize + 1>>] \in CommitRecordType
    <3> DEFINE mix == <<tip, IndexTop + IndexSize + 1>>
    <3>1. mix \in Locator
      BY <2>2
    <3>2. cr.fuel - CommitFuelCost \in Int
      BY <2>4 DEF CommitRecordType
    <3> HIDE DEF mix
    <3>3. [cr EXCEPT !.fuel = @ - CommitFuelCost, !.diffs = NoDiffs, !.mix = mix]
            \in CommitRecordType
      BY <2>4, <2>5, <3>1, <3>2 DEF CommitRecordType
    <3> QED  BY <3>3 DEF mix
  <2>8. cr' \in CommitRecordType
    BY <1>3, <2>6, <2>7
  <2> QED  BY <2>3, <2>8
<1>11. \A v \in Volume : synced[v] <= Len(file'[v]) /\ auxEnd[v] <= Len(file'[v])
                         /\ inherited[v] <= Len(file'[v])
  <2> TAKE v \in Volume
  <2>1. /\ synced[v] \in Nat /\ auxEnd[v] \in Nat
        /\ inherited[v] \in Nat /\ Len(file[v]) \in Nat
        /\ synced[v] <= Len(file[v]) /\ auxEnd[v] <= Len(file[v])
        /\ inherited[v] <= Len(file[v])
    BY LenProperties DEF Shape, TypeOK
  <2>2. CASE v = tip
    BY <1>2, <1>8, <1>9, <2>1, <2>2
  <2>3. CASE v # tip
    BY <1>9, <2>1, <2>3
  <2> QED  BY <2>2, <2>3
<1>12. TypeOK'
  <2>1. /\ outbuf' \in Seq(RecordType) /\ step' = "header" /\ bookmark' \in BOOLEAN
        /\ \A v \in Volume : /\ synced'[v] <= Len(file'[v]) /\ auxEnd'[v] <= Len(file'[v])
                             /\ inherited'[v] <= Len(file'[v])
                             /\ Len(auxbuf'[v]) <= OutBufSize
    BY <1>1, <1>3, <1>5, <1>11 DEF Shape, TypeOK
  <2> QED  BY <1>1, <1>9, <1>10, <2>1 DEF Shape, TypeOK, Idle
<1>13. Buffers'
  BY <1>1, <1>3, <1>5 DEF Shape, Buffers
<1>14. Opened'
  <2>1. /\ Up' /\ step' = "header" /\ tip' = tip /\ file'[tip] # <<>>
        /\ \A v \in Volume : file[v] # <<>> => file'[v] # <<>>
    BY <1>1, <1>3, <1>5, <1>9 DEF Up
  <2>2. attached' \subseteq Volume
    BY <1>1 DEF Shape, TypeOK
  <2> QED  BY <1>1, <2>1, <2>2 DEF Shape, Opened, Up
<1>15. Logs'[tip] = log \o buf /\ Logs[tip] = f \o outbuf
  BY <1>1, <1>2, <1>3, <1>9 DEF Logs, Pending
<1>16. Grows
  <2> SUFFICES ASSUME NEW v \in Volume
               PROVE  /\ Begins(Logs[v], Logs'[v]) /\ Quiet(file[v], file'[v])
                      /\ synced[v] <= synced'[v] /\ auxEnd[v] <= auxEnd'[v]
                      /\ inherited'[v] = inherited[v]
    BY DEF Grows
  <2>1. synced[v] <= synced'[v] /\ auxEnd[v] <= auxEnd'[v] /\ inherited'[v] = inherited[v]
    BY <1>1 DEF Shape, TypeOK
  <2>2. CASE v = tip
    BY <1>2, <1>5, <1>7, <1>9, <1>15, <2>1, <2>2
  <2>3. CASE v # tip
    <3>1. Logs'[v] = Logs[v] /\ file'[v] = file[v]
      BY <1>1, <1>9, <2>3 DEF Logs, Pending
    <3> QED  BY <2>1, <3>1, LogFacts, BeginsItself DEF Shape, Quiet
  <2> QED  BY <2>2, <2>3
<1>17. ASSUME cr.mix = Nowhere, NEW i \in 1 .. (IndexSize + 1)
       PROVE  /\ IndexTop + i \in 1 .. Len(Logs'[tip]) /\ IndexTop + i \in Nat
              /\ Logs'[tip][IndexTop + i] = IndexRecords[i]
  <2>1. /\ IndexRecords \in Seq(RecordType) /\ Len(IndexRecords) = IndexSize + 1
        /\ IndexSize \in Nat /\ IndexBuf = outbuf \o IndexRecords
    BY <1>17, IndexRecordsFacts DEF Shape, IndexBuf
  <2>2. Len(IndexBuf) = Len(outbuf) + Len(IndexRecords)
    <3>1. Len(outbuf \o IndexRecords) = Len(outbuf) + Len(IndexRecords)
      BY <1>2, <2>1, ConcatProperties
    <3> QED  BY <2>1, <3>1
  <2>3. Len(outbuf) + i \in 1 .. Len(outbuf) + Len(IndexRecords)
        /\ ~(Len(outbuf) + i <= Len(outbuf)) /\ Len(outbuf) + i - Len(outbuf) = i
    BY <1>2, <2>1, Shifted
  <2>4. IndexBuf[Len(outbuf) + i] = IndexRecords[i]
    BY <1>2, <2>1, <2>3, ConcatProperties
  <2>5. Len(f \o IndexBuf) = Len(f) + Len(IndexBuf)
    BY <1>2, <1>3, ConcatProperties
  <2>6. /\ IndexTop + i \in 1 .. Len(f) + Len(IndexBuf) /\ ~(IndexTop + i <= Len(f))
        /\ IndexTop + i - Len(f) = Len(outbuf) + i /\ IndexTop + i \in Nat
    <3>2. i \in 1 .. Len(IndexRecords) /\ Len(IndexRecords) \in Nat
      BY <2>1
    <3>3. Len(f) \in Nat /\ Len(outbuf) \in Nat
      BY <1>2
    <3>1. /\ Len(f) + Len(outbuf) + i \in 1 .. (Len(f) + (Len(outbuf) + Len(IndexRecords)))
          /\ ~(Len(f) + Len(outbuf) + i <= Len(f))
          /\ Len(f) + Len(outbuf) + i - Len(f) = Len(outbuf) + i
          /\ Len(f) + Len(outbuf) + i \in Nat
      BY <3>2, <3>3, Shifted
    <3> QED  BY <1>2, <2>2, <3>1
  <2>7. (f \o IndexBuf)[IndexTop + i] = IndexBuf[Len(outbuf) + i]
    BY <1>2, <1>3, <2>6, ConcatProperties
  <2>8. Len(f \o IndexBuf) <= Len(log \o buf)
        /\ (log \o buf)[IndexTop + i] = (f \o IndexBuf)[IndexTop + i]
    BY <1>6, <2>5, <2>6 DEF Begins
  <2>9. Len(log \o buf) \in Nat /\ Len(f) + Len(IndexBuf) \in Nat
    BY <1>2, <1>3, <1>5, ConcatProperties, LenProperties
  <2> QED  BY <1>15, <2>4, <2>5, <2>6, <2>7, <2>8, <2>9
<1> QED  BY <1>12, <1>13, <1>14, <1>16, <1>17 DEF Shape

LEMMA CommitHeaderShape ==
  ASSUME Shape, CommitHeader
  PROVE  Shape' /\ Grows
<1>1. /\ step = "header" /\ step' = "flush"
      /\ UNCHANGED <<file, synced, safeHint, attached, tip, outbuf, auxbuf, entry, lineAt,
                     known, detaching, bookmark, stable, offered, past, view, era, auxEnd,
                     inherited, ops, crashes>>
      /\ \/ /\ hint' = [hint EXCEPT ![tip] = cr.self]
            /\ cr' = [cr EXCEPT !.fuel = VolumeHeaderFuel]
         \/ hint' = hint /\ cr' = cr
  BY DEF CommitHeader, index, history, promises, LastCommitRecord
<1>2. cr.self \in Locator /\ tip \in Volume /\ VolumeHeaderFuel \in Int
      /\ cr \in CommitRecordType
  BY LogStoreAssumption DEF Shape, TypeOK, CommitRecordType
<1>3. hint' \in [Volume -> Locator] /\ cr' \in CommitRecordType
      /\ \A v \in Volume : v # tip => hint'[v] = hint[v]
  BY <1>1, <1>2 DEF Shape, TypeOK, CommitRecordType
<1>4. TypeOK'
  BY <1>1, <1>3 DEF Shape, TypeOK, Idle
<1>5. Buffers' /\ Opened'
  BY <1>1, <1>3 DEF Shape, Buffers, Opened, Up
<1> QED  BY <1>1, <1>4, <1>5, GrowsAlone DEF Shape

LEMMA CommitFlushShape ==
  ASSUME Shape, CommitFlush
  PROVE  Shape' /\ Grows
<1> DEFINE f == file[tip]
           log == Flushed(f, outbuf)
<1>1. /\ step = "flush" /\ step' = "aux" /\ outbuf' = <<>>
      /\ file' = [file EXCEPT ![tip] = log]
      /\ UNCHANGED <<hint, synced, safeHint, attached, tip, auxbuf, entry, lineAt,
                     known, cr, detaching, bookmark, stable, offered, past, view, era,
                     auxEnd, inherited, ops, crashes>>
  BY DEF CommitFlush, index, history, promises
<1>2. /\ f \in Seq(RecordType) /\ outbuf \in Seq(RecordType) /\ NoCommits(outbuf)
      /\ tip \in Volume /\ Len(f) \in Nat /\ f # <<>>
  BY <1>1, LenProperties DEF Shape, TypeOK, Buffers, Opened
<1>3. /\ log \in Seq(RecordType) /\ Quiet(f, log) /\ log # <<>> /\ Len(log) \in Nat
      /\ Len(f) <= Len(log) /\ Begins(f \o outbuf, log \o <<>>)
  <2>1. log \in Seq(RecordType) /\ Quiet(f, log) /\ log # <<>>
    BY <1>2, FlushedFacts, FlushedQuiet
  <2>2. log \o <<>> = log /\ Len(log) \in Nat
    BY <2>1, LenProperties
  <2>3. Begins(f \o outbuf, log) /\ Len(f) <= Len(log)
    BY <1>2, <2>1, FlushedFacts DEF Quiet, Begins
  <2> QED  BY <2>1, <2>2, <2>3
<1>4. NoCommits(<<>>) /\ <<>> \in Seq(RecordType) /\ Len(<<>>) = 0
  BY EmptySeq DEF NoCommits
<1> HIDE DEF log
<1>5. /\ file' \in [Volume -> Seq(RecordType)] /\ file'[tip] = log
      /\ \A v \in Volume : v # tip => file'[v] = file[v]
  BY <1>1, <1>2, <1>3 DEF Shape, TypeOK
<1>6. \A v \in Volume : synced[v] <= Len(file'[v]) /\ auxEnd[v] <= Len(file'[v])
                        /\ inherited[v] <= Len(file'[v])
  <2> TAKE v \in Volume
  <2>1. /\ synced[v] \in Nat /\ auxEnd[v] \in Nat
        /\ inherited[v] \in Nat /\ Len(file[v]) \in Nat
        /\ synced[v] <= Len(file[v]) /\ auxEnd[v] <= Len(file[v])
        /\ inherited[v] <= Len(file[v])
    BY LenProperties DEF Shape, TypeOK
  <2> QED  BY <1>3, <1>5, <2>1
<1>7. TypeOK'
  BY <1>1, <1>4, <1>5, <1>6 DEF Shape, TypeOK, Idle
<1>8. Buffers'
  BY <1>1, <1>4 DEF Shape, Buffers
<1>9. Opened'
  BY <1>1, <1>3, <1>5 DEF Shape, Opened, Up
<1>10. Logs'[tip] = log \o <<>> /\ Logs[tip] = f \o outbuf
  BY <1>1, <1>2, <1>5 DEF Logs, Pending
<1>11. Grows
  <2> SUFFICES ASSUME NEW v \in Volume
               PROVE  /\ Begins(Logs[v], Logs'[v]) /\ Quiet(file[v], file'[v])
                      /\ synced[v] <= synced'[v] /\ auxEnd[v] <= auxEnd'[v]
                      /\ inherited'[v] = inherited[v]
    BY DEF Grows
  <2>1. synced[v] <= synced'[v] /\ auxEnd[v] <= auxEnd'[v] /\ inherited'[v] = inherited[v]
    BY <1>1 DEF Shape, TypeOK
  <2>2. CASE v = tip
    BY <1>3, <1>5, <1>10, <2>1, <2>2
  <2>3. CASE v # tip
    <3>1. Logs'[v] = Logs[v] /\ file'[v] = file[v]
      BY <1>1, <1>5, <2>3 DEF Logs, Pending
    <3> QED  BY <2>1, <3>1, LogFacts, BeginsItself DEF Shape, Quiet
  <2> QED  BY <2>2, <2>3
<1> QED  BY <1>7, <1>8, <1>9, <1>11 DEF Shape

LEMMA CommitAuxShape ==
  ASSUME Shape, CommitAux
  PROVE  /\ Shape' /\ Grows
         /\ \A v \in Volume : file'[v] = file[v] \/ Len(file'[v]) <= auxEnd'[v]
<1> DEFINE log(v) == Flushed(file[v], auxbuf[v])
<1>1. /\ step = "aux" /\ step' = "record" /\ outbuf = <<>>
      /\ file' = [v \in Volume |-> log(v)] /\ auxbuf' = [v \in Volume |-> <<>>]
      /\ auxEnd' = [v \in Volume |-> IF auxbuf[v] = <<>> THEN auxEnd[v] ELSE Len(log(v))]
      /\ UNCHANGED <<hint, synced, safeHint, attached, tip, outbuf, entry, lineAt,
                     known, cr, detaching, bookmark, stable, offered, past, view, era,
                     inherited, ops, crashes>>
  BY DEF CommitAux, index, promises, Shape, Buffers
<1>2. ASSUME NEW v \in Volume
      PROVE  /\ file[v] \in Seq(RecordType) /\ auxbuf[v] \in Seq(RecordType)
             /\ NoCommits(auxbuf[v]) /\ Len(file[v]) \in Nat
             /\ synced[v] \in Nat /\ auxEnd[v] \in Nat /\ inherited[v] \in Nat
             /\ synced[v] <= Len(file[v]) /\ auxEnd[v] <= Len(file[v])
             /\ inherited[v] <= Len(file[v])
  BY LenProperties DEF Shape, TypeOK, Buffers
<1>3. ASSUME NEW v \in Volume
      PROVE  /\ log(v) \in Seq(RecordType) /\ Quiet(file[v], log(v)) /\ Len(log(v)) \in Nat
             /\ Len(file[v]) <= Len(log(v)) /\ log(v) \o <<>> = log(v)
             /\ Begins(file[v] \o auxbuf[v], log(v))
             /\ file[v] # <<>> => log(v) # <<>>
             /\ auxbuf[v] = <<>> => log(v) = file[v]
  <2>1. log(v) \in Seq(RecordType) /\ Quiet(file[v], log(v))
        /\ Begins(file[v] \o auxbuf[v], log(v)) /\ (file[v] # <<>> => log(v) # <<>>)
    BY <1>2, FlushedFacts, FlushedQuiet
  <2>2. log(v) \o <<>> = log(v) /\ Len(log(v)) \in Nat
    BY <2>1, LenProperties
  <2>3. Len(file[v]) <= Len(log(v))
    BY <2>1 DEF Quiet, Begins
  <2>4. auxbuf[v] = <<>> => log(v) = file[v]
    BY DEF Flushed
  <2> QED  BY <2>1, <2>2, <2>3, <2>4
<1>4. ASSUME NEW v \in Volume
      PROVE  /\ file'[v] = log(v) /\ auxbuf'[v] = <<>>
             /\ auxEnd'[v] = IF auxbuf[v] = <<>> THEN auxEnd[v] ELSE Len(log(v))
             /\ inherited'[v] = inherited[v]
  BY <1>1
<1> HIDE DEF log
<1>5. NoCommits(<<>>) /\ <<>> \in Seq(RecordType) /\ Len(<<>>) = 0 /\ 0 <= OutBufSize
  BY EmptySeq, LogStoreAssumption DEF NoCommits
<1>6. /\ file' \in [Volume -> Seq(RecordType)] /\ auxbuf' \in [Volume -> Seq(RecordType)]
      /\ auxEnd' \in [Volume -> Nat] /\ inherited' \in [Volume -> Nat]
  BY <1>1, <1>2, <1>3, <1>5 DEF Shape, TypeOK
<1>7. ASSUME NEW v \in Volume
      PROVE  /\ synced[v] <= Len(file'[v]) /\ auxEnd'[v] <= Len(file'[v])
             /\ inherited'[v] <= Len(file'[v])
             /\ Len(auxbuf'[v]) <= OutBufSize /\ auxEnd[v] <= auxEnd'[v]
             /\ inherited'[v] = inherited[v]
             /\ file'[v] = file[v] \/ Len(file'[v]) <= auxEnd'[v]
             /\ NoCommits(auxbuf'[v])
  BY <1>2, <1>3, <1>4, <1>5
<1>8. TypeOK'
  BY <1>1, <1>5, <1>6, <1>7 DEF Shape, TypeOK, Idle
<1>9. Buffers'
  BY <1>1, <1>4, <1>5 DEF Shape, Buffers
<1>10. Opened'
  <2>1. tip \in Volume /\ attached \subseteq Volume
    BY DEF Shape, TypeOK
  <2> QED  BY <1>1, <1>3, <1>4, <2>1 DEF Shape, Opened, Up
<1>11. Grows
  <2> SUFFICES ASSUME NEW v \in Volume
               PROVE  /\ Begins(Logs[v], Logs'[v]) /\ Quiet(file[v], file'[v])
                      /\ synced[v] <= synced'[v] /\ auxEnd[v] <= auxEnd'[v]
                      /\ inherited'[v] = inherited[v]
    BY DEF Grows
  <2>1. Logs'[v] = log(v)
    <3>1. Logs'[v] = log(v) \o <<>>
      BY <1>1, <1>4 DEF Logs, Pending
    <3> QED  BY <1>3, <3>1
  <2>2. Begins(Logs[v], log(v))
    <3>1. CASE v = tip
      <4>1. Logs[v] = file[v]
        <5>1. Logs[v] = file[v] \o <<>>
          BY <1>1, <3>1 DEF Logs, Pending
        <5> QED  BY <1>2, <5>1
      <4> QED  BY <1>3, <4>1 DEF Quiet
    <3>2. CASE v # tip
      BY <1>3, <3>2 DEF Logs, Pending
    <3> QED  BY <3>1, <3>2
  <2>3. synced[v] <= synced'[v]
    BY <1>1, <1>2
  <2> QED  BY <1>3, <1>4, <1>7, <2>1, <2>2, <2>3
<1> QED  BY <1>7, <1>8, <1>9, <1>10, <1>11 DEF Shape

LEMMA CommitRecordShape ==
  ASSUME Shape, CommitRecord
  PROVE  /\ Shape' /\ file'[tip] = Append(file[tip], Commit(cr', view))
         /\ Commit(cr', view) \in RecordType /\ cr' \in CommitRecordType
         /\ \A v \in Volume :
              /\ Begins(Logs[v], Logs'[v]) /\ synced[v] <= synced'[v]
              /\ inherited'[v] = inherited[v]
              /\ v # tip => file'[v] = file[v]
              /\ Logs[v] = file[v] /\ Logs'[v] = file'[v]
<1> DEFINE self == <<tip, Len(file[tip]) + 1>>
           new == Commit(cr', view)
<1>1. /\ step = "record" /\ step' = "sync"
      /\ cr' = [cr EXCEPT !.prev = cr.self, !.self = self, !.gen = @ + 1,
                          !.mark = IF bookmark THEN self ELSE @]
      /\ file' = [file EXCEPT ![tip] = Append(@, new)]
      /\ synced' = [synced EXCEPT ![tip] = Len(file[tip])]
      /\ safeHint' = [safeHint EXCEPT ![tip] = hint[tip]]
      /\ offered' = {view} /\ past' = past \cup {view}
      /\ UNCHANGED <<hint, attached, tip, outbuf, auxbuf, entry, lineAt, known, detaching,
                     bookmark, stable, view, era, auxEnd, inherited, ops, crashes>>
  BY DEF CommitRecord, index
<1>2. ASSUME NEW v \in Volume
      PROVE  /\ file[v] \in Seq(RecordType) /\ Len(file[v]) \in Nat
             /\ synced[v] \in Nat /\ auxEnd[v] \in Nat /\ inherited[v] \in Nat
             /\ synced[v] <= Len(file[v]) /\ auxEnd[v] <= Len(file[v])
             /\ inherited[v] <= Len(file[v])
  BY LenProperties DEF Shape, TypeOK
<1>3. tip \in Volume /\ view \in Snapshot /\ era \in Nat /\ cr \in CommitRecordType
  BY DEF Shape, TypeOK
<1>4. cr' \in CommitRecordType
  <2>1. self \in Locator
    BY <1>2, <1>3, Locators
  <2> HIDE DEF self
  <2>2. cr.gen + 1 \in Nat /\ cr.self \in Locator
    BY <1>3 DEF CommitRecordType
  <2> QED  BY <1>1, <1>3, <2>1, <2>2 DEF CommitRecordType
<1>5. new \in RecordType
  BY <1>3, <1>4 DEF Commit, RecordType
<1> HIDE DEF new
<1>6. /\ Append(file[tip], new) \in Seq(RecordType)
      /\ Len(Append(file[tip], new)) = Len(file[tip]) + 1
      /\ Begins(file[tip], Append(file[tip], new))
      /\ Append(file[tip], new) # <<>>
  BY <1>2, <1>3, <1>5, AppendProperties, BeginsAppend
<1>7. /\ file' \in [Volume -> Seq(RecordType)] /\ file'[tip] = Append(file[tip], new)
      /\ \A v \in Volume : v # tip => file'[v] = file[v]
      /\ synced' \in [Volume -> Nat] /\ synced'[tip] = Len(file[tip])
      /\ safeHint' \in [Volume -> Locator]
      /\ \A v \in Volume : v # tip => synced'[v] = synced[v]
  BY <1>1, <1>2, <1>3, <1>6 DEF Shape, TypeOK
<1>8. ASSUME NEW v \in Volume
      PROVE  /\ synced'[v] <= Len(file'[v]) /\ auxEnd'[v] <= Len(file'[v])
             /\ inherited'[v] <= Len(file'[v])
             /\ synced[v] <= synced'[v] /\ inherited'[v] = inherited[v]
  <2>1. CASE v = tip
    BY <1>1, <1>2, <1>6, <1>7, <2>1
  <2>2. CASE v # tip
    BY <1>1, <1>2, <1>7, <2>2
  <2> QED  BY <2>1, <2>2
<1>9. TypeOK'
  <2>1. past' \subseteq Snapshot /\ offered' \subseteq Snapshot
    BY <1>1, <1>3 DEF Shape, TypeOK
  <2> QED  BY <1>1, <1>4, <1>7, <1>8, <2>1 DEF Shape, TypeOK, Idle
<1>10. Buffers'
  BY <1>1 DEF Shape, Buffers
<1>11. Opened'
  BY <1>1, <1>6, <1>7 DEF Shape, TypeOK, Opened, Up
<1>12. ASSUME NEW v \in Volume
       PROVE  /\ Logs[v] = file[v] /\ Logs'[v] = file'[v] /\ Begins(Logs[v], Logs'[v])
  <2>1. outbuf = <<>> /\ auxbuf[v] = <<>> /\ Pending(v) = <<>>
    BY <1>1 DEF Shape, Buffers, Pending
  <2>2. Logs[v] = file[v] \o <<>> /\ Logs'[v] = file'[v] \o <<>>
    BY <1>1, <2>1 DEF Logs, Pending
  <2>3. file'[v] \in Seq(RecordType)
    BY <1>7
  <2>4. Logs[v] = file[v] /\ Logs'[v] = file'[v]
    BY <1>2, <2>2, <2>3
  <2>5. Begins(file[v], file'[v])
    BY <1>2, <1>6, <1>7, BeginsItself
  <2> QED  BY <2>4, <2>5
<1> QED  BY <1>4, <1>5, <1>7, <1>8, <1>9, <1>10, <1>11, <1>12 DEF Shape, new

LEMMA CommitSyncShape ==
  ASSUME Shape, CommitSync
  PROVE  Shape' /\ Grows
<1>1. /\ step = "sync" /\ step' = "idle" /\ outbuf = <<>>
      /\ synced' = [synced EXCEPT ![tip] = Len(file[tip])]
      /\ safeHint' = [safeHint EXCEPT ![tip] = hint[tip]]
      /\ stable' = view /\ offered' = {}
      /\ attached' = attached \ detaching /\ detaching' = {}
      /\ UNCHANGED <<file, hint, tip, outbuf, auxbuf, entry, lineAt, known, cr, bookmark,
                     past, view, era, auxEnd, inherited, ops, crashes>>
  BY DEF CommitSync, index, Shape, Buffers
<1>2. ASSUME NEW v \in Volume
      PROVE  /\ file[v] \in Seq(RecordType) /\ Len(file[v]) \in Nat
             /\ synced[v] \in Nat /\ synced[v] <= Len(file[v])
  BY LenProperties DEF Shape, TypeOK
<1>3. /\ synced' \in [Volume -> Nat] /\ safeHint' \in [Volume -> Locator]
      /\ \A v \in Volume : synced'[v] <= Len(file[v]) /\ synced[v] <= synced'[v]
  BY <1>1, <1>2 DEF Shape, TypeOK
<1>4. Len(outbuf') <= OutBufSize
  BY <1>1, EmptySeq, LogStoreAssumption
<1>5. TypeOK'
  BY <1>1, <1>3, <1>4 DEF Shape, TypeOK
<1>6. Buffers' /\ Opened'
  BY <1>1 DEF Shape, Buffers, Opened, Up
<1>7. Grows
  <2> SUFFICES ASSUME NEW v \in Volume
               PROVE  /\ Begins(Logs[v], Logs'[v]) /\ Quiet(file[v], file'[v])
                      /\ synced[v] <= synced'[v] /\ auxEnd[v] <= auxEnd'[v]
                      /\ inherited'[v] = inherited[v]
    BY DEF Grows
  <2>1. Logs'[v] = Logs[v]
    BY <1>1 DEF Logs, Pending
  <2>2. auxEnd[v] <= auxEnd'[v] /\ inherited'[v] = inherited[v]
    BY <1>1 DEF Shape, TypeOK
  <2> QED  BY <1>1, <1>3, <2>1, <2>2, LogFacts, BeginsItself DEF Quiet, Shape
<1> QED  BY <1>5, <1>6, <1>7 DEF Shape

-----------------------------------------------------------------------------
(* The types of the variables: volumes, crashes and recovery               *)

LEMMA DetachShape ==
  ASSUME Shape, NEW v \in Volume, Detach(v)
  PROVE  Shape' /\ Grows
<1>1. /\ step = "idle" /\ step' = "detach" /\ v # tip /\ file[tip] # <<>>
      /\ lineAt' = [l \in Line |-> IF lineAt[l][1] = v THEN Nowhere ELSE lineAt[l]]
      /\ cr' = [cr EXCEPT !.mix = Nowhere, !.fuel = 0]
      /\ hint' = [hint EXCEPT ![tip] = cr.self]
      /\ detaching' = {v} /\ era' = era + 1
      /\ UNCHANGED <<file, synced, safeHint, attached, tip, outbuf, auxbuf, entry, known,
                     bookmark, stable, offered, past, view, auxEnd, inherited, ops, crashes>>
  BY DEF Detach, Idle, LastCommitRecord, promises
<1>2. cr.self \in Locator /\ tip \in Volume /\ cr \in CommitRecordType /\ era \in Nat
  BY DEF Shape, TypeOK, CommitRecordType
<1>3. /\ hint' \in [Volume -> Locator] /\ \A w \in Volume : w # tip => hint'[w] = hint[w]
      /\ lineAt' \in [Line -> Locator]
  <2>1. Nowhere \in Locator /\ hint \in [Volume -> Locator]
    BY Locators DEF Shape, TypeOK
  <2>2. /\ hint' \in [Volume -> Locator]
        /\ \A w \in Volume : w # tip => hint'[w] = hint[w]
    BY <1>1, <1>2, <2>1
  <2>3. lineAt' \in [Line -> Locator]
    BY <1>1, <2>1 DEF Shape, TypeOK
  <2> QED  BY <2>2, <2>3
<1>4. cr' \in CommitRecordType
  <2>1. Nowhere \in Locator
    BY Locators
  <2> DEFINE fuel == 0
  <2>2. fuel \in Int
    OBVIOUS
  <2> HIDE DEF fuel
  <2>3. [cr EXCEPT !.mix = Nowhere, !.fuel = fuel] \in CommitRecordType
    BY <1>2, <2>1, <2>2 DEF CommitRecordType
  <2> QED  BY <1>1, <2>3 DEF fuel
<1>5. TypeOK'
  <2>1. /\ era' \in Nat /\ detaching' \subseteq Volume /\ step' = "detach"
        /\ file' \in [Volume -> Seq(RecordType)] /\ outbuf' \in Seq(RecordType)
        /\ auxbuf' \in [Volume -> Seq(RecordType)]
        /\ \A w \in Volume : /\ synced'[w] <= Len(file'[w]) /\ auxEnd'[w] <= Len(file'[w])
                             /\ inherited'[w] <= Len(file'[w])
                             /\ Len(auxbuf'[w]) <= OutBufSize
    BY <1>1, <1>2 DEF Shape, TypeOK
  <2> QED  BY <1>1, <1>3, <1>4, <2>1 DEF Shape, TypeOK, Idle
<1>6. Buffers' /\ Opened'
  BY <1>1, <1>3 DEF Shape, Buffers, Opened, Up
<1> QED  BY <1>1, <1>5, <1>6, GrowsAlone DEF Shape

LEMMA UnlinkShape ==
  ASSUME Shape, NEW v \in Volume, Unlink(v)
  PROVE  /\ Shape' /\ v # tip /\ \A w \in Volume : w # v => Logs'[w] = Logs[w]
<1>1. /\ step = "idle" /\ v \notin attached
      /\ file' = [file EXCEPT ![v] = <<>>] /\ hint' = [hint EXCEPT ![v] = Nowhere]
      /\ synced' = [synced EXCEPT ![v] = 0] /\ safeHint' = [safeHint EXCEPT ![v] = Nowhere]
      /\ auxEnd' = [auxEnd EXCEPT ![v] = 0] /\ inherited' = [inherited EXCEPT ![v] = 0]
      /\ UNCHANGED <<attached, tip, outbuf, auxbuf, entry, lineAt, known, cr, step,
                     detaching, bookmark, stable, offered, past, view, era, ops, crashes>>
  BY DEF Unlink, Idle, index, promises
<1>2. v # tip
  BY <1>1 DEF Shape, Opened, Up
<1>3. <<>> \in Seq(RecordType) /\ Len(<<>>) = 0
  BY EmptySeq
<1>4. /\ file' \in [Volume -> Seq(RecordType)] /\ file'[v] = <<>>
      /\ hint' \in [Volume -> Locator] /\ hint'[v] = Nowhere
      /\ synced' \in [Volume -> Nat] /\ synced'[v] = 0 /\ auxEnd' \in [Volume -> Nat]
      /\ inherited' \in [Volume -> Nat]
      /\ auxEnd'[v] = 0 /\ inherited'[v] = 0 /\ safeHint' \in [Volume -> Locator]
      /\ \A w \in Volume : w # v => /\ file'[w] = file[w] /\ hint'[w] = hint[w]
                                    /\ synced'[w] = synced[w] /\ auxEnd'[w] = auxEnd[w]
                                    /\ inherited'[w] = inherited[w]
  <2>1. Nowhere \in Locator
    BY Locators
  <2> QED  BY <1>1, <1>3, <2>1 DEF Shape, TypeOK
<1>5. \A w \in Volume : synced'[w] <= Len(file'[w]) /\ auxEnd'[w] <= Len(file'[w])
                        /\ inherited'[w] <= Len(file'[w])
  <2> TAKE w \in Volume
  <2>1. CASE w = v
    BY <1>3, <1>4, <2>1
  <2>2. CASE w # v
    BY <1>4, <2>2 DEF Shape, TypeOK
  <2> QED  BY <2>1, <2>2
<1>6. TypeOK'
  BY <1>1, <1>4, <1>5 DEF Shape, TypeOK, Idle
<1>7. Buffers' /\ Opened'
  BY <1>1, <1>2, <1>4 DEF Shape, TypeOK, Buffers, Opened, Up
<1>8. \A w \in Volume : w # v => Logs'[w] = Logs[w]
  BY <1>1, <1>4 DEF Logs, Pending
<1> QED  BY <1>2, <1>6, <1>7, <1>8 DEF Shape

LEMMA GoDownShape ==
  ASSUME Shape, NEW kept \in [Volume -> Nat], NEW h \in [Volume -> Locator],
         \A v \in Volume : kept[v] <= Len(file[v]) /\ synced'[v] <= kept[v],
         synced' \in [Volume -> Nat], safeHint' \in [Volume -> Locator],
         GoDown(kept, h)
  PROVE  /\ Shape' /\ ~Up'
         /\ \A v \in Volume :
              /\ Logs'[v] = file'[v] /\ Len(file'[v]) = kept[v]
              /\ \A i \in 1 .. kept[v] : file'[v][i] = file[v][i]
              /\ inherited'[v] = kept[v]
              /\ hint'[v] = IF kept[v] = 0 THEN Nowhere ELSE h[v]
<1>1. /\ step' = "down" /\ outbuf' = <<>> /\ auxbuf' = [v \in Volume |-> <<>>]
      /\ file' = [v \in Volume |-> SubSeq(file[v], 1, kept[v])] /\ inherited' = kept
      /\ hint' = [v \in Volume |-> IF kept[v] = 0 THEN Nowhere ELSE h[v]]
      /\ detaching' = {} /\ crashes' = crashes + 1
      /\ auxEnd' = [v \in Volume |-> IF auxEnd[v] > kept[v] THEN kept[v] ELSE auxEnd[v]]
      /\ UNCHANGED <<attached, tip, entry, lineAt, known, cr, bookmark, stable, offered,
                     past, view, era, ops>>
  BY DEF GoDown, index, promises
<1>2. ASSUME NEW v \in Volume
      PROVE  /\ file'[v] \in Seq(RecordType) /\ Len(file'[v]) = kept[v]
             /\ \A i \in 1 .. kept[v] : file'[v][i] = file[v][i]
             /\ file'[v] = <<>> => kept[v] = 0
  <2>1. file[v] \in Seq(RecordType) /\ Len(file[v]) \in Nat /\ kept[v] \in Nat
        /\ kept[v] <= Len(file[v])
    BY LenProperties DEF Shape, TypeOK
  <2>2. \A i \in 1 .. kept[v] : i \in 1 .. Len(file[v]) /\ file[v][i] \in RecordType
    BY <2>1, ElementOfSeq
  <2> DEFINE s == SubSeq(file[v], 1, kept[v])
  <2>3. s = [i \in 1 .. kept[v] |-> file[v][i]]
    BY <2>1 DEF SubSeq
  <2>4. s \in Seq(RecordType)
    BY <2>1, <2>2, <2>3, IsASeq
  <2>5. Len(s) = kept[v]
    BY <2>1, <2>3, <2>4, LenProperties
  <2>6. s = <<>> => Len(s) = 0
    BY EmptySeq
  <2>7. file'[v] = s
    BY <1>1
  <2> HIDE DEF s
  <2> QED  BY <2>3, <2>4, <2>5, <2>6, <2>7
<1>3. <<>> \in Seq(RecordType) /\ Len(<<>>) = 0 /\ NoCommits(<<>>) /\ 0 <= OutBufSize
  BY EmptySeq, LogStoreAssumption DEF NoCommits
<1>4. /\ file' \in [Volume -> Seq(RecordType)] /\ auxbuf' \in [Volume -> Seq(RecordType)]
      /\ hint' \in [Volume -> Locator]
      /\ auxEnd' \in [Volume -> Nat] /\ inherited' \in [Volume -> Nat]
      /\ \A v \in Volume : auxbuf'[v] = <<>> /\ auxEnd'[v] <= kept[v]
  <2>1. file' \in [Volume -> Seq(RecordType)]
    BY <1>1, <1>2
  <2>2. auxEnd' \in [Volume -> Nat] /\ \A v \in Volume : auxEnd'[v] <= kept[v]
    BY <1>1, SMTT(30) DEF Shape, TypeOK
  <2> QED  BY <1>1, <1>3, <2>1, <2>2, Locators
<1>5. \A v \in Volume : /\ synced'[v] <= Len(file'[v]) /\ auxEnd'[v] <= Len(file'[v])
                        /\ inherited'[v] <= Len(file'[v])
                        /\ Len(auxbuf'[v]) <= OutBufSize
  BY <1>1, <1>2, <1>3, <1>4
<1>6. TypeOK'
  BY <1>1, <1>3, <1>4, <1>5 DEF Shape, TypeOK, Idle
<1>7. Buffers' /\ Opened'
  <2>1. \A v \in Volume : file'[v] = <<>> => hint'[v] = Nowhere
    BY <1>1, <1>2
  <2> QED  BY <1>1, <1>3, <1>4, <2>1 DEF Shape, Buffers, Opened, Up
<1>8. \A v \in Volume : Logs'[v] = file'[v]
  <2> TAKE v \in Volume
  <2>1. Logs'[v] = file'[v] \o <<>>
    BY <1>1, <1>4 DEF Logs, Pending
  <2> QED  BY <1>2, <2>1
<1> QED  BY <1>1, <1>2, <1>6, <1>7, <1>8 DEF Shape, Up

\* A crash keeps of each file what was synced at least, and one of the two hints.
LEMMA CrashIsGoDown ==
  ASSUME Shape, ProcessDies \/ PowerFails
  PROVE  \E kept \in [Volume -> Nat], h \in [Volume -> Locator] :
           /\ GoDown(kept, h)
           /\ synced' \in [Volume -> Nat] /\ safeHint' \in [Volume -> Locator]
           /\ \A v \in Volume : /\ kept[v] <= Len(file[v]) /\ synced[v] <= kept[v]
                                /\ synced'[v] <= kept[v]
                                /\ h[v] \in {hint[v], safeHint[v]}
                                /\ safeHint'[v] \in {hint'[v], safeHint[v]}
<1>1. ASSUME NEW v \in Volume
      PROVE  /\ Len(file[v]) \in Nat /\ synced[v] \in Nat /\ synced[v] <= Len(file[v])
             /\ hint[v] \in Locator /\ safeHint[v] \in Locator
  BY LenProperties DEF Shape, TypeOK
<1>2. CASE ProcessDies
  <2> DEFINE kept == [v \in Volume |-> Len(file[v])]
  <2>1. kept \in [Volume -> Nat] /\ hint \in [Volume -> Locator]
    BY <1>1 DEF Shape, TypeOK
  <2>2. GoDown(kept, hint) /\ synced' = synced /\ safeHint' = safeHint
    BY <1>2 DEF ProcessDies
  <2>3. \A v \in Volume : /\ kept[v] <= Len(file[v]) /\ synced[v] <= kept[v]
                          /\ hint[v] \in {hint[v], safeHint[v]}
    BY <1>1
  <2>4. synced' \in [Volume -> Nat] /\ safeHint' \in [Volume -> Locator]
    BY <2>2 DEF Shape, TypeOK
  <2>5. \A v \in Volume : synced'[v] <= kept[v] /\ safeHint'[v] \in {hint'[v], safeHint[v]}
    BY <1>1, <2>2
  <2> HIDE DEF kept
  <2> QED  BY <2>1, <2>2, <2>3, <2>4, <2>5
<1>3. CASE PowerFails
  <2>1. PICK kept \in [Volume -> UNION {Ends(v) : v \in Volume}], old \in SUBSET Volume :
          /\ \A v \in Volume : kept[v] \in Ends(v)
          /\ GoDown(kept, [v \in Volume |-> IF v \in old THEN safeHint[v] ELSE hint[v]])
          /\ synced' = kept /\ safeHint' = hint'
    BY <1>3 DEF PowerFails
  <2> DEFINE h == [v \in Volume |-> IF v \in old THEN safeHint[v] ELSE hint[v]]
  <2>2. ASSUME NEW v \in Volume
        PROVE  kept[v] \in Nat /\ kept[v] <= Len(file[v]) /\ synced[v] <= kept[v]
    BY <1>1, <2>1 DEF Ends
  <2>3. kept \in [Volume -> Nat]
    BY <2>1, <2>2
  <2>4. h \in [Volume -> Locator] /\ \A v \in Volume : h[v] \in {hint[v], safeHint[v]}
    BY <1>1
  <2>5. GoDown(kept, h)
    BY <2>1
  <2>6. hint' \in [Volume -> Locator]
    <3>1. hint' = [v \in Volume |-> IF kept[v] = 0 THEN Nowhere ELSE h[v]]
      BY <2>5 DEF GoDown
    <3> QED  BY <2>4, <3>1, Locators
  <2>7. \A v \in Volume : synced'[v] <= kept[v] /\ safeHint'[v] \in {hint'[v], safeHint[v]}
    BY <2>1, <2>2
  <2>8. synced' \in [Volume -> Nat] /\ safeHint' \in [Volume -> Locator]
    BY <2>1, <2>3, <2>6
  <2> HIDE DEF h
  <2> QED  BY <2>2, <2>3, <2>4, <2>5, <2>7, <2>8
<1> QED  BY <1>2, <1>3

LEMMA LatestFacts ==
  ASSUME NEW S \in SUBSET Nat, NEW n \in Nat, \A i \in S : i <= n, S # {}
  PROVE  Latest(S) \in S /\ \A i \in S : i <= Latest(S)
<1> DEFINE T == {n - i : i \in S}
<1>1. T \subseteq Nat /\ T # {}
  <2>1. \A i \in S : n - i \in Nat
    OBVIOUS
  <2> QED  BY <2>1, Zenon
<1>2. PICK m \in T : \A k \in T : ~(<<k, m>> \in OpToRel(<, Nat))
  BY <1>1, WFMin, NatLessThanWellFounded, Zenon
<1>3. \A k \in T : ~(k < m)
  BY <1>1, <1>2, Zenon DEF OpToRel
<1>4. PICK i \in S : m = n - i
  BY <1>2
<1>5. \A j \in S : j <= i
  <2> TAKE j \in S
  <2>1. n - j \in T /\ ~(n - j < n - i)
    BY <1>3, <1>4
  <2> QED  BY <2>1
<1> QED  BY <1>4, <1>5 DEF Latest

\* What is found in a volume that does not mislead the search is its last commit record.
LEMMA FoundFacts ==
  ASSUME Shape, NEW v \in Volume, ~Misled(v), FoundOn(v) # Nowhere
  PROVE  \E i \in Commits(file[v]) : /\ FoundOn(v) = <<v, i>>
                                     /\ \A j \in Commits(file[v]) : j <= i
<1> DEFINE f == file[v]
           h == hint[v]
<1>1. f \in Seq(RecordType) /\ Len(f) \in Nat /\ h \in Locator /\ h[2] \in Nat
  BY LenProperties, Locators DEF Shape, TypeOK
<1>2. /\ Commits(f) \subseteq 1 .. Len(f) /\ \A i : IsCommit(f, i) <=> i \in Commits(f)
  BY <1>1, CommitsOf
<1>3. CASE IsCommit(f, Len(f))
  <2>1. FoundOn(v) = <<v, Len(f)>>
    BY <1>3 DEF FoundOn, LastCommit
  <2> QED  BY <1>1, <1>2, <1>3, <2>1
<1>4. CASE ~IsCommit(f, Len(f))
  <2> DEFINE S == {i \in Commits(f) : i >= h[2]} \cup {h[2]}
  <2>1. h # Nowhere /\ FoundOn(v) = <<v, Latest(S)>>
    BY <1>4 DEF FoundOn, LastCommit
  <2>2. h[2] \in Commits(f)
    BY <1>2, <1>4, <2>1 DEF Misled, Shape, Opened
  <2>3. S \in SUBSET Nat /\ S \subseteq Commits(f) /\ S # {} /\ \A i \in S : i <= Len(f)
    BY <1>1, <1>2, <2>2
  <2>4. Latest(S) \in S /\ \A i \in S : i <= Latest(S)
    BY <1>1, <2>3, LatestFacts
  <2>5. ASSUME NEW j \in Commits(f)  PROVE j <= Latest(S)
    <3>1. j \in Nat /\ Latest(S) \in Nat /\ h[2] <= Latest(S)
      BY <1>1, <1>2, <2>3, <2>4
    <3>2. CASE j >= h[2]
      BY <2>4, <3>2
    <3>3. CASE ~(j >= h[2])
      BY <1>1, <3>1, <3>3
    <3> QED  BY <3>2, <3>3
  <2> QED  BY <2>1, <2>3, <2>4, <2>5
<1> QED  BY <1>3, <1>4

\* The record of such a commit.
LEMMA CommitFacts ==
  ASSUME TypeOK, NEW v \in Volume, NEW i \in Commits(file[v])
  PROVE  /\ i \in Nat /\ i \in 1 .. Len(file[v]) /\ file[v][i] \in RecordType
         /\ file[v][i].kind = "COMM" /\ file[v][i].cr \in CommitRecordType
         /\ file[v][i].left \in Snapshot /\ file[v][i].era \in Nat
         /\ IsAt(<<v, i>>, "COMM") /\ RecordAt(<<v, i>>) = file[v][i]
         /\ CommitAt(<<v, i>>) = file[v][i].cr
<1>1. file[v] \in Seq(RecordType) /\ Len(file[v]) \in Nat
  BY LenProperties DEF TypeOK
<1>2. i \in 1 .. Len(file[v]) /\ file[v][i].kind = "COMM"
  BY <1>1, CommitsOf
<1>3. file[v][i] \in RecordType
  BY <1>1, <1>2, ElementOfSeq
<1>4. i \in 1 .. (Len(file[v]) + Len(Pending(v))) /\ Logs[v][i] = file[v][i] /\ i \in Nat
  BY <1>2, LogFacts DEF Begins
<1>5. InStore(<<v, i>>) /\ RecordAt(<<v, i>>) = file[v][i]
  BY <1>4 DEF InStore, RecordAt, Logs
<1> QED  BY <1>2, <1>3, <1>4, <1>5, RecordParts DEF IsAt, CommitAt

LEMMA FreshFacts ==
  ASSUME NEW f, NEW buf, Fresh(f, buf)
  PROVE  /\ f \in [Volume -> Seq(RecordType)] /\ buf \in Seq(RecordType)
         /\ NoCommits(buf) /\ Len(buf) <= 1
         /\ \A v \in Volume : /\ NoCommits(f[v]) /\ Len(f[v]) \in Nat
                              /\ f[v] # <<>> \/ (v = 0 /\ buf # <<>>)
<1>1. /\ <<>> \in Seq(RecordType) /\ Len(<<>>) = 0 /\ NoCommits(<<>>)
      /\ <<Header>> \in Seq(RecordType) /\ Len(<<Header>>) = 1
      /\ <<Header, Segment>> \in Seq(RecordType) /\ Len(<<Header, Segment>>) = 2
  BY EmptySeq, RecordsMade DEF NoCommits
<1>2. NoCommits(<<Header>>)
  <2>1. \A i \in 1 .. 1 : <<Header>>[i] = Header
    OBVIOUS
  <2> QED  BY <1>1, <2>1, RecordsMade DEF NoCommits
<1>3. NoCommits(<<Header, Segment>>)
  <2>1. \A i \in 1 .. 2 : <<Header, Segment>>[i] \in {Header, Segment}
    OBVIOUS
  <2> QED  BY <1>1, <2>1, RecordsMade DEF NoCommits
<1>4. NumVols = 1 => \A v \in Volume : v = 0
  BY DEF Volume
<1>5. <<Header>> # <<>> /\ <<Header, Segment>> # <<>>
  OBVIOUS
<1>6. CASE NumVols = 1
  <2>1. f = [v \in Volume |-> <<>>] /\ buf = <<Header>>
    BY <1>6 DEF Fresh
  <2> QED  BY <1>1, <1>2, <1>4, <1>5, <1>6, <2>1
<1>7. CASE NumVols # 1
  <2>1. f = [v \in Volume |-> <<Header, Segment>>] /\ buf = <<>>
    BY <1>7 DEF Fresh
  <2> QED  BY <1>1, <1>3, <1>5, <2>1
<1> QED  BY <1>6, <1>7

LEMMA FirstCommitRecordType == FirstCommitRecord \in CommitRecordType
<1>1. Nowhere \in Locator /\ VolumeHeaderFuel \in Int /\ NoDiffs \in [Record -> Locator \cup {NoDiff}]
  BY Locators, LogStoreAssumption DEF NoDiffs
<1> DEFINE gen == 0
<1>2. gen \in Nat
  OBVIOUS
<1> HIDE DEF gen
<1>3. [gen |-> gen, prev |-> Nowhere, self |-> Nowhere, mark |-> Nowhere,
       mix |-> Nowhere, diffs |-> NoDiffs, fuel |-> VolumeHeaderFuel] \in CommitRecordType
  BY <1>1, <1>2 DEF CommitRecordType
<1> QED  BY <1>3 DEF FirstCommitRecord, gen

LEMMA OpenShape ==
  ASSUME Shape, Open
  PROVE  Shape'
<1>1. /\ step = "down" /\ ~CannotOpen /\ view' \in Snapshot /\ stable' = view'
      /\ offered' = {} /\ outbuf = <<>> /\ detaching = {}
      /\ UNCHANGED <<auxbuf, detaching, bookmark, past, era, ops, crashes>>
      /\ IF Found = {} THEN Create ELSE \E v \in Volume : Favored(v) /\ Reload(v)
  BY DEF Open, Shape, TypeOK, Buffers, Opened
<1>2. \A v \in Volume : auxbuf'[v] = <<>> /\ Len(auxbuf'[v]) <= OutBufSize
                        /\ NoCommits(auxbuf'[v])
  BY <1>1, EmptySeq, LogStoreAssumption DEF Shape, Buffers, NoCommits
<1>3. CASE Create
  <2>1. /\ Fresh(file', outbuf')
        /\ synced' = [v \in Volume |-> Len(file'[v])]
        /\ hint' = [v \in Volume |-> Nowhere] /\ safeHint' = hint'
        /\ auxEnd' = [v \in Volume |-> 0] /\ inherited' = [v \in Volume |-> 0]
        /\ tip' = 0 /\ attached' = Volume
        /\ entry' = [r \in Record |-> Nowhere]
        /\ lineAt' = [l \in Line |-> Nowhere] /\ known' = {}
        /\ cr' = FirstCommitRecord /\ step' = "idle"
    BY <1>3 DEF Create
  <2>2. /\ file' \in [Volume -> Seq(RecordType)] /\ outbuf' \in Seq(RecordType)
        /\ NoCommits(outbuf') /\ Len(outbuf') <= 1
        /\ \A v \in Volume : /\ Len(file'[v]) \in Nat
                             /\ file'[v] # <<>> \/ (v = 0 /\ outbuf' # <<>>)
    BY <2>1, FreshFacts
  <2>3. Len(outbuf') <= OutBufSize
    BY <2>2, LogStoreAssumption, LenProperties
  <2>4. /\ synced' \in [Volume -> Nat] /\ auxEnd' \in [Volume -> Nat]
        /\ inherited' \in [Volume -> Nat]
        /\ \A v \in Volume : synced'[v] <= Len(file'[v]) /\ auxEnd'[v] <= Len(file'[v])
                             /\ inherited'[v] <= Len(file'[v])
    BY <2>1, <2>2
  <2>5. /\ hint' \in [Volume -> Locator] /\ safeHint' \in [Volume -> Locator]
        /\ entry' \in [Record -> Locator] /\ lineAt' \in [Line -> Locator]
        /\ cr' \in CommitRecordType /\ tip' \in Volume
    BY <2>1, Locators, FirstCommitRecordType
  <2>6. TypeOK'
    BY <1>1, <1>2, <2>1, <2>2, <2>3, <2>4, <2>5 DEF Shape, TypeOK, Idle
  <2>7. Buffers'
    BY <1>2, <2>1, <2>2 DEF Buffers
  <2>8. Opened'
    BY <1>1, <2>1, <2>2, <2>5 DEF Opened, Up
  <2> QED  BY <2>6, <2>7, <2>8 DEF Shape
<1>4. CASE \E v \in Volume : Favored(v) /\ Reload(v)
  <2>1. PICK v \in Volume : Favored(v) /\ Reload(v)
    BY <1>4
  <2> DEFINE best == CommitAt(FoundOn(v))
  <2>2. /\ Loadable(best) /\ Load(best) /\ tip' = v /\ step' = "idle"
        /\ attached' = {w \in Volume : file[w] # <<>>}
        /\ UNCHANGED <<file, hint, synced, safeHint, outbuf, auxEnd, inherited>>
    BY <2>1 DEF Reload, disk
  <2>3. PICK i \in Commits(file[v]) : FoundOn(v) = <<v, i>>
    BY <1>1, <2>1, FoundFacts DEF CannotOpen, Favored, Found
  <2>4. best \in CommitRecordType /\ file[v] # <<>>
    <3>1. best \in CommitRecordType /\ i \in 1 .. Len(file[v])
      BY <2>3, CommitFacts DEF Shape
    <3> QED  BY <3>1, EmptySeq
  <2> HIDE DEF best
  <2>5. /\ entry' \in [Record -> Locator] /\ lineAt' \in [Line -> Locator]
        /\ known' \subseteq Line /\ cr' \in CommitRecordType
    BY <2>2, <2>4, LoadTypes DEF Shape
  <2>6. Len(outbuf') <= OutBufSize
    BY <1>1, <2>2, EmptySeq, LogStoreAssumption
  <2>7. TypeOK'
    BY <1>1, <1>2, <2>2, <2>5, <2>6 DEF Shape, TypeOK
  <2>8. Buffers'
    BY <1>1, <1>2, <2>2 DEF Shape, Buffers
  <2>9. Opened'
    BY <1>1, <2>2, <2>4 DEF Shape, Opened, Up
  <2> QED  BY <2>7, <2>8, <2>9 DEF Shape
<1> QED  BY <1>1, <1>3, <1>4

LEMMA InitShape == Init => Shape
<1> SUFFICES ASSUME Init  PROVE Shape
  OBVIOUS
<1>1. /\ file \in [Volume -> Seq(RecordType)] /\ outbuf \in Seq(RecordType)
      /\ NoCommits(outbuf) /\ Len(outbuf) <= 1
      /\ \A v \in Volume : /\ Len(file[v]) \in Nat
                           /\ file[v] # <<>> \/ (v = 0 /\ outbuf # <<>>)
  BY FreshFacts DEF Init
<1>2. /\ synced = [v \in Volume |-> Len(file[v])]
      /\ hint = [v \in Volume |-> Nowhere] /\ safeHint = hint
      /\ attached = Volume /\ tip = 0
      /\ auxbuf = [v \in Volume |-> <<>>]
      /\ entry = [r \in Record |-> Nowhere]
      /\ lineAt = [l \in Line |-> Nowhere] /\ known = {}
      /\ cr = FirstCommitRecord
      /\ step = "idle" /\ detaching = {} /\ bookmark = FALSE
      /\ view = [r \in Record |-> Absent]
      /\ stable = view /\ offered = {} /\ past = {view}
      /\ era = 0 /\ auxEnd = [v \in Volume |-> 0] /\ inherited = auxEnd
      /\ ops = 0 /\ crashes = 0
  BY DEF Init
<1>3. /\ hint \in [Volume -> Locator] /\ safeHint \in [Volume -> Locator]
      /\ entry \in [Record -> Locator] /\ lineAt \in [Line -> Locator]
      /\ cr \in CommitRecordType /\ tip \in Volume
  BY <1>2, Locators, FirstCommitRecordType
<1>4. /\ synced \in [Volume -> Nat] /\ auxEnd \in [Volume -> Nat]
      /\ inherited \in [Volume -> Nat]
      /\ \A v \in Volume : synced[v] <= Len(file[v]) /\ auxEnd[v] <= Len(file[v])
                           /\ inherited[v] <= Len(file[v])
  BY <1>1, <1>2
<1>5. /\ auxbuf \in [Volume -> Seq(RecordType)] /\ Len(outbuf) <= OutBufSize
      /\ \A v \in Volume : Len(auxbuf[v]) <= OutBufSize /\ NoCommits(auxbuf[v])
  <2>1. NoCommits(<<>>) /\ <<>> \in Seq(RecordType) /\ Len(<<>>) = 0 /\ 0 <= OutBufSize
    BY EmptySeq, LogStoreAssumption DEF NoCommits
  <2> QED  BY <1>1, <1>2, <2>1, LogStoreAssumption, LenProperties
<1>6. view \in Snapshot
  BY <1>2 DEF Snapshot
<1>7. TypeOK
  <2>1. /\ attached \subseteq Volume /\ detaching \subseteq Volume /\ known \subseteq Line
        /\ step = "idle" /\ bookmark \in BOOLEAN
        /\ offered \subseteq Snapshot /\ past \subseteq Snapshot /\ stable \in Snapshot
        /\ era \in Nat /\ ops \in Nat /\ crashes \in Nat
    BY <1>2, <1>6
  <2> QED  BY <1>1, <1>3, <1>4, <1>5, <1>6, <2>1 DEF TypeOK
<1>8. Buffers
  BY <1>1, <1>2, <1>5 DEF Buffers
<1>9. Opened
  <2>1. \A v \in Volume : hint[v] = Nowhere
    BY <1>2
  <2>2. tip \in attached /\ tip \notin detaching
    BY <1>2, <1>3
  <2>3. \A v \in attached : file[v] # <<>> \/ (v = tip /\ outbuf # <<>>)
    BY <1>1, <1>2
  <2> QED  BY <1>2, <2>1, <2>2, <2>3 DEF Opened
<1> QED  BY <1>7, <1>8, <1>9 DEF Shape

\* Every step keeps the shape of the state; all but the crash, the unlink and the
\* recovery, and the writing of a commit record, only add to the volumes.
LEMMA ShapeKept == Shape /\ [Next]_vars => Shape'
<1> SUFFICES ASSUME Shape, [Next]_vars  PROVE Shape'
  OBVIOUS
<1>1. CASE UNCHANGED vars
  BY <1>1 DEF vars, disk, index, history, promises, Shape, TypeOK, Buffers, Opened, Idle, Up
<1>2. CASE RecordStep
  <2>1. PICK r \in Record : \/ \E val \in Value : Write(r, val)
                            \/ Delete(r)
                            \/ \E v \in Volume : MoveAside(r, v)
                            \/ MoveToTip(r)
    BY <1>2 DEF RecordStep
  <2>2. ASSUME NEW val \in Value, Write(r, val)  PROVE Shape'
    BY <2>2, WriteShape
  <2>3. CASE Delete(r)
    BY <2>3, DeleteShape
  <2>4. ASSUME NEW v \in Volume, MoveAside(r, v)  PROVE Shape'
    BY <2>4, MoveAsideShape
  <2>5. CASE MoveToTip(r)
    BY <2>2, <2>5, MoveToTipWrites DEF Shape
  <2> QED  BY <2>1, <2>2, <2>3, <2>4, <2>5
<1>3. CASE CommitStep
  <2>1. ASSUME NEW flag \in BOOLEAN, BeginCommit(flag)  PROVE Shape'
    BY <2>1, BeginCommitShape
  <2>2. CASE CommitHeader
    BY <2>2, CommitHeaderShape
  <2>3. CASE CommitFlush
    BY <2>3, CommitFlushShape
  <2>4. CASE CommitAux
    BY <2>4, CommitAuxShape
  <2>5. CASE CommitRecord
    BY <2>5, CommitRecordShape
  <2>6. CASE CommitSync
    BY <2>6, CommitSyncShape
  <2> QED  BY <1>3, <2>1, <2>2, <2>3, <2>4, <2>5, <2>6 DEF CommitStep
<1>4. CASE VolumeStep
  <2>1. ASSUME NEW v \in Volume, SetTip(v)  PROVE Shape'
    BY <2>1, SetTipShape
  <2>2. ASSUME NEW v \in Volume, Detach(v)  PROVE Shape'
    BY <2>2, DetachShape
  <2>3. ASSUME NEW v \in Volume, Unlink(v)  PROVE Shape'
    BY <2>3, UnlinkShape
  <2>4. ASSUME NEW v \in Volume, Attach(v)  PROVE Shape'
    BY <2>4, AttachShape
  <2>5. ASSUME NEW at, Rewind(at)  PROVE Shape'
    BY <2>5, RewindShape
  <2> QED  BY <1>4, <2>1, <2>2, <2>3, <2>4, <2>5 DEF VolumeStep
<1>5. CASE CrashStep
  <2>1. CASE ProcessDies \/ PowerFails
    <3>1. PICK kept \in [Volume -> Nat], h \in [Volume -> Locator] :
            /\ GoDown(kept, h)
            /\ synced' \in [Volume -> Nat] /\ safeHint' \in [Volume -> Locator]
            /\ \A v \in Volume : kept[v] <= Len(file[v]) /\ synced'[v] <= kept[v]
      BY <2>1, CrashIsGoDown
    <3> QED  BY <3>1, GoDownShape
  <2>2. CASE Open
    BY <2>2, OpenShape
  <2> QED  BY <1>5, <2>1, <2>2 DEF CrashStep
<1> QED  BY <1>1, <1>2, <1>3, <1>4, <1>5 DEF Next

LEMMA ShapeHolds == Spec => []Shape
<1>1. Init => Shape
  BY InitShape
<1>2. Shape /\ [Next]_vars => Shape'
  BY ShapeKept
<1> QED  BY <1>1, <1>2, PTL DEF Spec

\* The store keeps its types through every operation, crash and recovery: in
\* particular each pointer that lss_openx and lssi_load_mindex follow is a locator,
\* what was synced or moved aside is in the file, and no buffer takes more than it
\* has room for.  Nothing is assumed of clients or of crashes.
THEOREM TypeCorrect == Spec => []TypeOK
<1>1. Shape => TypeOK
  BY DEF Shape
<1> QED  BY <1>1, ShapeHolds, PTL

=============================================================================
