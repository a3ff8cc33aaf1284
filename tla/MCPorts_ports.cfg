CONSTANTS
  t1 = t1
  t2 = t2
  p1 = p1
  i1 = i1
  Thread = {t1, t2}
  Port = {p1}
  InPort = {i1}
  BlockSize = 4
  Room = 1
  Vectors <- SmallAndLarge
  FlushLines = {p1}
  HasErrorProc = {}
  Owner = {p1}
  InOwner = {i1}
  Selects <- OneOrBoth
  MaxBytes = 6
  MaxChunks = 1
  MaxReads = 2
  Risks = {"halt", "many selects"}
SPECIFICATION FairSpec
INVARIANTS TypeOK BytesInOrder EventWhilePending FlushedIsSent
PROPERTIES FlushersReleased ReadersServed SelectorsServed
CHECK_DEADLOCK FALSE
