CONSTANTS
  t1 = t1
  t2 = t2
  p1 = p1
  i1 = i1
  Thread = {t1, t2}
  Port = {p1}
  InPort = {}
  BlockSize = 4
  Room = 1
  Vectors <- SmallAndLarge
  FlushLines = {p1}
  HasErrorProc = {}
  Owner = {p1}
  InOwner = {}
  Selects <- NoSelects
  MaxBytes = 6
  MaxChunks = 1
  MaxReads = 1
  Risks = {"write while closing"}
SPECIFICATION FairSpec
PROPERTIES BadFdsFound
CHECK_DEADLOCK FALSE
