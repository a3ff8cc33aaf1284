CONSTANTS
  r1 = r1
  r2 = r2
  l1 = l1
  l2 = l2
  NumVols = 2
  Record = {r1, r2}
  a = a
  b = b
  Value = {a, b}
  Absent = Absent
  Line = {l1, l2}
  LineOf <- TwoLines
  NoDiff = NoDiff
  MaxDiffs = 1
  OutBufSize = 3
  VolumeHeaderFuel = 2
  CommitFuelCost = 1
  BlockFuelCost = 0
  MaxOps = 3
  MaxGenerations = 3
  MaxCrashes = 1
  Client = {"move", "set tip", "detach", "rewind"}
  Risks = {}
SPECIFICATION Spec
INVARIANTS TypeOK ReadsSeeWrites EveryCommitReadable HeaderPointsBack OpensAgain
PROPERTIES CommitsSurvive
CHECK_DEADLOCK FALSE
SYMMETRY SameValues
