CONSTANTS
  r1 = r1
  r2 = r2
  l1 = l1
  l2 = l2
  NumVols = 1
  Record = {r1, r2}
  a = a
  b = b
  Value = {a, b}
  Absent = Absent
  Line = {l1, l2}
  LineOf <- TwoLines
  NoDiff = NoDiff
  MaxDiffs = 1
  OutBufSize = 3
  VolumeHeaderFuel = 2
  CommitFuelCost = 1
  BlockFuelCost = 0
  MaxOps = 2
  MaxGenerations = 3
  MaxCrashes = 1
  Client = {}
  Risks = {"blind"}
SPECIFICATION Spec
PROPERTIES CommitsSurvive
CHECK_DEADLOCK FALSE
SYMMETRY SameValues
