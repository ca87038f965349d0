SPECIFICATION Behaviour
CONSTANTS
  x1 = x1
  x2 = x2
  u1 = u1
  u2 = u2
  u3 = u3
  Vectors = {v1, v2, v3}
  Deletable = {}
  InitHeads = {h0}
  SpareHeads = {n1, n2}
  Feeders = {f1}
  Workers = {w1, w2}
  None = None
  Tombstone = Tombstone
  Limit = 1
  ReassignSlack = 1
  ReplicaCount = 1
  MaxVersion = 1
  MergeThreshold = 2
  BalancePercent = 0
  FilterAppend = TRUE
  EnableOptSplit = FALSE
  DisableReassign = FALSE
  SameHead = FALSE
  Identical = FALSE
CHECK_DEADLOCK FALSE
INVARIANTS NeverIntoRetired
SYMMETRY Sym
