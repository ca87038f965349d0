SPECIFICATION Behaviour
CONSTANTS
  h1 = h1
  h2 = h2
  h3 = h3
  v1 = v1
  v2 = v2
  v3 = v3
  None = None
  Heads = {h1, h2, h3}
  Vectors = {v1, v2, v3}
  Workers = {w1, w2}
  Searchers = {s1}
  Deletable = {v1}
  Appenders = {}
  Posted <- OneEach
  Threshold = 2
  Limit = 4
  DisableReassign = FALSE
  MaxJobs = 2
CHECK_DEADLOCK FALSE
INVARIANTS NothingLost ListedHasJob SearchRight AppendsRight
SYMMETRY Sym
