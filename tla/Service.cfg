SPECIFICATION FairBehaviour
CONSTANTS
  Workers = {w1, w2}
  Jobs = {j1, j2, j3}
  None = None
  MayThrow = FALSE
CHECK_DEADLOCK FALSE
INVARIANTS TakesAJob Accounted CountsRunning BatchesRight
PROPERTIES ServiceEnds
