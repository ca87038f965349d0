SPECIFICATION Behaviour
CONSTANTS
  Threads = {a1, a2}
  SameHead = FALSE
  Blank = Blank
  None = None
CHECK_DEADLOCK FALSE
INVARIANTS MergingOwned SplittingOwned  KernelsRight
SYMMETRY Sym
