SPECIFICATION Behaviour
CONSTANTS
  a = a
  None = None
  Keys = {k1, k2}
  Threads = {t1, t2}
  Records = {a}
  Blocks = {b1, b2, b3}
  Lists = {l1, l2, l3}
  PageSize = 2
  BlockLimit = 2
  BufferSize = 1
  Inputs <- One
  Locking = "all"
  Restarts = FALSE
CHECK_DEADLOCK FALSE
INVARIANTS BlocksOwned ListsOwned PagesRight IoRight
PROPERTIES IsKeyValue
SYMMETRY Sym
