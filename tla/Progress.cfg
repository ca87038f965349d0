SPECIFICATION FairBehaviour
CONSTANTS
  None = None
  f1 = f1
  w1 = w1
  h0 = h0
  n1 = n1
  n2 = n2
  n3 = n3
  n4 = n4
CHECK_DEADLOCK FALSE
PROPERTIES SplitsEnd CallsEnd
