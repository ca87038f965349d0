SPECIFICATION FairBehaviour
CONSTANTS
  s1 = s1
  s2 = s2
  s3 = s3
  Servers = {s1, s2, s3}
  NetworkFails = FALSE
  W = 8
CHECK_DEADLOCK FALSE
INVARIANTS RepliesOnce WaitsForAll ConnectionsRight JobsRight
PROPERTIES ResultsStay AllAnswered
