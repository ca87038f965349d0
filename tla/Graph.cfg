SPECIFICATION FairBehaviour
CHECK_DEADLOCK FALSE
INVARIANTS SearchesRight LinksRight
PROPERTIES AddingEnds
