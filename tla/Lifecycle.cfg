SPECIFICATION FairBehaviour
CHECK_DEADLOCK FALSE
INVARIANTS FilesRight
PROPERTIES RoundTrip
