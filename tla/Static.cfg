SPECIFICATION FairBehaviour
CHECK_DEADLOCK FALSE
INVARIANTS BuildRight
PROPERTIES BothEnd
