CONSTANTS
    MaxRetries = 3
    None = None
SPECIFICATION Spec
CHECK_DEADLOCK FALSE
INVARIANTS
    RefusalNotRepeated
    RetriesSpent
    ReportedIdIsFinal
PROPERTIES
    CallEnds
