CONSTANTS
    MaxChunks = 3
    MaxKeepalives = 2
SPECIFICATION Spec
CHECK_DEADLOCK FALSE
INVARIANTS GeneratorNotShared OneRow
PROPERTIES KeepsPromise
