SPECIFICATION Spec
CONSTANTS
    Threads = {t1, t2}
    Contents = {c1, c2}
    None = None
    Chunk = 1
    MaxRows = 2
SYMMETRY Symmetry
INVARIANTS ContentKept ContentReclaimed StartsAgain PassDrains
PROPERTIES OnlyRetentionDeletes
