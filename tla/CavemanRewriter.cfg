CONSTANTS
    None = None
    Callers = {a, b}
    Prompts = {p}
    Rewrites = {r1, r2}
    Workers = 1
SPECIFICATION Spec
INVARIANTS
    TypeOK
    SlotsConserved
    CacheHoldsAccepted
    LocksNotLeaked
    SamePromptUnlessFailed
PROPERTIES
    EveryRequestReturns
