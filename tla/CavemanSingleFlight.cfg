CONSTANTS
    None = None
    Callers = {a, b}
    Prompts = {p}
    Rewrites = {r1, r2}
    Workers = 2
SPECIFICATION Spec
INVARIANT
    SingleFlight
