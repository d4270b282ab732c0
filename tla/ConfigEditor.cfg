SPECIFICATION Spec
CONSTANTS
    Admins = {a, b}
    Ports = {p1, p2}
    Levels = {0, 1, 2}
    None = None
SYMMETRY Symmetry
INVARIANTS ThresholdsOrdered MemoryMatchesFile
PROPERTIES RoundTripHarmless
