SPECIFICATION Spec
CONSTANTS
    Admins = {a}
    Ports = {p1, p2}
    Levels = {0, 1, 2}
    None = None
INVARIANT LiveEditApplies
