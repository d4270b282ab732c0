SPECIFICATION FloorSpec
CONSTANTS
    Connections = {h1, h2}
    Contexts = {c1, c2}
    NoContext = NoContext
    Estimates = {1, 3}
    Inputs = {2, 9}
    Outputs = {1}
    Threshold = 6
    RatioMinBaseline = 2
    RatioMax = 3
    MaxEntries = 1
SYMMETRY Symmetry
INVARIANTS FloorIsOwn
PROPERTIES LongStaysLong
