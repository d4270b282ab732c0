SPECIFICATION Spec
CONSTANTS
    Handlers = {h1, h2}
    Requests = {"haiku", "opus"}
    Locks = {Off, "sonnet"}
    Off = Off
    LongTarget = long
    None = None
    NoTurn = NoTurn
    MaxEntries = 2
SYMMETRY Symmetry
INVARIANTS SentinelHeld ReplayCapped AffirmationStands
PROPERTIES OnlyAnswersCached
