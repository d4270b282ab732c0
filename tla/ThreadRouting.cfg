CONSTANTS
    h1 = h1
    h2 = h2
    m1 = m1
    m2 = m2
    haiku = haiku
    opus = opus
    claudeOpus = claudeOpus
    s1 = s1
    t1 = t1
    t2 = t2
    None = None
    Handlers = {h1, h2}
    Ids = {m1, m2}
    Models <- MCModels
    Names <- MCNames
    Resolve <- MCResolve
    LongName = opus
    WideModels = {claudeOpus}
    Sessions = {s1, None}
    Texts = {t1, t2}
    ClientBetas = {FALSE}
    Ttl = 1
    MaxEntries = 1
SPECIFICATION Spec
SYMMETRY MCSymmetry
INVARIANTS
    PinIsThreadModel
    PinnedNeverMismatched
    DeliveredIsPinned
    WindowKept
    LongThreadNeverRefused
    HandoffWasPromised
    PromiseKept
