CONSTANTS
    Nothing = Nothing
    Tokens = {A, B}
    Base = 2
    MinCooldown = 3
    MaxBackoff = 6
    RetryAfters = {0, 5, 9}
SPECIFICATION UsageSpec
INVARIANTS
    RetryAfterKept
PROPERTIES
    OnlyOwnSuccess
    UsageCatchesUp
