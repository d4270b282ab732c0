SPECIFICATION TunnelSpec
CONSTANTS
    Window = 2
    MaxSent = 3
INVARIANTS TunnelFaithful OneReply
PROPERTIES TunnelEnds
CHECK_DEADLOCK FALSE
