SPECIFICATION FairSpec
CONSTANTS
    Root = Root  A = A  B = B  C = C  D = D  E = E  F = F
    Nodes = {Root, A, B, C, D, E, F}
    Networks <- Examples
    None = None
    All = All
    MaxPorts = 3
    MaxNodes = 8
    SeenSize = 2
    SeenExpire = 1
    SeqMod = 4
    TimeMod = 4
    LinkSize = 4
    MaxSends = 2
    QuietTick = TRUE
INVARIANTS TypeOK DeliverOnce
PROPERTIES GetsThrough
