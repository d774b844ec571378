SPECIFICATION FairSpec
CONSTANTS
    Root = Root  A = A  B = B  C = C  D = D  E = E  F = F
    Nodes = {A, B, C}
    Networks <- Looping
    None = None
    All = All
    MaxPorts = 2
    MaxNodes = 2
    SeenSize = 2
    SeenExpire = 1
    SeqMod = 3
    TimeMod = 4
    LinkSize = 4
    MaxSends = 3
    QuietTick = TRUE
INVARIANTS SeenUnique
PROPERTIES ComesToRest
