SPECIFICATION Spec
CONSTANTS
    first = first  second = second  server = server
    Nodes = {first, second, server}
    Requests <- TwoClients
    All = All
    None = None
    MaxTrans = 2
    SeqMod = 4
    Broadcasters = {}
    MaxBroadcasts = 0
    MaxFaults = 0
INVARIANTS RepliesAccepted
CHECK_DEADLOCK FALSE
