SPECIFICATION Spec
CONSTANTS
    first = first  second = second  server = server
    Nodes = {first, second, server}
    Requests <- OneMore
    All = All
    None = None
    MaxTrans = 2
    SeqMod = 4
    Broadcasters = {second}
    MaxBroadcasts = 1
    MaxFaults = 1
INVARIANTS TypeOK InStep AnswersOwn
CHECK_DEADLOCK FALSE
