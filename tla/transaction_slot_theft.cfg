SPECIFICATION Spec
CONSTANTS
    a1 = a1  a2 = a2  s1 = s1  s2 = s2  n1 = n1
    AsyncCalls = {}
    SyncCalls = {s1, s2}
    SilentCalls = {}
    Thread <- OwnThread
    Nodes = {n1}
    None = None
    MaxTrans = 1
    SeqMod = 2
    TimeMod = 4
    DefaultTimeout = 1
    SyncTimeouts = {1}
    MaxBatch = 1
    MaxStep = 1
    CanDeinit = FALSE
    QuiescentDeinit = FALSE
INVARIANTS SyncOkMeansAnswered

CHECK_DEADLOCK FALSE
