SPECIFICATION FairSpec
CONSTANTS
    a1 = a1  a2 = a2  s1 = s1  s2 = s2  n1 = n1
    AsyncCalls = {a1}
    SyncCalls = {s1, s2}
    SilentCalls = {a1}
    Thread <- OneThread
    Nodes = {n1}
    None = None
    MaxTrans = 2
    SeqMod = 1
    TimeMod = 2
    DefaultTimeout = 1
    SyncTimeouts = {1}
    MaxBatch = 1
    MaxStep = 1
    CanDeinit = TRUE
    QuiescentDeinit = TRUE
INVARIANTS SyncOkMeansAnswered SemaphoreAlive NoSemaphoreLeak
PROPERTIES SlotReleased
CHECK_DEADLOCK FALSE
