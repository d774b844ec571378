SPECIFICATION FairSpec
CONSTANTS
    b = b
    Messages <- TwoCalls
    Peers = {b}
    Broadcasts = {1}
    MaxPending = 2
    MaxFrags = 2
    AckTimeout = 1
    RetryMax = 1
    TimeMod = 6
    MaxStep = 1
    None = None
INVARIANTS TypeOK AckMeansReceived Persistent
PROPERTIES FailedNotResent Backoff Drained
