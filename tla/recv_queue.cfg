SPECIFICATION Spec
CONSTANTS
    Producers = {p1, p2}
    Frames = {f1, f2, f3}
    Oversize = {f3}
    Capacity = 3
    None = None
    Exclusion = "lock"
INVARIANTS TypeOK QueueHoldsAccepted
PROPERTIES ImplementsFifo
