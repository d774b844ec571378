SPECIFICATION Spec
CONSTANTS
    Producers = {p1}
    Frames = {f1, f2, f3}
    Oversize = {f3}
    Capacity = 2
    None = None
    Exclusion = "isr"
INVARIANTS QueueHoldsAccepted
