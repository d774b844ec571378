SPECIFICATION Spec
CONSTANTS
    Frames <- AllFrames
    None = None
    MaxSlots = 2
    MaxFrags = 3
    BlockCount = 3
    FragSize = 2
    MaxPayload = 3
    ReasmTimeout = 2
    TimeMod = 6
    MaxStep = 1
INVARIANTS TypeOK PoolConservation Integrity SlotsConsistent SlotAge
