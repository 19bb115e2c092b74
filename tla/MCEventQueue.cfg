CONSTANTS
    e1 = e1
    e2 = e2
    r1 = r1
    r2 = r2
    r3 = r3
    NoEvent = NoEvent
    Events = {e1, e2}
    Receivers = {r1, r2, r3}
    Capacity = 3
SPECIFICATION FairSpec
INVARIANTS RingConsistent NoLostWakeup
PROPERTIES ImplementsFifo FullQueueDrains
