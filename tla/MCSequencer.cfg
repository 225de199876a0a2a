SPECIFICATION Spec
CONSTANTS
    p1 = p1
    p2 = p2
    a = a
    b = b
    c = c
    Publishers = {p1, p2}
    Processors = {a, b, c}
    Cursor = Cursor
    Arrangements <- Timely
    N = 2
    MaxBatch = 2
    MaxSequence = 3
    LongMax = 9
\* the run ends at MaxSequence, and a processor may sleep
CHECK_DEADLOCK FALSE
INVARIANTS
    SlotsAreFree
    BatchIsIntact
    CapacityHolds
PROPERTIES
    EventsAreProcessed
