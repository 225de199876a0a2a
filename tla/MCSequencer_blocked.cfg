SPECIFICATION Spec
CONSTANTS
    p1 = p1
    p2 = p2
    a = a
    b = b
    c = c
    Publishers = {p1, p2}
    Processors = {a, b, c}
    Cursor = Cursor
    Arrangements <- Untimely
    N = 2
    MaxBatch = 2
    MaxSequence = 2
    LongMax = 9
CHECK_DEADLOCK FALSE
INVARIANT
    PublishUnblocks
