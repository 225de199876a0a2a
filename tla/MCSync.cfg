\* five fibers, two of which give deadlines
SPECIFICATION SyncSpec
CONSTANTS
    Fibers = {f1, f2, f3, f4, f5}
    NoFiber = NoFiber
    Timed = {f1, f2}
    Recursive = FALSE
    MaxDepth = 2
    MaxCycles = 3
    Setters = {f4, f5}
    Readers = {f2, f3}
\* every fiber may wait at once, with nobody left to notify; and MaxCycles ends
\* the use of a barrier
CHECK_DEADLOCK FALSE
INVARIANTS
    MutualExclusion
    CountIsHeldUntimed
    NoLostWakeup
    LinkedOnce
    CyclesAreWhole
    ResultIsKept
PROPERTIES
    WaitUsesMutex
    WaitersReturn
