\* timed_mutex: two fibers, one with a deadline
SPECIFICATION Spec
CONSTANTS
    Fibers = {f1, f2}
    NoFiber = NoFiber
    Timed = {f1}
    Recursive = FALSE
    MaxDepth = 1
INVARIANT FreeWhenUnused
