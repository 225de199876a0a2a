\* a client that calls reset() again
SPECIFICATION StorageSpec
CONSTANTS
    Fibers = {f1}
    Main = main
    Addresses = {x1}
    Values = {v1, v2}
    NoValue = NoValue
    MaxPointers = 1
    Careful = FALSE
INVARIANT GetReturnsLast
