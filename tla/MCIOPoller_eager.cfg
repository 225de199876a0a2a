\* clients that send when they like
SPECIFICATION AllSpec
CONSTANTS
    Fibers = {f1, f2}
    Main = Main
    NoFiber = NoFiber
    BatchSize = 2
    Capacity = 2
    MaxBlocks = 1
    MaxClients = 1
    Eager = TRUE
    PollLimit = 3
INVARIANTS
    ResumeFindsLinked
