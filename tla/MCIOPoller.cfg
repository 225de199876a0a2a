\* two fibers, a ring of two slots, batches of up to three blocks, one client
SPECIFICATION AllSpec
CONSTANTS
    Fibers = {f1, f2}
    Main = Main
    NoFiber = NoFiber
    BatchSize = 2
    Capacity = 2
    MaxBlocks = 3
    MaxClients = 1
    Eager = FALSE
    PollLimit = 3
INVARIANTS
    EventsAreForWaiters
    ResumesTheWaiter
    CallOutlivesEvents
PROPERTIES
    FileOperationsReturn
