\* Two fibers and main, each of which yields or sleeps up to twice; one fiber and
\* main store values; three fibers are ordered; three threads at a spinlock; a
\* pool that makes up to four workers; two threads with three fibers; two threads
\* that push.
SPECIFICATION ThreadsSpec
CONSTANTS
    Launched = {f1, f2}
    Main = main
    Dispatcher = dispatcher
    NoContext = NoContext
    MaxTime = 2
    MaxSwitches = 2
    Owners = {f1}
    Addresses = {x1, x2}
    Values = {v1, v2}
    NoValue = NoValue
    MaxPointers = 3
    Careful = TRUE
    Ordered = {f1, f2, main}
    Priorities = {0, 1, 2}
    MaxAlgos = 3
    Threads = {t1, t2, t3}
    MaxLocks = 2
    Stealers = {t1, t2}
    Fibers = {f1, f2, f3}
    NoFiber = NoFiber
    MaxYields = 1
    Tasks = {m1, m2, m3}
    Workers = {w1, w2, w3, w4}
    NoTask = NoTask
    NoWorker = NoWorker
    MinSize = 1
    MaxSize = 2
    Pushers = {t1, t2}
    Dummy = dummy
    MaxPushes = 4
\* the thread, the locks, the fibers and the pool come to an end
CHECK_DEADLOCK FALSE
INVARIANTS
    LinkedWhereItBelongs
    DestroyedWithLastReference
    ValuesHaveOneOwner
    ReadyQueueIsSorted
    OneHolder
    WorkersAccountedFor
    HandedOutOnce
PROPERTIES
    SleepersWakeOnTime
    SharesFibers
    ReadyFiberRuns
    CallsReturn
