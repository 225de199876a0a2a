\* three producers, two consumers
SPECIFICATION ChannelsSpec
CONSTANTS
    Producers = {p1, p2, p3}
    Consumers = {c1, c2}
    Timed = {p1, c1}
    Trying = {p2, c2}
    Values = {a, b}
    NoValue = NoValue
    NoFiber = NoFiber
    Capacity = 2
    Word = 8
    Hwm = 3
    Lwm = 1
    MaxSize = 3
INVARIANTS
    NobodySleepsBesideWork
    EverySleeperIsLinked
    AnswerIsTrue
PROPERTIES
    BuffersInOrder
    CloseEndsPops
