\* Two reactors: the application's function, two stop messages and two calls or
\* asynchronous tasks.
SPECIFICATION Spec
CONSTANTS
    CPUs = 2
    Tasks = {app, t1, t2, t3, t4}
    App = app
    Main = Main
    Dispatcher = Dispatcher
    NoTask = NoTask
    Capacity <- SmallInboxes
\* the application ends
CHECK_DEADLOCK FALSE
INVARIANTS
    ResumeFindsWaiting
    FibersAccountedFor
    CleanExit
PROPERTIES
    CallsAndLoopsEnd
