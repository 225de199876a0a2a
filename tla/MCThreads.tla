------------------------------- MODULE MCThreads -------------------------------
(***************************************************************************)
(* Fibers, and what the library shares between threads; one part is chosen *)
(* at the start: the fibers of one thread, the values they keep in         *)
(* fiber_specific_ptr objects, an algorithm that orders them by a          *)
(* property, a spinlock, a reactor's thread pool, the fibers that          *)
(* work_stealing or shared_work distribute, the work-stealing deque, or    *)
(* the queue of remotely readied fibers.                                   *)
(***************************************************************************)
EXTENDS Spinlock, Sequences, FiniteSets

CONSTANTS
    Launched, Main, Dispatcher, NoContext, MaxTime, MaxSwitches,
    Owners, Addresses, Values, NoValue, MaxPointers, Careful,
    Ordered, Priorities, MaxAlgos,
    Stealers, Fibers, NoFiber, MaxYields,
    Tasks, Workers, NoTask, NoWorker, MinSize, MaxSize,
    Pushers, Dummy, MaxPushes

VARIABLES
    part,
    \* the scheduler of one thread
    active, ready, sleep_queue_, worker_queue_, terminated_queue_, wait_queue_, use_count_,
    shutdown_, flag_, place, creator, joinable, joining, now, switches,
    \* fiber-specific values
    cleanup_fn_, fss_data_, ended, given, cleaned, last, pointers,
    \* ordered fibers
    algo_, queues, running, launched, properties_, priority,
    \* the thread pool
    free, busy, owner, thread, joined, task, isReady, isStopped, state, data,
    \* fibers of several threads
    run, top_, bottom_, array_, rqueue_, suspend_, pc, victim, top, ctx, pushes, fresh, yields,
    taken, raced, buried,
    \* remotely readied fibers
    head_, tail_, remote_nxt_, prev, pushed, popping, tail, next, order, swaps

Scheduler == INSTANCE FiberScheduler WITH Fibers <- Launched, at <- place
Storage == INSTANCE FiberStorage WITH Fibers <- Owners
Props == INSTANCE FiberProperties WITH Fibers <- Ordered, active <- running
Pool == INSTANCE ThreadPool
Stealing == INSTANCE WorkStealing WITH Threads <- Stealers, Size <- 1
Sharing == INSTANCE SharedWork WITH Threads <- Stealers
Deque == INSTANCE ChaseLevQueue
            WITH Owner <- CHOOSE t \in Threads : TRUE, Contexts <- Fibers,
                 NoContext <- NoFiber, Size <- 1, buffer_ <- array_, unpushed <- fresh
Remote == INSTANCE ContextMPSCQueue
            WITH Contexts <- Fibers, NoContext <- NoFiber, pc <- popping, pushes <- swaps

ASSUME ThreadsAssumption ==
    /\ Scheduler!SchedulerAssumption /\ Storage!StorageAssumption /\ Props!PropertiesAssumption
    /\ Pool!PoolAssumption /\ Stealing!StealingAssumption /\ Deque!DequeAssumption
    /\ Remote!ContextQueueAssumption

schedulerVars == <<active, ready, sleep_queue_, worker_queue_, terminated_queue_, wait_queue_,
                   use_count_, shutdown_, flag_, place, creator, joinable, joining, now, switches>>
storage == <<cleanup_fn_, fss_data_, ended, given, cleaned, last, pointers>>
propertyVars == <<algo_, queues, running, launched, properties_, priority>>
poolVars == <<free, busy, owner, thread, joined, task, isReady, isStopped, state, data>>
indices == <<top_, bottom_, array_, victim, top, ctx>>
fiberVars == <<run, suspend_, pc, pushes, fresh, yields>>
dequeVars == <<taken, raced, buried>>
remoteVars == <<head_, tail_, remote_nxt_, prev, pushed, popping, tail, next, order, swaps>>
threadVars == <<part, schedulerVars, storage, propertyVars, vars, poolVars, indices, fiberVars,
                rqueue_, dequeVars, remoteVars>>

\* The parts that share variables.
Distributing == {"stealing", "sharing", "deque"}
Parts == {"scheduler", "storage", "properties", "spinlock", "pool", "remote"} \cup Distributing

\* A part that was not chosen stays in one state.
AtRest == run = NoFiber /\ suspend_ = {} /\ pushes = NoFiber /\ yields = 0

ThreadsInit ==
    /\ part \in Parts
    /\ Scheduler!Init /\ Storage!Init /\ Props!Init /\ Remote!Init
    /\ Init /\ (part # "spinlock" => futex)
    /\ Pool!Init /\ (part # "pool" => free = CHOOSE s \in [1..MinSize -> Workers] : Pool!IsInjective(s))
    /\ \/ /\ part = "stealing" /\ Stealing!Init
          /\ rqueue_ = <<>> /\ taken = {} /\ raced = FALSE /\ buried = {}
       \/ /\ part = "sharing" /\ Sharing!Init
          /\ top_ = 0 /\ bottom_ = 0 /\ array_ = <<>> /\ victim = 0 /\ top = 0 /\ ctx = NoFiber
          /\ taken = {} /\ raced = FALSE /\ buried = {}
       \/ /\ part = "deque" /\ Deque!Init
          /\ AtRest /\ rqueue_ = <<>> /\ victim = 0
       \/ /\ part \notin Distributing
          /\ AtRest /\ rqueue_ = <<>> /\ pc = "runs" /\ fresh = {} /\ taken = {} /\ raced = FALSE /\ buried = {}
          /\ top_ = 0 /\ bottom_ = 0 /\ array_ = <<>> /\ victim = 0 /\ top = 0 /\ ctx = NoFiber

\* One step, of the part that was chosen.
Of(chosen, Step_) ==
    /\ part = chosen /\ UNCHANGED part
    /\ Step_
    /\ chosen # "scheduler" => UNCHANGED schedulerVars
    /\ chosen # "storage" => UNCHANGED storage
    /\ chosen # "properties" => UNCHANGED propertyVars
    /\ chosen # "spinlock" => UNCHANGED vars
    /\ chosen # "pool" => UNCHANGED poolVars
    /\ chosen # "remote" => UNCHANGED remoteVars
    /\ chosen \notin Distributing => UNCHANGED <<fiberVars, indices, rqueue_, dequeVars>>
    /\ chosen = "stealing" => UNCHANGED <<rqueue_, dequeVars>>
    /\ chosen = "sharing" => UNCHANGED <<indices, dequeVars>>
    /\ chosen = "deque" => UNCHANGED <<run, suspend_, pushes, yields, victim, rqueue_>>

ThreadsNext ==
    \/ Of("scheduler", Scheduler!Next) \/ Of("storage", Storage!StorageNext)
    \/ Of("properties", Props!PropertiesNext)
    \/ Of("spinlock", Next) \/ Of("pool", Pool!Next)
    \/ Of("stealing", Stealing!Next) \/ Of("sharing", Sharing!Next) \/ Of("deque", Deque!Next)
    \/ Of("remote", Remote!ContextQueueNext)

\* Threads run and the clock advances, whoever holds a spinlock unlocks it, a
\* fiber some day yields or ends, and the pool's owner finishes what it has begun.
ThreadsSpec ==
    /\ ThreadsInit /\ [][ThreadsNext]_threadVars
    /\ WF_threadVars(Of("scheduler", Scheduler!Step))
    /\ WF_threadVars(Of("scheduler", Scheduler!Tick))
    /\ \A t \in Threads : WF_threadVars(Of("spinlock", Step(t)))
    /\ \A w \in Workers : WF_threadVars(Of("pool", Pool!Worker(w)))
    /\ WF_threadVars(Of("pool", Pool!Finishes))
    /\ \A t \in Stealers :
          WF_threadVars(Of("stealing", Stealing!Step(t)) \/ Of("sharing", Sharing!Step(t)))

--------------------------------------------------------------------------------

LinkedWhereItBelongs == Scheduler!LinkedWhereItBelongs
DestroyedWithLastReference == Scheduler!DestroyedWithLastReference
SleepersWakeOnTime == Scheduler!SleepersWakeOnTime
ValuesHaveOneOwner == Storage!ValuesHaveOneOwner
ReadyQueueIsSorted == Props!ReadyQueueIsSorted
WorkersAccountedFor == Pool!WorkersAccountedFor

\* What is pushed into the queue of remotely readied fibers is taken once, in order,
\* although several threads push.  What is pushed into the deque is taken at most
\* once, and never lost but for the first push after a pop() that has lost the race
\* for the last element.
HandedOutOnce ==
    /\ part = "deque" => Deque!TypeOK /\ Deque!HandedOutOnce
    /\ Remote!PopsInOrder

\* A ready fiber is in one queue, once, and runs on one thread, once it no longer
\* runs on another, although owners and thieves pop without a lock.
Shared == part \in {"stealing", "sharing"}
Offered == IF part = "stealing" THEN Stealing!Ready
           ELSE IF part = "sharing" THEN Sharing!Ready ELSE {}
AsPool == INSTANCE ReadyFibers WITH Threads <- Stealers, ready <- Offered
SharesFibers == (Shared => AsPool!Init) /\ [][Shared => AsPool!Next]_(AsPool!pool)

\* Every ready fiber runs some day: under shared_work although threads that found
\* nothing may suspend, under work_stealing where no thread does.
ReadyFiberRuns ==
    []<>(/\ part = "stealing" /\ suspend_ = {} => Stealing!NobodyIsReady
         /\ part = "sharing" => Sharing!NobodyIsReady)

\* As long as no thread locks for ever, every lock() of a spinlock returns: a
\* sleeper is woken although unlock() stores 0 over its 2, and although one
\* unlock() wakes only one.  A message handed to a worker that waits is processed,
\* a worker that waits is stopped.  And join() and ~scheduler() return: contexts
\* may switch only MaxSwitches times, so the thread ends.
CallsReturn ==
    []<>(/\ NobodyWaits
         /\ Pool!NothingIsOwed
         /\ part = "scheduler" => Scheduler!ThreadEnded)
================================================================================
