# A verification development for dumbo

dumbo is an event-driven framework: one reactor per CPU, each an event loop in
its own thread; messages between reactors through lock-free inboxes; a pool of
threads for blocking work; asynchronous file and socket I/O; and, under all of
it, a fiber library (a single-threaded fork of Boost.Fiber) with its mutexes,
condition variables, barrier, channels and futures.

The modules here are translated from the sources (`src/include/dumbo/v1`,
`src/src`), checked with TLC on small instances, and proved with TLAPS where
noted. `PROJECT.json` lists components, runs, findings, hazards and theorems,
and maps every definition to the lines it models.

## 1. The system

| component | state | operations | what makes it correct |
|---|---|---|---|
| inbox (`reactor/mpsc_queue.hpp`, over `disruptor/`) | claim counter, cursor, consumer position, ring of slots | `send`, `get`, `get_all` | no slot is raced for; no message lost, duplicated or reordered; `send` returns |
| disruptor as a library (`disruptor/sequencer.h`, `claim_strategy.h`, `sequence_barrier.h`, `wait_strategy.h`, `event_processor.h`) | cursor, claims, cached minimum of the gates, a sequence per processor, alerts | claim and publish, `HasAvailableCapacity`, `WaitFor` with and without deadline, the processors' batches | no slot overwritten that a gate needs; a batch is published and behind its dependents; every event is handled |
| reactors (`reactor/reactor.*`, `smp*`, `application.*`, `message/`) | inboxes, `running_`, the fibers of each thread, messages under way | `run_at`, `run_at_async`, `shutdown`, event loop | every call is answered unless a reactor it needs has gone or spins for ever in `submit_to`, an answer meets a suspended caller, the loop ends and leaves nothing behind |
| thread pool (`reactor/thread_pool.*`) | free and busy workers, each worker's mutex, flags and task | `try_run`, `release`, `stop_workers`, the worker's loop | no message forgotten, no worker used twice or deleted under its thread |
| I/O poller, files, sockets (`reactor/linux/`; `reactor/msvc/` has them over a completion port) | completion ring, aio context, epoll set or port, messages on fibers' stacks | `poll`, `read`, `write`, `process_batch`, `accept` | each completion wakes its fiber once, and none is left for a call that has returned; the ring never overflows |
| fiber scheduler (`fiber/scheduler.*`, `context.*`, `fiber.*`, `algo/round_robin.*`) | ready, sleep, worker, terminated and join queues, reference counts | launch, `yield`, `sleep`, `join`, `detach`, terminate, dispatch, shutdown | a context is linked where it belongs, is destroyed once and not too early; the thread ends |
| mutexes (`fiber/*mutex.*`) | owner, count, wait queue | `lock`, `try_lock`, `try_lock_until`, `unlock` | one holder; no lost wake-up; free when unused |
| condition variables (`fiber/condition_variable.*`) | wait queue | `wait`, `wait_until`, `notify_one`, `notify_all` | no waiter missed between release and sleep |
| barrier (`fiber/barrier.*`) | missing count, one-bit cycle | `wait` | nobody sleeps through a cycle |
| channels (`fiber/*_channel.hpp`) | slot, ring or list; closed flag; two queues of fibers | `push`, `pop`, the trying and timed ones, `close` | FIFO; nobody stranded; the status tells what became of the value |
| futures (`fiber/future/`) | readiness, result or exception, reference count | `set_value`, `get`, `wait`, destruction | the result arrives once; the state outlives its users |
| work sharing and stealing (`fiber/algo/shared_work.*`, `work_stealing.*`, `detail/context_spmc_queue.hpp`, `algo/detail/chase_lev_queue.hpp`, `detail/context_mpsc_queue.hpp`) | a queue per thread that others steal from, or one under a mutex | `awakened`, `pick_next`, `steal`, `suspend_until`, `notify` | no fiber run by two threads, none lost (the deque, which nothing uses, does lose one: run `deque_lost`); ready fibers run |
| spinlocks (`fiber/detail/spinlock*.hpp`) | one word, sleepers of a futex | `lock`, `unlock` | one holder; the last sleeper is woken |
| fiber-specific values, properties (`fiber/fss.hpp`, `properties.*`, `algo/algorithm.hpp`) | a map per context; properties per context, with the algorithm they notify | `get`, `reset`, `release`, destruction; `set_algo`, a change of a property | a value has one owner and is cleaned up once; the algorithm's queue stays in order |

How they interact: a reactor's event loop is the main context of its thread's
fiber scheduler, whose algorithm is the reactor's own; `run_at` puts a message in
the target's inbox and suspends the calling fiber on a wait queue of that
algorithm; the target starts a fiber that processes the message and sends the
same message back; the caller's loop then resumes the caller. A pool worker does
the same from a thread of its own. Pollers put finished I/O in a ring that the
same loop drains. Mutexes, conditions, channels, barrier and futures suspend and
ready fibers through `context` and `scheduler`, with `wait_hook_` as the one link
of a waiting fiber; fibers of one scheduler share a thread and
`detail/spinlock.hpp` is empty, so only a context switch interleaves them. The other
spinlocks, `work_stealing`, `shared_work` and the queues of `detail/` are for clients
with fibers on several threads.

What is hard here: the inbox's claims and gates between threads; a consumer that
gives back slots only batch by batch; a reactor that spins in `send` and is
itself the consumer; loop exit on a flag and a fiber count; a worker thread that
clears a flag somebody has already set; deadlines that pass after a fiber was
chosen; one hook for two queues; a barrier with a one-bit cycle; indices that
wrap; minima scanned while they move; a `pop()` and a `steal()` that want the same
element; operations that complete before the call that started them has counted them. `hazards` in `PROJECT.json` lists them with their lines and properties.

Not part of the model. Stack allocators are aliases of Boost.Context's; formatting,
casts and an unused latch keep no state; `main.cpp` is a demonstration. Within
modelled parts: opening, closing, seeking, binding and listening, and IP
addresses; failing system calls that end the process; weak memory (shared accesses
interleave; the orders the code gives are those of the published algorithms);
`async()`, `buffered_channel`'s destructor and the channels' iterators; and
the registration of a thread's algorithm while other threads already steal.

## 2. Modules

Conventions. In modules of threads (`MPSCQueue`, `Sequencer`, `Spinlock`, `ThreadPool`,
`WorkStealing`, `SharedWork`, `ChaseLevQueue`, `ContextMPSCQueue`) an action is one
access to shared state, or a critical section. In modules of fibers of one
thread an action is everything a fiber does between two context switches, and
any ready fiber may be picked next unless the module is about the scheduler
itself; time is the choice of whether a deadline has passed. A definition marked
`\* mutant` is a plausible slip in the code, used to show that the property it
is paired with in `PROJECT.json` can fail; no action uses one.

| module | models | abstract counterpart |
|---|---|---|
| `MessageFifo` | what an inbox promises: accept, deliver, in order, some day | |
| `MPSCQueue` | `MPSCQueue::send`, `get(n, fn)`, `get_all`, `IncrementAndGet`, `SynchronizePublishing`, `begin_batch`, `commit` | implements `MessageFifo` |
| `MPSCQueueProofs` | theorems about `MPSCQueue`, and that it implements `MessageFifo` but for its fairness | |
| `Sequencer` | both claim strategies, `SequenceBarrier`, the five wait strategies, `BatchEventProcessor`, for any graph of processors in which a gate lies behind each, any number of steps away (`ArrangementOK`) | |
| `SequencerProofs` | theorems about `Sequencer` and its batches | |
| `Reactor` | `event_loop`, `run_at`, `run_at_async`, `shutdown`, the reactor's scheduler | uses the inbox as a FIFO |
| `ReactorProofs` | theorems about `Reactor` | |
| `ThreadPool` | workers, `try_run`, `release`, `stop_workers` | |
| `FiberScheduler` | launch, yield, sleep, join, detach, terminate, dispatcher, `~scheduler` | |
| `FiberStorage` | `fiber_specific_ptr`, `set_fss_data`, cleanup at the end of a fiber | |
| `FiberProperties` | `fiber_properties`, `algorithm_with_properties`, `set_algo` | |
| `ReadyFibers` | what threads that share ready fibers promise: one pool, each fiber taken once | |
| `WorkStealing` | `work_stealing` with `context_spmc_queue` | implements `ReadyFibers` |
| `SharedWork` | `shared_work` | implements `ReadyFibers` |
| `ChaseLevQueue` | `chase_lev_queue`, which nothing uses yet, with the race that loses a fiber | |
| `ContextMPSCQueue` | `context_mpsc_queue`, which nothing includes | |
| `Spinlock` | `spinlock_ttas`, its adaptive and its futex variants | |
| `ThreadsProofs` | theorems about spinlocks, the scheduler, fiber-specific values and the pool, as `MCThreads` puts them together | |
| `ReadyQueueProofs` | theorems about queues of ready fibers: stealing, sharing, the deque, the remote queue, and the ordered queue of `FiberProperties`; extends `ThreadsProofs` | |
| `FiberMutex` | the four mutexes (constants `Recursive`, `Timed`) | |
| `ConditionVariable` | `condition_variable_any`, extends `FiberMutex` | its mutex part implements `FiberMutex` |
| `Barrier` | `barrier::wait` | |
| `Channel` | what a buffering channel promises | |
| `BufferedChannel` | `buffered_channel`'s ring of slots with cycles | implements `Channel` |
| `QueueChannel` | `bounded_channel` and `unbounded_channel` | implements `Channel` |
| `UnbufferedChannel` | `unbuffered_channel`'s rendezvous slot | |
| `ChannelProofs` | theorems about the four channels, as `MCChannels` puts them together | |
| `SharedState` | the state a promise or packaged task shares with its futures, extends `ConditionVariable` | |
| `SyncProofs` | theorems about `FiberMutex`, and about mutexes, condition variables, the barrier and futures as `MCSync` puts them together | |
| `IOPoller` | `IOPoller::poll`, the ring of the event loop, file operations and batches, `accept`, connections; the kernel is external | |
| `CompletionPort` | the Windows build of the same: the port, operations and batches that complete at once, later or not; extends `IOPoller` | |
| `IOProofs` | theorems about the poller in both builds, as `MCIOPoller` puts them together | |

`Reactor` composes with `MPSCQueue` through `MessageFifo`: its inbox is the FIFO
that `MPSCQueue` is shown to implement, a full one keeping the sender in `send`.
`ThreadPool` sends its answers through the same inbox and models it as a reply
that arrives.

`MCSync` and `MCChannels` put the objects fibers share side by side: a behaviour
uses one of them, chosen in its initial state (`object`, `kind`), through an
INSTANCE of its module (or, for conditions and futures, the module they extend), and the instances share the variables that mean the same
in each (where every fiber is, the two queues of waiting fibers). Their
invariants are those of the component modules, for the objects they hold of:
that nobody is stranded, say, is a promise to clients without deadlines.

`MCThreads` does the same with parts that share little: a behaviour has one
`part` (the scheduler of one thread, fiber-specific values, properties, a spinlock,
the pool, `work_stealing`, `shared_work`, the deque, the queue of remotely readied
fibers), and the others stay as they are. `MCSequencer` names the arrangements of
processors its runs use; `MCIOPoller` has both builds, chosen by `windows`;
`MCReactor` gives each inbox its size. The other `MC` modules add nothing to the module they extend.

`SharedState` is built on the condition variable's mutex and queue of waiting
fibers: `Setters` are the clients of the promise, `Readers` hold futures; the
reference count and who holds what are its own. `IOPoller` has one reactor's
loop, as `Reactor` has, and leaves out what comes from other reactors; it shares no
variable with it.

State maps by name: a variable called `owner_`, `wait_queue_`, `cycle_` is the
member of that name; `at` or `pc` is the place in the code where a thread or fiber
is; variables such as `held`, `taken`, `status`, `calls`, `joined` are history that
properties need and guards do not read. The map gives the lines of each action.

## 3. Runs

Passing runs (constants are in the run's `.cfg`):

| run | instance | shows |
|---|---|---|
| `queue` | 3 producers, ring of 2 slots, 6 messages | no slot raced for (`NoSlotRace`), no claim lost (`ClaimsAccountedFor`), the inbox is a FIFO (`ImplementsFifo`, a refinement with liveness), a full ring does not keep a sender (`SendReturns`) |
| `disruptor` | ring of 2 slots, claims of 1 or 2; a diamond of 3 processors behind one publisher, a chain of 2 that block behind two publishers, a pipeline of 3 of which only the last is a gate, 3 processors that are alerted; every wait strategy, deadlines | no slot is stored into that a gate needs (`SlotsAreFree`), what a processor handles is published, behind its dependents and not overwritten meanwhile (`BatchIsIntact`), a publisher told that there is room need not wait (`CapacityHolds`), published events are handled although the last event is never followed by another (`EventsAreProcessed`) |
| `reactors` | 2 reactors, 5 messages (the application, 2 stops, 2 tasks), inboxes of 1 and of 2 slots | a reply finds its caller suspended (`ResumeFindsWaiting`), every context and every call is in one place (`FibersAccountedFor`), a loop leaves nothing behind (`CleanExit`), calls return and stopped loops end, unless a reactor has left or is jammed, that is, spins for ever on an inbox that nobody will empty (`Jammed`), its own included (`CallsAndLoopsEnd`) |
| `fibers` | one part of `MCThreads` each: 2 fibers and main, 2 switches each; 2 contexts that store 2 values; 3 ordered fibers; 3 threads at a lock; 3 messages for 1 to 2 of 4 workers; 2 threads with 3 fibers; 3 threads at a deque of 1 slot that grows; 2 threads that push 4 times | one queue per context and hook (`LinkedWhereItBelongs`), destruction with the last reference (`DestroyedWithLastReference`), deadlines in order (`SleepersWakeOnTime`), one owner per stored value (`ValuesHaveOneOwner`), the ordered queue stays ordered (`ReadyQueueIsSorted`), one holder of a spinlock (`OneHolder`), workers free or busy once (`WorkersAccountedFor`), elements of the deque handed out at most once and of the remote queue once, the deque losing none but the first push after a lost race (`HandedOutOnce`), stealing and sharing implement the pool `ReadyFibers` (`SharesFibers`), ready fibers run (`ReadyFiberRuns`), `lock`, `join`, the scheduler's destructor, pool messages and `stop` come to an end (`CallsReturn`) |
| `sync` | 5 fibers, 2 of them with deadlines; a condition variable with its mutex; a timed, a recursive, a recursive timed mutex; a barrier of 5 and one of 4; a promise with 2 setters and 2 readers | one holder (`MutualExclusion`), the recursion count (`CountIsHeldUntimed`), no waiter at a free mutex (`NoLostWakeup`), one hook in one queue (`LinkedOnce`), `wait` uses the mutex like any client (`WaitUsesMutex`, a refinement), barrier cycles are neither short nor slept through (`CyclesAreWhole`), one result per promise, in a state that outlives the calls on it (`ResultIsKept`), waiters return (`WaitersReturn`) |
| `channels` | 3 producers, 2 consumers, one of each with a deadline and one non-blocking; ring of 2 slots with 8 indices; watermarks 3 and 1; rendezvous | FIFO (`BuffersInOrder`, refinements of `Channel`), nobody sleeps beside work (`NobodySleepsBesideWork`), queues (`EverySleeperIsLinked`), truthful answers and a slot on a live stack (`AnswerIsTrue`), `close` lets consumers go (`CloseEndsPops`) |
| `io` | 2 fibers, batches of up to 3 blocks, room for 2 in the kernel and in the ring, 1 client; both builds | no completion is lost or counted twice and the ring does not overflow (`EventsAreForWaiters`), an event resumes the fiber that waits for it (`ResumesTheWaiter`), in the Windows build no call returns before the events of what it started (`CallOutlivesEvents`), file operations return (`FileOperationsReturn`) |

The type invariant of each module is a conjunct of one of these (`FibersAccountedFor`,
`LinkedWhereItBelongs`, `HandedOutOnce`, `LinkedOnce`, `EventsAreForWaiters` and others).

Why these bounds are enough to be interesting. A ring of two slots is full with
two messages and wraps every second one, so three producers meet a full, a partly
consumed and a wrapped ring in six messages; the proofs remove the bound.
A reactor whose inbox has one slot fills it with its own two messages while the other's call
waits for it, and both wait in `send` for room that the other makes. Two reactors that jam
each other while a third fiber waits need six messages, beyond 7 million states, and are not run; the
property names them. A pipeline of three has a processor two steps from its gate. Five
fibers are a holder, a woken fiber, one past its deadline and two that wait. Two threads with three fibers
steal from each other at once, from an array of one slot that grows. Words of
eight values wrap after four turns of a ring of two. The barrier's one-bit cycle
needs two flips to be ambiguous, hence three cycles. Named bounds: `MaxSequence`
(messages ever claimed), `Tasks` (messages ever created), `Workers` (worker objects
at once), `Fibers` (fibers ever launched), `MaxTime` (clock), `MaxSwitches`
(yields and sleeps of a context), `MaxDepth` (recursion), `MaxLocks` (locks of a thread),
`MaxYields` (yields of a fiber that moves between threads), `MaxPushes` (into the remote queue),
`MaxPointers` (`fiber_specific_ptr` objects ever made), `MaxAlgos` (algorithms ever set),
`MaxBatch` (slots of one claim), `LongMax` (stands for the largest 64-bit integer), `PollLimit`
(completions taken at once), `MaxCycles`,
`MaxSize` (values in an unbounded channel), `MaxBlocks` (blocks of a batch), `MaxClients`
(clients that connect: one, since a second would make epoll report the message of an
`accept()` that has returned, which is dead memory). A batch of three blocks in a kernel
with room for two is accepted in parts and competes with the other fiber's; a ring of two
slots is filled by them and a socket.
`Careful` restricts clients of `fiber_specific_ptr` to `reset()` where the context has
nothing stored; run `reset_again` lifts it. `Timely` and `Untimely` are sets of arrangements:
in the first no processor blocks where nobody wakes it.
`CHECK_DEADLOCK FALSE` stands only where the program really stops, or where every
client may be waiting for one that is not there.

Runs that end in a violation, each a disagreement between the code and what the
repository says of it (`findings` quotes the lines):

| run | what happens |
|---|---|
| `deque_lost` | a `pop()` that loses the last element to a thief does not put `bottom_` back: what is pushed next lies below `top_`, and `pop()` calls the deque empty although nobody has taken it (`chase_lev_queue.hpp:139`) |
| `timed_mutex_leak` | `unlock()` hands the mutex to a fiber that then reports a timeout: it stays locked |
| `spurious_wakeup` | data that arrives while a connection's fiber is not waiting makes `finish()` resume a context that is in no wait queue (the client sends when it likes, constant `Eager`) |
| `disruptor_blocked` | every barrier has its own wait strategy object, so `Publish()` notifies a condition variable on which no processor waits: one that blocks without a deadline sleeps beside its event |
| `reset_again` | `reset()` where the context has a value already cleans that up and leaves it stored: `get()` returns it, or nothing |

More facts about the code are built into passing runs, or lie just outside them:
a fiber that fills its own reactor's inbox spins for ever, since its thread is the one
that drains it, and so do reactors that fill each other's inboxes; who waits for one of them waits for ever
(`reactors` reaches a reactor stuck on its own inbox while another's call waits, which `CallsAndLoopsEnd`
names as `Jammed`); `MPSCQueue::get(T&)`, which nothing calls, asks for the event at its position and doubles it,
so that it reads the slot of twice the sequence (`event_processor.h:71`); `pop()` of `context_spmc_queue`
looks at `is_context()` of a fiber that another thread may meanwhile have taken and ended, the
compare-and-swap after it then failing whatever it read (`Cas` in `WorkStealing`); `push_wait_until` of the unbuffered
channel may report a timeout for a value that was consumed, and one that takes its value
back wakes no producer that waits for the slot, so that the notification which woke it is lost, as in the other
channels where a notified fiber gives up (`AnswerIsTrue` and `NobodySleepsBesideWork` are about clients without deadlines);
`work_stealing` with one thread draws itself for ever (`StealingAssumption`, which also wants a fiber to run), and wakes no
thread that suspended (`ReadyFiberRuns` is about threads that do not); the default constructor of
`shared_work` leaves `suspend_` unset (either value in `Init`); values a main context has stored are
never cleaned up; properties made under one algorithm name it after `set_algo()` until
their fiber is awakened again; an empty batch in the Windows build waits for ever, and a fiber there that waits for resources
may do so too (`FileOperationsReturn` excepts both);
`~unbuffered_channel()` resumes a producer that still offers, whose `push` then returns
success for a value nobody got (`AnswerIsTrue` excepts it); a `bounded_channel` may accept a value after `close()` (`AcceptsLate` in `Channel`), and a
pool worker forgets a message handed to it before its thread first takes its
mutex (`CallsReturn` is about workers that wait; the action
`Start` does what line 73 of `thread_pool.hpp` does); an accepted connection is a blocking
descriptor, so `read()` without data stops the thread with all its fibers
(`FileOperationsReturn` excepts it), and a transfer of exactly `EAGAIN` (11) bytes makes
the fiber wait (`Transfer`); the registration of `accept()` is never removed, so a
second wait on the same socket throws (`AcceptThrows`). `buffered_channel` accepts a
capacity of one, with which a filled slot looks free; the runs use two slots.

## 4. Fairness

- `MPSCQueue`: a thread inside `send`, and the event loop that polls, take a step some
  day. The operating system runs both; the loop polls in every turn. Nothing makes
  a producer call `send`. A thread stopped for ever inside `send` would keep the others
  there: the loop over `SynchronizePublishing` is not lock-free.
- `Sequencer`: publishers' and processors' threads run, a processor that has handled its
  batch asks for the next, and the clock reaches a deadline. No client must publish or alert.
- `Spinlock`: threads inside `lock` or `unlock`, and holders, run; each locks `MaxLocks` times at most.
- `WorkStealing`, `SharedWork`: each thread runs what its algorithm picked; a fiber yields or
  ends. With `MaxYields` this is what lets `pick_next` be called again.
- `Reactor`: each thread runs; strong fairness for the end of a body, since a body that
  runs again and again (it yields in between) is assumed to return.
- `ThreadPool`: worker threads run, `process()` returns, and the owner finishes a call it
  has begun; it need not begin one.
- `FiberScheduler`: the thread runs and the clock advances; the round-robin queue, and
  not an assumption, decides who is next.
- `IOPoller`, `CompletionPort`: the thread runs, a fiber yields some day (strong fairness: it runs again
  and again), and the kernel completes what it accepted. No client need connect or send.
- Mutex, condition, barrier, futures and channels: a ready fiber runs some day (the ready queue is
  FIFO), and a holder unlocks some day (`WaitersReturn` needs it).

## 5. Proofs

`MPSCQueueProofs` proves, for any set of producers, any ring size, and any number of
messages, the four safety invariants of the inbox and its type invariant
(`TypeCorrect`, `SlotsAreNotRacedFor`, `NoClaimIsLost`, `LagIsBounded`,
`BatchStaysPublished`), from `QueueAssumption` alone.

`NoSlotRace` is not inductive: that two producers write to different slots follows from
where the gate let them pass. `Inv` adds what each participant knows: the order
consumed <= cursor <= claimed with a lag of at most N; that the sequences between
cursor and last claim are held by one producer each; that whoever passed the gate
is at most N past the consumer; that a producer about to publish is next in turn;
that published slots hold messages; and how the consumer's batch relates to the
cursor. The one arithmetic fact is `SameSlotFar`: sequences that share a slot are at
least N apart. Each action has a lemma that it keeps `Inv`; `OwnSlot` draws
`NoSlotRace` from `Inv`, and is used again when a store must not disturb anybody.

It also proves, on top of `Inv`, that the inbox implements `MessageFifo` but for
its fairness (`InboxIsFifo`): the abstract queue is what is published and not delivered,
a claim is `Submit`, the step that advances the cursor is `Accept`, handing a message out is
`Deliver`, and every other step stutters. `Inv` is what makes it work: a slot of the queue
still holds its message, because only a producer that passed the gate stores, and the
cursor moves by one claim at a time, in the order of the claims.

The first part of `SyncProofs` proves of one mutex, for any set of fibers, with or without deadlines and
recursion, that the mutex has one holder (`OneHolder`), that no fiber is linked to
a free mutex (`NobodyWaitsForFreeMutex`) and that the wait queue holds exactly the
suspended fibers, once each, and fibers past their deadline (`WaitQueueIsExact`), from
`MutexAssumption` alone. `MutualExclusion` is about clients; it is kept because
whoever has a successful call, or is about to return from one, is the owner
(`HolderOwns`, `GrantedOwns`), because the count is at least the number of the
owner's calls (`CountCovers`: only the last `unlock` passes the mutex on; it is not
equality, since a fiber that timed out owns a mutex it has no call for), and because the
head of the queue is not the fiber that unlocks (`WaitersAreQueued`). `LinkLast`,
`UnlinkFirst` and `UnlinkAny` say what the list operations do to a queue without repetitions.
The invariant is `Discipline(S)` for the places of the mutex's own clients; each action has
a lemma that it keeps `Discipline` for any larger set of places, so that the lemmas also serve
objects whose fibers have places of their own.

The rest of `SyncProofs` takes them there, to whatever the fibers of `MCSync` share, from the assumptions
of the modules alone and for any number of fibers, setters, readers and deadlines:
`SyncInv` is inductive and has these parts. `Discipline` for the places of every object
gives one holder (`OneHolderAnyObject`), nobody linked to a free mutex (`NobodyWaitsAnyObject`) and one
queue per hook (`HookIsInOneQueue`). For clients without deadlines, of which none is past one, the count
is exact (`CountIsExact`; lemmas `PassOn...` are about `unlock`). `CondInv` says that a fiber at
a place inside a condition variable's `wait` holds nothing of the mutex, and can be reached through the queue until it is notified; a step of `wait` or `notify` is then a step
of a mutex's client once the fibers asleep in the condition variable are seen as running
(`Seen`), which proves the refinement `WaitIsAClient` (`WaitUsesMutex`). For the barrier
(`BarrierCyclesAreWhole`) the number of blocked fibers is the number of all less what is still
expected (`NobodyIsAhead`), and a blocked fiber's cycle is the current one; so the last to
arrive finds all others blocked, and one bit tells the cycles apart. For
futures (`PromiseIsKept`) `StateInv` says who is inside which call with which references: the count is the cardinality
of the set of references plus the promise's own (`Counted`), a stored result is never replaced
because whoever stores holds the mutex (`StoringHolds`), and who is inside a call holds a reference.

`ReactorProofs` proves, for any reactors, size of inboxes and number of messages, from
`ReactorAssumption` alone, the type invariant (`TypeCorrect`), that an answer finds its caller
suspended (`AnswersFindCallers`, the run's `ResumeFindsWaiting`), that fibers and calls are
accounted for (`NothingIsLost`, `FibersAccountedFor`) and that a loop ends clean
(`LoopsEndClean`, `CleanExit`). `ResumeFindsWaiting` speaks of the moment the loop takes its turn and is
not inductive: an answer may arrive while its caller is still between `send` and the
switch to the loop. `Inv` therefore says where each fiber is by its stage; that an inbox holds the requests sent to its reactor
and the answers to its fibers and nothing else; that a message created but not sent is the one a fiber
that sends has in hand; that pending calls and callers correspond one to one; and that one fiber sends the
stop messages. When the loop takes its turn no fiber of its reactor is busy, so every caller
an answer names is waiting; and the fibers one batch wakes are distinct, since each has one call.

`SequencerProofs` proves, for any publishers and processors, any graph of dependents, any
mixture of wait strategies, with deadlines and alerts and claims of any size, that a
publisher stores only into slots every gate is done with (`StoresAreSafe`, the run's
`SlotsAreFree`) and that `HasAvailableCapacity()` tells the truth to a single publisher
(`RoomIsReal`, `CapacityHolds`), from `SequencerAssumption` alone. First
`TypeCorrect`; then `Inv`, relative to types: a processor's sequence is behind the next it asks for, so
it only grows; the cached minimum is behind every gate; a publisher's half-finished scan
holds a minimum behind each gate it has loaded (`ScanIsSound`, which gives `MinimumIsPassed` when the scan
ends); a publisher about to store has room for its whole claim; and what a single publisher was
told stays true until it claims (`RoomIsKept`). Steps that only move sequences forward keep
`Inv` (`Undisturbed`), and a publisher's step leaves the others' part alone (`OtherPublisher`), so each
action has one lemma about the thread that takes it.

On those it proves `BatchesAreIntact` (`BatchIsIntact`): what a processor is handed is
published, behind everything it depends on, and in its slots until it is done.
`BatchInv` adds to the above that each sequence between the cursor and the last claim is held by
one publisher (`ClaimsInv`); that every sequence that is stored and not yet passed by all gates
lies in its slot (`EventsInv`); and that a processor's sequence and what it takes to be available
are behind the cursor and its dependents, during its scan of them too (`ProcessorsInv`). The graph is any in which
each processor has a gate behind it, any number of steps away: no set of processors that are not gates is closed
under dependents (`ArrangementOK`), without which the publishers may lap one. The step that
matters is a store: it cannot hit a slot somebody still needs, since claims are disjoint,
sequences of one slot are a ring apart (`SlotsRepeat`), all gates passed the one a ring before
(`SlotsAreFree`), and behind every processor, along its dependents, there is a gate.

`ThreadsProofs` proves, from `ThreadsAssumption` (the assumptions of the parts) alone, what
`MCThreads` says of four of its parts.

- The spinlocks, for any set of threads: at most one is between `lock()` and `unlock()`
  (`LockExcludes`, `OneHolder`), futex or not. `holds` alone is not inductive: the futex lock's
  `unlock()` subtracts and then stores, and `lock()` may have got the lock by an exchange whose
  result it has yet to look at. `Keepers` are all three, `SpinlockInv` says there is one at most and the word is
  not 0 while there is one.
- The scheduler, for any contexts, finite in number or not, and any clock. `SchedulerInv` (`SchedulerLists`) is
  inductive: the ready queue holds who runs and is not active, once each (`ReadyLinks`); the sleep queue holds who sleeps,
  in the order of deadlines (`SleepLinks`); each fiber's wait queue holds who joins it, and whoever joins
  has the fiber object until `join()` returns (`JoinLinks`); who is active can run, and the dispatcher and
  main go together (`Roles`); and `use_count_` counts the fiber object and the worker queue
  (`References`). None is inductive alone: a context is relinked once because the list it leaves is the one its
  place names, and a joiner wakes to a fiber still there because it holds the reference. `ContextsAreLinkedOnce`
  and `ContextsAreReleasedOnce` follow. `DueSleepersAreWoken` is about the loop that stops at the first
  deadline ahead: in an ordered queue the due entries are a prefix as long as their number
  (`PrefixIsCounted`), and insertion keeps it ordered (`InsertedByDeadline`).
- Fiber-specific values (`StoredValuesHaveOneOwner`), for any contexts, pointers and values, among clients
  that are `Careful`: a `reset()` where there is an entry already keeps the old one (run `reset_again`), so
  that without it the theorem is false. `StoredOnce` adds to `ValuesHaveOneOwner` that entries with one value are one.
- The pool (`PoolAccountsForWorkers`), for any workers, messages and sizes. `PoolInv` says where a worker that has
  a thread is (`PoolLists`), which worker the owner has in hand (`OwnerKnows`), that each message handed
  over is with one worker until it is released, a replied one naming it (`Messages`), and what each
  thread finds when it wakes (`WorkerKnows`): one that waits with `ready_` set and is not told to stop
  has a message that was not processed yet, so a worker that is let go is past its message.

`ReadyQueueProofs` proves, from `ThreadsAssumption` too, what `MCThreads` says of queues of ready fibers.

- `FibersAreShared` (`SharesFibers`): for any threads and fibers, and arrays of any size that
  grow at any time, what `work_stealing` and `shared_work` do is what the pool `ReadyFibers` does. Under either
  algorithm a fiber is in one place: fresh, queued, run by a thread, or in the hands of a thread
  that is about to queue it (`SharedFibersInv`); a switch moves one fiber (`SwitchingTakesOne`). Under
  `work_stealing` a thread's queue is an array used as a ring of which the slots from `top_` to `bottom_`
  are live (`Ring`, `Live`): live slots are at most as many as the ring has, so that indices less
  than a turn apart have slots of their own (`NearSlotsDiffer`), a store hits no live slot
  (`StoredRing`), and a bigger ring holds what was live (`GrownRing`). Owners and thieves who have read a slot
  know that it holds the same fiber until `top_` moves, at which point their compare-and-swap fails.
- `ReadyFibersAreHandedOutOnce` (`HandedOutOnce`): the deque hands out no fiber twice and loses none but
  those in `buried`, each the first pushed after a `pop()` that lost the race for the last element. `Held` are the indices whose fiber nobody
  has taken, and depend on where the owner is in `push()` or `pop()`; `DequeInv` says that they hold fibers
  nobody has taken, once each (`HoldsUntaken`), and all that were pushed but the
  buried (`NothingIsLost`); that `bottom_` is never far below `top_` (`DequeOwnerKnows`); and
  what each thief has read (`ThiefKnows`). For the queue of remotely readied fibers: there is a
  sequence from `tail_` to `head_`, `dummy_` in it or not, whose links are made except at
  exactly the pairs that a pusher, or `pop()` with `dummy_`, has swapped in and has yet to link (`Gapped`,
  `ListIs`), and without `dummy_` it is `order` (`Matches`). `pop()` knows that what its local `tail` points to
  is the first, and in the window before it swaps `dummy_` in that `dummy_` is not linked (`PopKnows`); so a push into that
  window only makes the list longer. `ListReachesAll` draws from it that the links lead through
  all contexts when nobody is between swap and link.
- `ReadyFibersAreInOrder` (`ReadyQueueIsSorted`): `PropsInv` says that only the present algorithm's
  queue has fibers, all launched and told of it, and that it is sorted. The lemmas are about the list: a fiber is
  inserted behind a prefix (`SortedIn`), unlinking closes the gap (`Unlinked`), and `set_algo()`, which passes the
  queue on fiber by fiber, keeps a sorted one as it is (`MovedAsItIs`).

`ChannelProofs` proves the four safety properties of the run `channels` for any fibers, values,
marks and word size, from `CapacityAssumption` and `ChannelsAssumption` (a ring's indices
count modulo a multiple of its capacity, which is a power of two in the code). The last two
theorems also assume `Capacity > 1`, since the constructor accepts a ring of one slot, for
which a filled slot looks free (section 3).

- `SleepersAreLinked` (`EverySleeperIsLinked`) and `PushTellsTheTruth` (`AnswerIsTrue`) follow from `LinksInv`, one
  inductive invariant per kind of channel. Its base is `IsLinkedOnce`: a wait queue holds each sleeper of
  its side once, and besides them only fibers past their deadline; `Relinks` and `LinksMove` say what linking,
  unlinking and expiring do to it. For the rendezvous `ProducerKnows` relates what a producer has seen of
  its value to where it is, so that the answer after it wakes is the right one.
- `NoWakeupIsLost` (`NobodySleepsBesideWork`) counts. In a ring (`RingWakes`) and at a rendezvous the fibers woken and not
  yet run are as many as the free slots or values that sleepers could use; in the two queues `Woken` are the consumers
  woken and unlinked, at least `Len(queue_)` while one sleeps; and producers of a bounded channel sleep
  only above its low mark (`BoundedInv`).
- `ValuesStayInOrder` (`BuffersInOrder`, the refinement of `Channel`) needs `CyclesInv`: counted from the consumers' index, the
  first slots, as many as there are values, carry the cycle that a consumer looks for there, and the others the one a
  producer does. Indices wrap around, so the lemmas before it (`WordOfWord`, `SlotOfWord`, `OtherSlots`,
  `SmallDiff`) say which slot and cycle an index has then, and that signed differences of near indices are exact.

`IOProofs` proves the three safety properties of the run `io`, on Linux for the clients named below, and
without that restriction that the ring never overflows, for any fibers, batches and sizes of ring and submission,
from `PollerAssumption` and `PortAssumption`.

- In both builds and whatever the clients do (`RingNeverOverflows`, `RingHasRoom`). `RingInv` is inductive: a
  `poll()` takes at most as many events as the ring has room for, the sockets' included, and at most as many
  file completions as are left (`PollFillsTheRing`), on Windows as many packets as there is room for; nothing
  else adds to the ring.

- On Windows (`CompletionsHaveACall`, the run's `CallOutlivesEvents`), whatever the clients do. `PortInv` says
  of each fiber where its call is: about to be submitted (`IsSubmitting`, `SingleCall`), waited for (`IsAwaited`) or
  over (`NoCall`), and relates the count of its message to the completions that the kernel, the queue and
  the ring hold for it. A batch that is still being submitted counts down from 1, so that the first completion
  wakes a fiber that sleeps for resources, and the count wraps below 0; `set_count()` then gives
  it the number submitted, of which some are done already. So the count is at least what is to come, and whoever sees it
  reach 0 is past its last completion or has not begun to wait.
- On Linux (`EventsGoToWaiters`, `EventsAreForWaiters`; `MessagesResumeWaiters`, `ResumesTheWaiter`) for
  `OneModestClient`: one client, which sends only while it is read from. Both are false otherwise, since the message of
  an `accept()` or a connection stays registered and wakes a fiber that has gone on to something else (run `spurious_wakeup`).
  `EventsAreForWaiters` is inductive only together with who may be woken: `Links` (a context runs, is ready or waits),
  `Turn` (the ring is empty while a fiber runs), `Listening` (a registered `accept()` is waited for until the
  client it was told of is taken, `IsNotified` saying that its fiber runs before the loop polls again),
  `Connections` and `SocketMessages` (one message of an `accept()` at most in the ring). The events
  of a fiber are counted in three places (`Tally`): lemmas say that submitting adds to them (`EventsAdded`), that
  completing and polling move them (`EventsComplete`, `EventsPolled`), and that finishing takes one (`EventFinished`).

`LagIsBounded` and `BatchStaysPublished` state invariants that no run lists, since they
follow from `Inv`. Model-checked only: liveness, and the fairness half of the
refinements (the prover reaches neither fairness nor ENABLED). The safety properties of the
passing runs are all proved, under the assumptions named above.

## 6. Plan

Done: inbox, disruptor, reactors, pool, scheduler, storage and properties, stealing and
sharing with the queues beside them, spinlocks, mutexes, conditions, barrier, channels,
futures, both builds of the poller with files and sockets.

1. `async`, `buffered_channel`'s destructor, and the start-up of `work_stealing`.
2. `Reactor` with the poller in its loop, so that a reactor that waits for I/O and one that waits for
   a message are one model.
