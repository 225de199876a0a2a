---------------------------- MODULE FiberScheduler ----------------------------
(***************************************************************************)
(* The scheduler of one thread's fibers with its default algorithm, round  *)
(* robin: launching, yielding, sleeping, joining and detaching fibers, the *)
(* dispatcher context that releases terminated fibers and wakes sleeping   *)
(* ones, and the destruction of the scheduler at the end of the thread.    *)
(* The dispatcher and the thread's main context are scheduled like fibers. *)
(*                                                                         *)
(* A fiber object stays with the context that created it, which joins or   *)
(* detaches it before it ends: ~fiber() terminates the process otherwise.  *)
(***************************************************************************)
EXTENDS Naturals, Sequences, FiniteSets, SequencesExt

CONSTANTS
    Fibers,             \* bound: fibers ever launched
    Main, Dispatcher,   \* main_ctx_ and dispatcher_ctx_
    NoContext,          \* nullptr
    MaxTime,            \* bound: the clock stops there
    MaxSwitches         \* bound: how often one context yields or sleeps

Contexts == Fibers \cup {Main, Dispatcher}

SchedulerAssumption ==
    /\ Main # Dispatcher /\ {Main, Dispatcher} \cap Fibers = {}
    /\ NoContext \notin Contexts
    /\ MaxTime \in Nat /\ MaxSwitches \in Nat

VARIABLES
    active,             \* context_initializer::active_
    ready,              \* rqueue_ of the algorithm
    sleep_queue_,       \* sleeping contexts with their tp_, ascending
    worker_queue_,      \* the fibers attached to the scheduler
    terminated_queue_,  \* the fibers the dispatcher has to release
    wait_queue_,        \* the contexts that join each context
    use_count_,         \* references to each fiber's context
    shutdown_,
    flag_,              \* set by the algorithm's notify()
    at,                 \* where each context is
    creator,            \* who holds each fiber's fiber object
    joinable,           \* the fibers whose fiber object is not reset
    joining,            \* the fiber each context waits for in join()
    now,                \* the steady clock
    switches            \* how often each context has yielded or slept

links == <<ready, sleep_queue_, worker_queue_, terminated_queue_, wait_queue_>>
handles == <<use_count_, creator, joinable, joining>>
vars == <<active, links, handles, shutdown_, flag_, at, now, switches>>

\* joined: the fiber it joins has terminated, join() has to return;
\* idle: the dispatcher in suspend_until(); ends: main in ~scheduler();
\* gone: destroyed
Places == {"new", "runs", "sleeps", "joins", "joined", "idle", "ends", "terminated", "gone"}

TypeOK ==
    /\ active \in Contexts
    /\ ready \in Seq(Contexts)
    /\ sleep_queue_ \in Seq([ctx : Contexts, tp : 0..MaxTime])
    /\ worker_queue_ \subseteq Fibers
    /\ terminated_queue_ \in Seq(Fibers)
    /\ wait_queue_ \in [Contexts -> Seq(Contexts)]
    /\ use_count_ \in [Fibers -> 0..2]
    /\ shutdown_ \in BOOLEAN /\ flag_ \in BOOLEAN
    /\ at \in [Contexts -> Places]
    /\ creator \in [Fibers -> Contexts \cup {NoContext}]
    /\ joinable \subseteq Fibers
    /\ joining \in [Contexts -> Fibers \cup {NoContext}]
    /\ now \in 0..MaxTime
    /\ switches \in [Contexts -> 0..MaxSwitches]

\* The main context runs and the dispatcher is the first in the ready queue.
Init ==
    /\ active = Main
    /\ ready = <<Dispatcher>>
    /\ sleep_queue_ = <<>>
    /\ worker_queue_ = {}
    /\ terminated_queue_ = <<>>
    /\ wait_queue_ = [c \in Contexts |-> <<>>]
    /\ use_count_ = [f \in Fibers |-> 0]
    /\ shutdown_ = FALSE
    /\ flag_ = FALSE
    /\ at = [c \in Contexts |-> IF c \in Fibers THEN "new" ELSE "runs"]
    /\ creator = [f \in Fibers |-> NoContext]
    /\ joinable = {}
    /\ joining = [c \in Contexts |-> NoContext]
    /\ now = 0
    /\ switches = [c \in Contexts |-> 0]

\* c executes the code of its function, or main() for the main context.
InUserCode(c) == active = c /\ c # Dispatcher /\ at[c] = "runs"

\* get_next_()->resume(), the ready queue being q.
SwitchTo(q) ==
    /\ active' = Head(q)
    /\ ready' = Tail(q)

Spend(c) ==
    /\ switches[c] < MaxSwitches
    /\ switches' = [switches EXCEPT ![c] = @ + 1]

\* fiber::fiber(): the context counts the fiber object and the scheduler.
Create(c, f) ==
    /\ InUserCode(c)
    /\ f \in Fibers /\ at[f] = "new"
    /\ at' = [at EXCEPT ![f] = "runs"]
    /\ use_count_' = [use_count_ EXCEPT ![f] = 2]
    /\ creator' = [creator EXCEPT ![f] = c]
    /\ joinable' = joinable \cup {f}
    /\ worker_queue_' = worker_queue_ \cup {f}
    /\ UNCHANGED <<sleep_queue_, terminated_queue_, wait_queue_, joining, shutdown_, flag_, now, switches>>

\* launch::post: the new fiber is made ready.
Post(c, f) ==
    /\ Create(c, f)
    /\ ready' = Append(ready, f)
    /\ UNCHANGED active

\* launch::dispatch: the new fiber is resumed and makes its creator ready.
LaunchDispatch(c, f) ==
    /\ Create(c, f)
    /\ active' = f
    /\ ready' = Append(ready, c)

Yield(c) ==
    /\ InUserCode(c) /\ Spend(c)
    /\ SwitchTo(Append(ready, c))
    /\ UNCHANGED <<sleep_queue_, worker_queue_, terminated_queue_, wait_queue_,
                   handles, shutdown_, flag_, at, now>>

\* mutant: a queue instead of a multiset ordered by deadline
InOrderOfArrival(e) == Append(sleep_queue_, e)
InOrderOfDeadline(e) ==
    InsertAt(sleep_queue_,
             1 + Cardinality({i \in DOMAIN sleep_queue_ : sleep_queue_[i].tp <= e.tp}), e)

\* sleep_until( tp)
Sleep(c, tp) ==
    /\ InUserCode(c) /\ Spend(c)
    /\ sleep_queue_' = InOrderOfDeadline([ctx |-> c, tp |-> tp])
    /\ at' = [at EXCEPT ![c] = "sleeps"]
    /\ SwitchTo(ready)
    /\ UNCHANGED <<worker_queue_, terminated_queue_, wait_queue_, handles, shutdown_, flag_, now>>

\* mutant: the first release destroys the context
AnyReference(f) == use_count_[f] > 0
LastReference(f) == use_count_[f] = 1

\* intrusive_ptr_release() for each of fs: the last reference destroys the context.
Release(fs, places) ==
    /\ use_count_' = [f \in Fibers |-> IF f \in fs THEN use_count_[f] - 1 ELSE use_count_[f]]
    /\ at' = [c \in Contexts |-> IF c \in fs /\ LastReference(c) THEN "gone" ELSE places[c]]

\* The fiber object of f is reset.
Reset(f, places) ==
    /\ joinable' = joinable \ {f}
    /\ Release({f}, places)
    /\ UNCHANGED creator

IsTerminated(f) == at[f] = "terminated"

\* join() of a fiber that still runs suspends the caller.
Join(c, f) ==
    /\ InUserCode(c)
    /\ f \in joinable /\ creator[f] = c
    /\ ~IsTerminated(f)
    /\ wait_queue_' = [wait_queue_ EXCEPT ![f] = Append(@, c)]
    /\ joining' = [joining EXCEPT ![c] = f]
    /\ at' = [at EXCEPT ![c] = "joins"]
    /\ SwitchTo(ready)
    /\ UNCHANGED <<sleep_queue_, worker_queue_, terminated_queue_, use_count_, creator, joinable,
                   shutdown_, flag_, now, switches>>

JoinTerminated(c, f) ==
    /\ InUserCode(c)
    /\ f \in joinable /\ creator[f] = c
    /\ IsTerminated(f)
    /\ Reset(f, at)
    /\ UNCHANGED <<active, links, joining, shutdown_, flag_, now, switches>>

JoinReturns(c) ==
    /\ active = c /\ at[c] = "joined"
    /\ Reset(joining[c], [at EXCEPT ![c] = "runs"])
    /\ joining' = [joining EXCEPT ![c] = NoContext]
    /\ UNCHANGED <<active, links, shutdown_, flag_, now, switches>>

Detach(c, f) ==
    /\ InUserCode(c)
    /\ f \in joinable /\ creator[f] = c
    /\ Reset(f, at)
    /\ UNCHANGED <<active, links, joining, shutdown_, flag_, now, switches>>

HoldsNoFiber(c) == \A f \in joinable : creator[f] # c

\* mutant: the fibers that join are forgotten
WakesNobody(f) == <<>>
Woken(f) == wait_queue_[f]

\* The function of f returns: set_terminated() of the context, then of the scheduler.
Terminate(f) ==
    /\ f \in Fibers
    /\ InUserCode(f) /\ HoldsNoFiber(f)
    /\ at' = [c \in Contexts |-> CASE c = f -> "terminated"
                                   [] c \in ToSet(Woken(f)) -> "joined"
                                   [] OTHER -> at[c]]
    /\ wait_queue_' = [wait_queue_ EXCEPT ![f] = <<>>]
    /\ terminated_queue_' = Append(terminated_queue_, f)
    /\ SwitchTo(ready \o Woken(f))
    /\ UNCHANGED <<sleep_queue_, worker_queue_, handles, shutdown_, flag_, now, switches>>

\* sleep2ready_() stops at the first context whose deadline is ahead.
DueCount ==
    Cardinality({i \in DOMAIN sleep_queue_ : \A j \in 1..i : sleep_queue_[j].tp <= now})

Due == [i \in 1..DueCount |-> sleep_queue_[i].ctx]

DispatcherLast(q) == Append(q, Dispatcher)

Notified == flag_ \/ shutdown_

LoopEnds == shutdown_ /\ worker_queue_ = {}

\* One turn of the loop in dispatch().
Dispatch ==
    LET next == ready \o Due IN
        /\ active = Dispatcher /\ at[Dispatcher] = "runs"
        /\ ~LoopEnds
        /\ flag_' = Notified
        /\ terminated_queue_' = <<>>
        /\ worker_queue_' = worker_queue_ \ ToSet(terminated_queue_)
        /\ Release(ToSet(terminated_queue_),
               [c \in Contexts |-> CASE c \in ToSet(Due) -> "runs"
                                     [] c = Dispatcher /\ next = <<>> -> "idle"
                                     [] OTHER -> at[c]])
        /\ sleep_queue_' = SubSeq(sleep_queue_, DueCount + 1, Len(sleep_queue_))
        /\ IF next = <<>>
             THEN UNCHANGED <<active, ready>>
             ELSE SwitchTo(DispatcherLast(next))
        /\ UNCHANGED <<wait_queue_, creator, joinable, joining, shutdown_, now, switches>>

\* suspend_until() returns when notified, or at the first deadline.
WakeUp ==
    /\ active = Dispatcher /\ at[Dispatcher] = "idle"
    /\ flag_ \/ (sleep_queue_ # <<>> /\ Head(sleep_queue_).tp <= now)
    /\ flag_' = FALSE
    /\ at' = [at EXCEPT ![Dispatcher] = "runs"]
    /\ UNCHANGED <<active, links, handles, shutdown_, now, switches>>

\* ~scheduler(): main joins the dispatcher.
Shutdown ==
    /\ InUserCode(Main) /\ HoldsNoFiber(Main)
    /\ shutdown_' = TRUE
    /\ wait_queue_' = [wait_queue_ EXCEPT ![Dispatcher] = Append(@, Main)]
    /\ at' = [at EXCEPT ![Main] = "ends"]
    /\ SwitchTo(ready)
    /\ UNCHANGED <<sleep_queue_, worker_queue_, terminated_queue_, handles, flag_, now, switches>>

\* The dispatcher leaves its loop and resumes main, which destroys it.
DispatchEnds ==
    /\ active = Dispatcher /\ at[Dispatcher] = "runs"
    /\ LoopEnds
    /\ active' = Main
    /\ wait_queue_' = [wait_queue_ EXCEPT ![Dispatcher] = <<>>]
    /\ at' = [at EXCEPT ![Main] = "gone", ![Dispatcher] = "gone"]
    /\ UNCHANGED <<ready, sleep_queue_, worker_queue_, terminated_queue_, handles,
                   shutdown_, flag_, now, switches>>

Tick ==
    /\ now < MaxTime
    /\ now' = now + 1
    /\ UNCHANGED <<active, links, handles, shutdown_, flag_, at, switches>>

\* What the thread does next.
Step ==
    \/ \E c \in Contexts :
        \/ Yield(c) \/ JoinReturns(c)
        \/ \E tp \in now..MaxTime : Sleep(c, tp)
        \/ \E f \in Fibers :
            Post(c, f) \/ LaunchDispatch(c, f) \/ Join(c, f) \/ JoinTerminated(c, f) \/ Detach(c, f)
    \/ \E f \in Fibers : Terminate(f)
    \/ Dispatch \/ WakeUp \/ Shutdown \/ DispatchEnds

Next == Step \/ Tick

\* The thread runs and its clock advances: contexts that may switch only
\* MaxSwitches times end some day.
Spec == Init /\ [][Next]_vars /\ WF_vars(Step) /\ WF_vars(Tick)

-------------------------------------------------------------------------------

\* A context is linked where it belongs and nowhere else, once: one that can run
\* in the ready queue unless it is active, one that sleeps in the sleep queue,
\* one that joins in the queue of the fiber it joins.
LinkedWhereItBelongs ==
    /\ TypeOK
    /\ IsInjective(ready)
    /\ ToSet(ready) = {c \in Contexts \ {active} : at[c] \in {"runs", "joined"}}
    /\ IsInjective([i \in DOMAIN sleep_queue_ |-> sleep_queue_[i].ctx])
    /\ {sleep_queue_[i].ctx : i \in DOMAIN sleep_queue_} = {c \in Contexts : at[c] = "sleeps"}
    /\ \A f \in Fibers : ToSet(wait_queue_[f]) = {c \in Contexts : at[c] = "joins" /\ joining[c] = f}

\* A fiber's context is referenced by its fiber object and by the scheduler until
\* the dispatcher has released it, and destroyed with the last reference: not
\* under a join(), not twice, and not never.
DestroyedWithLastReference ==
    \A f \in {g \in Fibers : at[g] # "new"} :
        /\ use_count_[f] = Cardinality({f} \cap joinable) + Cardinality({f} \cap worker_queue_)
        /\ at[f] = "gone" <=> use_count_[f] = 0
        /\ at[f] # "gone" /\ f \notin worker_queue_ => at[f] = "terminated"

\* A turn of the dispatcher wakes exactly the contexts whose deadline is reached.
SleepersWakeOnTime ==
    [][Dispatch => \A i \in DOMAIN sleep_queue_ :
        at'[sleep_queue_[i].ctx] = "runs" <=> sleep_queue_[i].tp <= now]_vars

\* join() and the scheduler's destructor return, also if the dispatcher has
\* nothing to run when main joins it: main, that is the thread, is gone.
ThreadEnded == at[Main] = "gone"
===============================================================================
