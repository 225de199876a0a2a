----------------------------- MODULE SharedState ------------------------------
(***************************************************************************)
(* The state that a promise or a packaged_task shares with its futures:    *)
(* mtx_, waiters_, ready_, the value or exception, and the number of       *)
(* references.  mtx_ and waiters_ are those of ConditionVariable.          *)
(*                                                                         *)
(* The copy or move constructor of the value is the client's and runs with *)
(* mtx_ locked: it may throw, and it may switch to other fibers.  Clients  *)
(* do not destroy a promise while it is being satisfied, nor a future      *)
(* while they are in one of its calls.                                     *)
(***************************************************************************)
EXTENDS ConditionVariable

CONSTANTS
    Setters,    \* fibers that have access to the promise
    Readers     \* fibers that may have a future

ASSUME SharedStateAssumption == Setters \subseteq Fibers /\ Readers \subseteq Fibers

VARIABLES
    ready_,
    result,     \* what get() finds: none, value, exception, or broken
    by,         \* whose value it is
    storing,    \* the fiber that constructs the value
    use_count_,
    future_,    \* the promise exists
    obtained_,  \* get_future() was called
    shared,     \* the future was turned into a shared_future
    has,        \* has[f]: f has a valid future
    call,       \* the operation each fiber is in
    stored,     \* the fibers whose call satisfied the promise
    got         \* the results that futures returned

stateVars ==
    <<ready_, result, by, storing, use_count_, future_, obtained_, shared, has, call, stored, got>>
futureVars == <<condVars, stateVars>>

Results == {"value", "exception", "broken"}
Satisfying == {"set", "run", "except"}  \* run: packaged_task::operator()
Reading == {"get", "wait", "wait_until", "timed_out"}

StateTypeOK ==
    /\ CondTypeOK
    /\ ready_ \in BOOLEAN /\ result \in Results \cup {"none"}
    /\ by \in Setters \cup {NoFiber} /\ storing \in Setters \cup {NoFiber}
    /\ use_count_ \in Nat
    /\ future_ \in BOOLEAN /\ obtained_ \in BOOLEAN /\ shared \in BOOLEAN
    /\ has \in [Fibers -> BOOLEAN]
    /\ call \in [Fibers -> Satisfying \cup Reading \cup {"none", "destroy"}]
    /\ stored \subseteq Setters /\ got \subseteq Results

StateInit ==
    /\ ready_ = FALSE /\ result = "none" /\ by = NoFiber /\ storing = NoFiber
    /\ use_count_ = 1 /\ future_ = TRUE
    /\ obtained_ = FALSE /\ shared = FALSE
    /\ has = [f \in Fibers |-> FALSE]
    /\ call = [f \in Fibers |-> "none"]
    /\ stored = {} /\ got = {}

Idle(f) == at[f] = "runs" /\ call[f] = "none"

\* f is in the call and has mtx_.
In(f, calls) == at[f] = "runs" /\ held[f] > 0 /\ call[f] \in calls

\* A call begins with std::unique_lock lk( mtx_).
Locks(f, c) ==
    /\ Idle(f)
    /\ OfMutex(Acquire(f))
    /\ call' = [call EXCEPT ![f] = c]

\* It ends, lk being destroyed.
Returns(f) ==
    /\ OfMutex(Unlock(f))
    /\ call' = [call EXCEPT ![f] = "none"]

\* waiters_.notify_all(), the mutex having been passed on.
NotifyWaiters ==
    /\ cond_queue_' = <<>>
    /\ at' = [g \in Fibers |->
                IF g \in AllLinked THEN "notified"
                ELSE IF wait_queue_ # <<>> /\ g = Head(wait_queue_) THEN Readied(at[g])
                ELSE at[g]]

\* mark_ready_and_notify_(): ready_, lk.unlock(), notify_all().
MarkReady(f, r) ==
    /\ ready_' = TRUE
    /\ result' = r
    /\ held' = [held EXCEPT ![f] = 0]
    /\ owner_' = IF wait_queue_ = <<>> THEN NoFiber ELSE NextOwner
    /\ count_' = IF wait_queue_ = <<>> THEN 0 ELSE CountOfNextOwner
    /\ wait_queue_' = IF wait_queue_ = <<>> THEN <<>> ELSE Others
    /\ NotifyWaiters
    /\ call' = [call EXCEPT ![f] = "none"]

-------------------------------------------------------------------------------
(***************************************************************************)
(* The promise and the packaged_task.                                      *)
(***************************************************************************)

\* set_value(), the call of a packaged_task whose function has returned,
\* set_exception().
Satisfy(f, c) ==
    /\ f \in Setters /\ c \in Satisfying
    /\ future_ /\ \A g \in Fibers : call[g] # "destroy"
    /\ Locks(f, c)
    /\ UNCHANGED <<ready_, result, by, storing, use_count_, future_, obtained_, shared, has, stored, got>>

NotReady == ~ready_

StoreBegins(f) ==
    /\ In(f, {"set", "run"}) /\ storing # f
    /\ NotReady
    /\ storing' = f
    /\ UNCHANGED <<condVars, ready_, result, by, use_count_, future_, obtained_, shared, has, call, stored, got>>

StoreEnds(f) ==
    /\ In(f, {"set", "run"}) /\ storing = f
    /\ MarkReady(f, "value")
    /\ by' = f /\ storing' = NoFiber
    /\ stored' = stored \cup {f}
    /\ UNCHANGED <<use_count_, future_, obtained_, shared, has, got>>

\* lk is unlocked and the next call locks mtx_ again.
Relocks(f) ==
    /\ \/ wait_queue_ = <<>> /\ UNCHANGED vars
       \/ /\ wait_queue_ # <<>>
          /\ held' = [held EXCEPT ![f] = 0]
          /\ owner_' = NextOwner /\ count_' = CountOfNextOwner
          /\ wait_queue_' = Append(Others, f)
          /\ at' = [at EXCEPT ![f] = "waits", ![Head(wait_queue_)] = Readied(@)]
    /\ UNCHANGED cond_queue_

\* The value's constructor throws, or set_value_() finds the state ready; a
\* packaged_task catches that and calls set_exception().
StoreThrows(f) ==
    /\ In(f, {"set", "run"})
    /\ storing = f \/ ready_
    /\ storing' = IF storing = f THEN NoFiber ELSE storing
    /\ \/ call[f] = "set" /\ Returns(f)
       \/ /\ call[f] = "run" /\ Relocks(f)
          /\ call' = [call EXCEPT ![f] = "except"]
    /\ UNCHANGED <<ready_, result, by, use_count_, future_, obtained_, shared, has, stored, got>>

SetException(f) ==
    /\ In(f, {"except"})
    /\ \/ ~ready_ /\ MarkReady(f, "exception") /\ by' = f /\ stored' = stored \cup {f}
       \/ ready_ /\ Returns(f) /\ UNCHANGED <<ready_, result, by, stored>>
    /\ UNCHANGED <<storing, use_count_, future_, obtained_, shared, has, got>>

\* The promise is destroyed or assigned to, or the packaged_task is reset().
Destroy(f) ==
    /\ f \in Setters
    /\ future_ /\ \A g \in Fibers : call[g] \notin Satisfying \cup {"destroy"}
    /\ Locks(f, "destroy")
    /\ UNCHANGED <<ready_, result, by, storing, use_count_, future_, obtained_, shared, has, stored, got>>

\* owner_destroyed_(), and the promise's reference.
Destroyed(f) ==
    /\ In(f, {"destroy"})
    /\ \/ ~ready_ /\ MarkReady(f, "broken")
       \/ ready_ /\ Returns(f) /\ UNCHANGED <<ready_, result>>
    /\ future_' = FALSE
    /\ use_count_' = use_count_ - 1
    /\ UNCHANGED <<by, storing, obtained_, shared, has, stored, got>>

-------------------------------------------------------------------------------
(***************************************************************************)
(* The futures.                                                            *)
(***************************************************************************)

GetFuture(f) ==
    /\ f \in Readers /\ Idle(f)
    /\ future_ /\ ~obtained_ /\ \A g \in Fibers : call[g] # "destroy"
    /\ obtained_' = TRUE
    /\ has' = [has EXCEPT ![f] = TRUE]
    /\ use_count_' = use_count_ + 1
    /\ UNCHANGED <<condVars, ready_, result, by, storing, future_, shared, call, stored, got>>

Share(f) ==
    /\ Idle(f) /\ has[f] /\ ~shared
    /\ shared' = TRUE
    /\ UNCHANGED <<condVars, ready_, result, by, storing, use_count_, future_, obtained_, has, call, stored, got>>

\* g gets a copy of the shared_future.
Copy(f, g) ==
    /\ Idle(f) /\ has[f] /\ shared
    /\ g \in Readers /\ ~has[g]
    /\ has' = [has EXCEPT ![g] = TRUE]
    /\ use_count_' = use_count_ + 1
    /\ UNCHANGED <<condVars, ready_, result, by, storing, future_, obtained_, shared, call, stored, got>>

\* The move constructor and assignment take the reference out of the source.
Move(f, g) ==
    /\ Idle(f) /\ has[f]
    /\ g \in Readers /\ ~has[g]
    /\ has' = [has EXCEPT ![f] = FALSE, ![g] = TRUE]
    /\ UNCHANGED <<condVars, ready_, result, by, storing, use_count_, future_, obtained_, shared, call, stored, got>>

DropFuture(f) ==
    /\ Idle(f) /\ has[f]
    /\ has' = [has EXCEPT ![f] = FALSE]
    /\ use_count_' = use_count_ - 1
    /\ UNCHANGED <<condVars, ready_, result, by, storing, future_, obtained_, shared, call, stored, got>>

\* mutant: get() lets go of the reference it took out of the future
Forgotten == IF shared THEN use_count_ ELSE use_count_ - 1
Swapped == use_count_

\* future::get() takes the reference out of the future, shared_future::get()
\* does not.
Get(f) ==
    /\ has[f] /\ Locks(f, "get")
    /\ has' = [has EXCEPT ![f] = shared]
    /\ use_count_' = Swapped
    /\ UNCHANGED <<ready_, result, by, storing, future_, obtained_, shared, stored, got>>

\* wait() and get_exception_ptr(); wait_for() and wait_until().
WaitReady(f, c) ==
    /\ has[f]
    /\ \/ c = "wait"
       \/ c = "wait_until" /\ f \in Timed
    /\ Locks(f, c)
    /\ UNCHANGED <<ready_, result, by, storing, use_count_, future_, obtained_, shared, has, stored, got>>

\* while ( ! pred() ) in the waits of condition_variable.
Blocks(f) ==
    /\ ~ready_
    /\ \/ In(f, {"get", "wait"}) /\ Wait(f)
       \/ In(f, {"wait_until"}) /\ WaitUntil(f)
    /\ UNCHANGED stateVars

\* The fiber runs again; a timed wait asks the clock whether it is late.
Resumes(f) ==
    /\ WaitResumes(f)
    /\ \/ at[f] = "notified" /\ UNCHANGED call
       \/ /\ call[f] = "wait_until"
          /\ call' = [call EXCEPT ![f] = "timed_out"]
    /\ UNCHANGED <<ready_, result, by, storing, use_count_, future_, obtained_, shared, has, stored, got>>

\* pred() is true; get() drops the reference it took.
ReturnsReady(f) ==
    /\ In(f, Reading) /\ ready_
    /\ Returns(f)
    /\ got' = got \cup {result}
    /\ use_count_' = IF has[f] THEN use_count_ ELSE use_count_ - 1
    /\ UNCHANGED <<ready_, result, by, storing, future_, obtained_, shared, has, stored>>

TimesOut(f) ==
    /\ In(f, {"timed_out"}) /\ ~ready_
    /\ Returns(f)
    /\ UNCHANGED <<ready_, result, by, storing, use_count_, future_, obtained_, shared, has, stored, got>>

\* What a fiber in a call does once it is ready or has mtx_.
Continues(f) ==
    \/ StoreBegins(f) \/ StoreEnds(f) \/ StoreThrows(f) \/ SetException(f) \/ Destroyed(f)
    \/ Blocks(f) \/ Resumes(f) \/ ReturnsReady(f) \/ TimesOut(f)
    \/ OfMutex(LockReturns(f)) /\ UNCHANGED stateVars

StateNext ==
    \E f \in Fibers :
        \/ \E c \in Satisfying : Satisfy(f, c)
        \/ Destroy(f) \/ GetFuture(f) \/ Share(f) \/ DropFuture(f) \/ Get(f)
        \/ \E g \in Fibers : Copy(f, g) \/ Move(f, g)
        \/ \E c \in {"wait", "wait_until"} : WaitReady(f, c)
        \/ CondExpire(f) /\ UNCHANGED stateVars
        \/ Continues(f)

-------------------------------------------------------------------------------

\* Of all that try to satisfy the promise, one succeeds, and its value or
\* exception is what the futures answer with, although another may come while
\* the value is being constructed; a promise is broken only if none did.
FirstResultStands ==
    /\ ready_ <=> result # "none"
    /\ stored = IF result \in {"value", "exception"} THEN {by} ELSE {}
    /\ got \subseteq {result}

\* The state is deallocated when nobody uses it: no fiber is in a call on it
\* or linked into its queues, and the fibers woken by the promise that is gone
\* still find it.
StateOutlivesCalls ==
    /\ use_count_ = 0 => \A f \in Fibers : call[f] = "none"
    /\ future_ => use_count_ > 0
    /\ \A f \in Readers : has[f] => use_count_ > 0
===============================================================================
