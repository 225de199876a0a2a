-------------------------- MODULE ConditionVariable ---------------------------
(***************************************************************************)
(* condition_variable_any with one mutex, and condition_variable, which    *)
(* wraps it: wait() and wait_until(), notify_one() and notify_all(), with  *)
(* the mutex of FiberMutex unlocked and locked again on the way.           *)
(*                                                                         *)
(* A fiber links itself into the mutex and into the condition variable     *)
(* with the same hook, wait_hook_.                                         *)
(***************************************************************************)
EXTENDS FiberMutex

\* condition_variable takes a std::unique_lock< mutex >.
ASSUME CondAssumption == ~Recursive

VARIABLE
    cond_queue_     \* wait_queue_ of the condition variable

condVars == <<vars, cond_queue_>>

\* blocked, dozes: suspended in wait(), in wait_until(); notified: made ready
\* by a notification; overdue: made ready by its deadline, still linked.
CondPlaces == {"blocked", "dozes", "notified", "overdue"}

CondTypeOK ==
    /\ owner_ \in Fibers \cup {NoFiber}
    /\ count_ \in Nat
    /\ wait_queue_ \in Seq(Fibers) /\ cond_queue_ \in Seq(Fibers)
    /\ at \in [Fibers -> Places \cup CondPlaces]
    /\ held \in [Fibers -> 0..1]

CondInit == Init /\ cond_queue_ = <<>>

\* What the mutex's operations leave alone.
OfMutex(A) == A /\ UNCHANGED cond_queue_

\* mutant: wait() frees the mutex and passes it to nobody
Drop(f, place) ==
    /\ held' = [held EXCEPT ![f] = 0]
    /\ owner_' = NoFiber /\ count_' = 0
    /\ at' = [at EXCEPT ![f] = place]
    /\ UNCHANGED wait_queue_

\* lt.unlock(), the caller then being suspended at place.
Release(f, place) ==
    /\ held' = [held EXCEPT ![f] = 0]
    /\ IF wait_queue_ = <<>>
         THEN /\ owner_' = NoFiber /\ count_' = 0
              /\ at' = [at EXCEPT ![f] = place]
              /\ UNCHANGED wait_queue_
         ELSE /\ owner_' = NextOwner /\ count_' = CountOfNextOwner
              /\ wait_queue_' = Others
              /\ at' = [at EXCEPT ![f] = place, ![Head(wait_queue_)] = Readied(@)]

\* wait(), up to the point where it suspends the fiber.
Wait(f) ==
    /\ at[f] = "runs" /\ held[f] > 0 /\ owner_ = f
    /\ cond_queue_' = Append(cond_queue_, f)
    /\ Release(f, "blocked")

WaitUntil(f) ==
    /\ f \in Timed
    /\ at[f] = "runs" /\ held[f] > 0 /\ owner_ = f
    /\ cond_queue_' = Append(cond_queue_, f)
    /\ Release(f, "dozes")

NotifyOne(f) ==
    /\ at[f] = "runs"
    /\ cond_queue_ # <<>>
    /\ cond_queue_' = Tail(cond_queue_)
    /\ at' = [at EXCEPT ![Head(cond_queue_)] = "notified"]
    /\ UNCHANGED <<owner_, count_, wait_queue_, held>>

AllLinked == ToSet(cond_queue_)

NotifyAll(f) ==
    /\ at[f] = "runs"
    /\ cond_queue_ # <<>>
    /\ cond_queue_' = <<>>
    /\ at' = [g \in Fibers |-> IF g \in AllLinked THEN "notified" ELSE at[g]]
    /\ UNCHANGED <<owner_, count_, wait_queue_, held>>

\* The dispatcher finds the deadline of a fiber reached.
CondExpire(f) ==
    /\ at[f] = "dozes"
    /\ at' = [at EXCEPT ![f] = "overdue"]
    /\ UNCHANGED <<owner_, count_, wait_queue_, held, cond_queue_>>

\* mutant: the fiber goes for the mutex while it is linked
StillLinked(f) == cond_queue_
Unlinked(f) == Unlink(cond_queue_, f)

\* The rest of wait() and wait_until(): unlink, then lt.lock().
WaitResumes(f) ==
    /\ at[f] \in {"notified", "overdue"}
    /\ cond_queue_' = Unlinked(f)
    /\ Acquire(f)

CondNext ==
    \E f \in Fibers :
        \/ OfMutex(Lock(f)) \/ OfMutex(TryLock(f)) \/ OfMutex(TryLockReturns(f))
        \/ OfMutex(Unlock(f)) \/ OfMutex(LockReturns(f))
        \/ Wait(f) \/ WaitUntil(f) \/ NotifyOne(f) \/ NotifyAll(f)
        \/ CondExpire(f) \/ WaitResumes(f)

\* Ready fibers run some day and holders unlock some day.
CondFairness ==
    \A f \in Fibers :
        /\ WF_condVars(OfMutex(TryLockReturns(f))) /\ WF_condVars(OfMutex(LockReturns(f)))
        /\ WF_condVars(OfMutex(Unlock(f)))
        /\ WF_condVars(WaitResumes(f))

CondSpec == CondInit /\ [][CondNext]_condVars /\ CondFairness

-------------------------------------------------------------------------------

\* A fiber is linked into one queue at a time: wait_hook_ cannot hold it in
\* the condition variable while it queues for the mutex it locks again.
OneHookOneQueue ==
    ToSet(wait_queue_) \cap ToSet(cond_queue_) = {}

\* A fiber that has let go of the mutex in wait() can be reached by the next
\* notification, however long it has not been suspended; beyond the suspended
\* fibers only those past their deadline are linked.
WaiterIsReachable ==
    LET Suspended == {f \in Fibers : at[f] \in {"blocked", "dozes"}} IN
        /\ IsInjective(cond_queue_)
        /\ Suspended \subseteq ToSet(cond_queue_)
        /\ ToSet(cond_queue_) \subseteq Suspended \cup {f \in Fibers : at[f] = "overdue"}

\* To the mutex a fiber inside wait() is one that runs and does not hold it:
\* wait() and wait_until() use the mutex as any client does.
AsSeenByMutex == INSTANCE FiberMutex WITH
    at <- [f \in Fibers |-> IF at[f] \in CondPlaces THEN "runs" ELSE at[f]]

===============================================================================
