------------------------------ MODULE FiberMutex ------------------------------
(***************************************************************************)
(* The four mutexes of the fiber library.  mutex and timed_mutex are the   *)
(* case Recursive = FALSE, recursive_mutex and recursive_timed_mutex the   *)
(* case Recursive = TRUE; only the fibers of Timed call try_lock_until().  *)
(* A mutex that is not recursive has no count_: its count is 1 while it is *)
(* owned.                                                                  *)
(*                                                                         *)
(* The fibers of one scheduler share a thread and the spinlocks are empty, *)
(* so an action is all that a fiber does between two context switches, and *)
(* the scheduling algorithm may pick any fiber that is ready.  A call that *)
(* throws lock_error changes nothing and is no action.                     *)
(***************************************************************************)
EXTENDS Naturals, Sequences, SequencesExt

CONSTANTS
    Fibers,     \* the fibers that use the mutex
    NoFiber,    \* nullptr
    Timed,      \* the fibers that call try_lock_until(): {} for the untimed mutexes
    Recursive,  \* TRUE for the recursive mutexes
    MaxDepth    \* bound: locks one fiber holds at once

ASSUME MutexAssumption ==
    /\ NoFiber \notin Fibers
    /\ Timed \subseteq Fibers
    /\ Recursive \in BOOLEAN
    /\ MaxDepth \in Nat \ {0}

VARIABLES
    owner_,         \* the fiber the mutex belongs to
    count_,         \* how often it is locked
    wait_queue_,    \* the fibers linked into the mutex, first come first
    at,             \* where each fiber is
    held            \* successful lock calls of each fiber that it has not undone

vars == <<owner_, count_, wait_queue_, at, held>>

\* runs: outside the mutex's operations; tries: in try_lock(), yielding;
\* waits: suspended in lock(); sleeps: suspended in try_lock_until_();
\* granted, woken: made ready by unlock() out of waits, out of sleeps;
\* expired: made ready by its deadline, out of sleeps.
Places == {"runs", "tries", "waits", "sleeps", "granted", "woken", "expired"}

TypeOK ==
    /\ owner_ \in Fibers \cup {NoFiber}
    /\ count_ \in Nat
    /\ wait_queue_ \in Seq(Fibers)
    /\ at \in [Fibers -> Places]
    /\ held \in [Fibers -> Nat]

Init ==
    /\ owner_ = NoFiber
    /\ count_ = 0
    /\ wait_queue_ = <<>>
    /\ at = [f \in Fibers |-> "runs"]
    /\ held = [f \in Fibers |-> 0]

\* mutant: a fiber that waits is not looked at
NobodyIsIn == \A f \in Fibers : held[f] = 0
IsFree == owner_ = NoFiber

\* ctx becomes the owner and its call returns.
Take(f) ==
    /\ owner_' = f
    /\ count_' = 1
    /\ held' = [held EXCEPT ![f] = 1]
    /\ at' = [at EXCEPT ![f] = "runs"]
    /\ UNCHANGED wait_queue_

\* ctx->wait_link( wait_queue_), and another fiber is resumed.
Queue(f, place) ==
    /\ wait_queue_' = Append(wait_queue_, f)
    /\ at' = [at EXCEPT ![f] = place]
    /\ UNCHANGED <<owner_, count_, held>>

\* What lock() does once the owner is not the caller.
Acquire(f) ==
    \/ IsFree /\ Take(f)
    \/ ~IsFree /\ Queue(f, "waits")

Lock(f) ==
    /\ at[f] = "runs" /\ owner_ # f
    /\ Acquire(f)

\* The owner of a recursive mutex locks it once more.
LockAgain(f) ==
    /\ Recursive
    /\ at[f] = "runs" /\ owner_ = f
    /\ held[f] < MaxDepth
    /\ count_' = count_ + 1
    /\ held' = [held EXCEPT ![f] = @ + 1]
    /\ UNCHANGED <<owner_, wait_queue_, at>>

\* try_lock() takes a free mutex, then yields before it answers.
TryLock(f) ==
    /\ at[f] = "runs" /\ owner_ # f
    /\ at' = [at EXCEPT ![f] = "tries"]
    /\ IF IsFree THEN owner_' = f /\ count_' = 1 ELSE UNCHANGED <<owner_, count_>>
    /\ UNCHANGED <<wait_queue_, held>>

TryLockAgain(f) ==
    /\ Recursive
    /\ at[f] = "runs" /\ owner_ = f
    /\ held[f] < MaxDepth
    /\ count_' = count_ + 1
    /\ at' = [at EXCEPT ![f] = "tries"]
    /\ UNCHANGED <<owner_, wait_queue_, held>>

\* The end of try_lock(): return ctx == owner_.
TryLockReturns(f) ==
    /\ at[f] = "tries"
    /\ at' = [at EXCEPT ![f] = "runs"]
    /\ held' = [held EXCEPT ![f] = IF owner_ = f THEN @ + 1 ELSE @]
    /\ UNCHANGED <<owner_, count_, wait_queue_>>

\* set_ready(): the fiber leaves the sleep queue for the ready queue.
Readied(place) ==
    CASE place = "waits" -> "granted"
      [] place = "sleeps" -> "woken"
      [] OTHER -> place

Others == Tail(wait_queue_)

\* mutant: the waiter has to ask for the mutex again
Nobody == NoFiber
NextOwner == Head(wait_queue_)

\* mutant: the count of the last owner is kept
CountOfLastOwner == count_ - 1
CountOfNextOwner == 1

\* The mutex passes to the first fiber of the queue.
HandOver ==
    /\ wait_queue_ # <<>>
    /\ owner_' = NextOwner
    /\ count_' = CountOfNextOwner
    /\ wait_queue_' = Others
    /\ at' = [at EXCEPT ![Head(wait_queue_)] = Readied(@)]

SetFree ==
    /\ wait_queue_ = <<>>
    /\ owner_' = NoFiber
    /\ count_' = 0
    /\ UNCHANGED <<wait_queue_, at>>

Unlock(f) ==
    /\ at[f] = "runs" /\ owner_ = f /\ held[f] > 0
    /\ held' = [held EXCEPT ![f] = @ - 1]
    /\ IF count_ - 1 # 0
         THEN count_' = count_ - 1 /\ UNCHANGED <<owner_, wait_queue_, at>>
         ELSE HandOver \/ SetFree

\* A fiber suspended in lock() is resumed: unlock() made it the owner.
LockReturns(f) ==
    /\ at[f] = "granted"
    /\ at' = [at EXCEPT ![f] = "runs"]
    /\ held' = [held EXCEPT ![f] = @ + 1]
    /\ UNCHANGED <<owner_, count_, wait_queue_>>

\* try_lock_until_() before its deadline; later than that it returns false at once.
TryLockUntil(f) ==
    /\ f \in Timed
    /\ at[f] = "runs"
    /\ \/ IsFree /\ Take(f)
       \/ ~IsFree /\ (owner_ = f => ~Recursive) /\ Queue(f, "sleeps")

\* The dispatcher moves a fiber past its deadline to the ready queue and
\* leaves it linked into the mutex.
Expire(f) ==
    /\ at[f] = "sleeps"
    /\ at' = [at EXCEPT ![f] = "expired"]
    /\ UNCHANGED <<owner_, count_, wait_queue_, held>>

\* wait_unlink(): f is taken out of a queue, if it is linked there.
Unlink(queue, f) ==
    IF f \in ToSet(queue)
      THEN RemoveAt(queue, CHOOSE i \in DOMAIN queue : queue[i] = f)
      ELSE queue

\* The fiber runs again: in time if it was woken and the clock does not say
\* otherwise, else it unlinks itself and returns false.
InTime(f) ==
    /\ at[f] = "woken"
    /\ at' = [at EXCEPT ![f] = "runs"]
    /\ held' = [held EXCEPT ![f] = @ + 1]
    /\ UNCHANGED <<owner_, count_, wait_queue_>>

TooLate(f) ==
    /\ at[f] \in {"woken", "expired"}
    /\ at' = [at EXCEPT ![f] = "runs"]
    /\ wait_queue_' = Unlink(wait_queue_, f)
    /\ UNCHANGED <<owner_, count_, held>>

Next ==
    \E f \in Fibers :
        \/ Lock(f) \/ LockAgain(f) \/ TryLock(f) \/ TryLockAgain(f)
        \/ TryLockReturns(f) \/ Unlock(f) \/ LockReturns(f)
        \/ TryLockUntil(f) \/ Expire(f) \/ InTime(f) \/ TooLate(f)

\* A ready fiber is resumed some day, and a fiber that holds the mutex
\* unlocks it some day.
Fairness ==
    \A f \in Fibers :
        /\ WF_vars(TryLockReturns(f)) /\ WF_vars(LockReturns(f))
        /\ WF_vars(InTime(f) \/ TooLate(f))
        /\ WF_vars(Unlock(f))

Spec == Init /\ [][Next]_vars /\ Fairness

-------------------------------------------------------------------------------

\* At most one fiber has a lock call that succeeded and is not undone: the
\* mutex passes from unlock() to a fiber that runs only later, while others
\* call lock() and try_lock().
MutualExclusion ==
    \A f, g \in Fibers : held[f] > 0 /\ held[g] > 0 => f = g

\* The count of the owner is what its calls add up to, those under way
\* included: a recursive mutex is passed on by the last unlock(), not sooner.
CountIsHeld ==
    \A f \in Fibers : owner_ = f =>
        count_ = held[f] + IF at[f] \in {"tries", "granted"} THEN 1 ELSE 0

\* No fiber is linked to a mutex that is free: unlock() frees it only when nobody
\* waits, and otherwise makes a waiter the owner.  That this owner unlocks it in its
\* turn is not said: one whose deadline has passed does not (FreeWhenUnused).
NoLostWakeup ==
    wait_queue_ # <<>> => owner_ # NoFiber

\* The queue holds each suspended fiber once, and besides them only fibers
\* whose deadline has passed and that have not run since.
WaitersAreQueued ==
    LET Linked == ToSet(wait_queue_) IN
        /\ IsInjective(wait_queue_)
        /\ {f \in Fibers : at[f] \in {"waits", "sleeps"}} \subseteq Linked
        /\ Linked \subseteq {f \in Fibers : at[f] \in {"waits", "sleeps", "expired"}}

\* What the mutex's destructor asserts, once every fiber has returned from its
\* calls and undone those that succeeded.
FreeWhenUnused ==
    (\A f \in Fibers : at[f] = "runs" /\ held[f] = 0) => owner_ = NoFiber

\* Why MutualExclusion holds: a lock call has succeeded, or is about to, only
\* for the owner, and count_ is at least the number of its calls, so that
\* unlock() passes the mutex on only when none of them is left.
HolderOwns == \A f \in Fibers : held[f] > 0 => owner_ = f

GrantedOwns == \A f \in Fibers : at[f] \in {"granted", "woken"} => owner_ = f

CountCovers ==
    \A f \in Fibers : owner_ = f =>
        held[f] + (IF at[f] \in {"tries", "granted", "woken"} THEN 1 ELSE 0) <= count_

\* The inductive invariant.
Inv ==
    /\ TypeOK
    /\ WaitersAreQueued
    /\ NoLostWakeup
    /\ HolderOwns
    /\ GrantedOwns
    /\ CountCovers
===============================================================================
