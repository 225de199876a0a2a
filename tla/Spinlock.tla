-------------------------------- MODULE Spinlock --------------------------------
(***************************************************************************)
(* The spinlocks of fiber/detail: test-and-test-and-set locks, and those   *)
(* that give up spinning and sleep on a futex.  How long a thread spins,   *)
(* which the adaptive variants estimate from tests_, is left open: before  *)
(* each test it may be enough.                                             *)
(*                                                                         *)
(* Each access to the shared word is a step.  unlock() of the futex locks  *)
(* subtracts with acquire order; the processors the build targets order    *)
(* the critical section before it all the same.                            *)
(***************************************************************************)
EXTENDS Integers

CONSTANTS Threads, MaxLocks     \* bound: how often one thread locks

ASSUME SpinlockAssumption == MaxLocks \in Nat

VARIABLES
    futex,      \* the lock is one of those with a futex
    value_,     \* 0: unlocked, 1: locked, 2: locked and somebody may sleep
    expected,   \* the local of lock()
    asleep,     \* who sleeps in the kernel
    at,         \* where each thread is
    locks       \* how often it has locked

vars == <<futex, value_, expected, asleep, at, locks>>

Stages == {"out", "test", "set", "spin", "cas", "mark", "marked", "wait", "holds", "store", "wake"}

TypeOK ==
    /\ futex \in BOOLEAN
    /\ value_ \in Int /\ expected \in [Threads -> Int]
    /\ asleep \subseteq Threads
    /\ at \in [Threads -> Stages]
    /\ locks \in [Threads -> Int]

Init ==
    /\ futex \in BOOLEAN
    /\ value_ = 0
    /\ expected = [t \in Threads |-> 0]
    /\ asleep = {}
    /\ at = [t \in Threads |-> "out"]
    /\ locks = [t \in Threads |-> 0]

Goes(t, stage) == at' = [at EXCEPT ![t] = stage]
Sees(t, value) == expected' = [expected EXCEPT ![t] = value]

Lock(t) ==
    /\ at[t] = "out" /\ locks[t] < MaxLocks
    /\ locks' = [locks EXCEPT ![t] = @ + 1]
    /\ Goes(t, IF futex THEN "spin" ELSE "test")
    /\ UNCHANGED <<futex, value_, expected, asleep>>

--------------------------------------------------------------------------------
(* spinlock_ttas, spinlock_ttas_adaptive *)

Test(t) ==
    /\ at[t] = "test"
    /\ value_ = 0
    /\ Goes(t, "set")
    /\ UNCHANGED <<futex, value_, expected, asleep, locks>>

NotTested(v) == "holds"             \* mutant: what the exchange found is not looked at
AfterSet(v) == IF v = 0 THEN "holds" ELSE "test"
TestAndSet(t) ==
    /\ at[t] = "set"
    /\ value_' = 1
    /\ Goes(t, AfterSet(value_))
    /\ UNCHANGED <<futex, expected, asleep, locks>>

Unlock(t) ==
    /\ at[t] = "holds" /\ ~ futex
    /\ value_' = 0
    /\ Goes(t, "out")
    /\ UNCHANGED <<futex, expected, asleep, locks>>

--------------------------------------------------------------------------------
(* spinlock_ttas_futex, spinlock_ttas_adaptive_futex *)

\* After a failed test or a collision: spin on, or give up.
Fails(t, value) ==
    /\ Sees(t, value)
    /\ \E stage \in {"spin", "mark"} : Goes(t, stage)
    /\ UNCHANGED <<futex, value_, asleep, locks>>

Spin(t) ==
    /\ at[t] = "spin"
    /\ \/ value_ # 0 /\ Fails(t, value_)
       \/ value_ = 0 /\ Goes(t, "cas") /\ UNCHANGED <<futex, value_, expected, asleep, locks>>

CompareExchange(t) ==
    /\ at[t] = "cas"
    /\ \/ value_ # 0 /\ Fails(t, value_)
       \/ /\ value_ = 0
          /\ value_' = 1
          /\ Goes(t, "holds")
          /\ UNCHANGED <<futex, expected, asleep, locks>>

\* exchange( 2): the lock is taken if it was free, marked as slept on if not.
Exchange(t) ==
    /\ value_' = 2
    /\ Sees(t, value_)
    /\ Goes(t, "marked")
    /\ UNCHANGED <<futex, asleep, locks>>

Mark(t) ==
    /\ at[t] = "mark"
    /\ IF expected[t] # 2 THEN Exchange(t)
                          ELSE Goes(t, "wait") /\ UNCHANGED <<futex, value_, expected, asleep, locks>>

Marked(t) ==
    /\ at[t] = "marked"
    /\ Goes(t, IF expected[t] = 0 THEN "holds" ELSE "wait")
    /\ UNCHANGED <<futex, value_, expected, asleep, locks>>

\* futex_wait: sleep if the word still holds 2.
FutexWait(t) ==
    /\ at[t] = "wait" /\ t \notin asleep
    /\ value_ = 2
    /\ asleep' = asleep \cup {t}
    /\ UNCHANGED <<futex, value_, expected, at, locks>>

\* It has returned, woken, refused or interrupted.
WaitReturns(t) ==
    /\ at[t] = "wait" /\ t \notin asleep
    /\ Exchange(t)

Interrupted(t) ==
    /\ t \in asleep
    /\ asleep' = asleep \ {t}
    /\ UNCHANGED <<futex, value_, expected, at, locks>>

Subtract(t) ==
    /\ at[t] = "holds" /\ futex
    /\ value_' = value_ - 1
    /\ Goes(t, IF value_ = 1 THEN "out" ELSE "store")
    /\ UNCHANGED <<futex, expected, asleep, locks>>

Store(t) ==
    /\ at[t] = "store"
    /\ value_' = 0
    /\ Goes(t, "wake")
    /\ UNCHANGED <<futex, expected, asleep, locks>>

\* mutant: the wake-up is left out
WakesNone == {asleep}
WakesOne == IF asleep = {} THEN {{}} ELSE {asleep \ {u} : u \in asleep}
FutexWake(t) ==
    /\ at[t] = "wake"
    /\ asleep' \in WakesOne
    /\ Goes(t, "out")
    /\ UNCHANGED <<futex, value_, expected, locks>>

--------------------------------------------------------------------------------

\* What a thread does once it wants the lock; it unlocks some day.
Step(t) ==
    \/ Test(t) \/ TestAndSet(t) \/ Unlock(t)
    \/ Spin(t) \/ CompareExchange(t) \/ Mark(t) \/ Marked(t)
    \/ FutexWait(t) \/ WaitReturns(t) \/ Subtract(t) \/ Store(t) \/ FutexWake(t)

Next == \E t \in Threads : Step(t) \/ Lock(t) \/ Interrupted(t)

Spec == Init /\ [][Next]_vars /\ \A t \in Threads : WF_vars(Step(t))

--------------------------------------------------------------------------------

Holders == {t \in Threads : at[t] = "holds"}

\* At most one thread is between lock() and unlock(), whatever the interleaving
\* of exchanges, of the two stores of a contended unlock() and of sleepers.
OneHolder == TypeOK /\ \A t, u \in Holders : t = u

\* Nobody is inside lock().
NobodyWaits == \A t \in Threads : at[t] \in {"out", "holds", "store", "wake"}
================================================================================
