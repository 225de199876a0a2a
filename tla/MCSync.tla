-------------------------------- MODULE MCSync --------------------------------
(***************************************************************************)
(* Fibers of one thread that use one synchronisation object, chosen at the *)
(* start: a mutex with a condition variable, a timed_mutex, a              *)
(* recursive_mutex, a recursive_timed_mutex, a barrier that needs all of   *)
(* them, one that needs all but one, or the state that a promise shares    *)
(* with its futures.                                                       *)
(* The objects share the variable that says where each fiber is.           *)
(***************************************************************************)
EXTENDS SharedState, FiniteSets, TLC

CONSTANT MaxCycles

VARIABLES
    object,
    current_, cycle_, queue, cycle, calls, completed, joined    \* of Barrier

barrierVars == <<current_, cycle_, queue, cycle, calls, completed, joined>>
syncVars == <<object, condVars, stateVars, barrierVars>>

Recursively == INSTANCE FiberMutex WITH Recursive <- TRUE, Timed <- {}
RecursiveTimed == INSTANCE FiberMutex WITH Recursive <- TRUE
All == INSTANCE Barrier WITH Initial <- Cardinality(Fibers)
AllButOne == INSTANCE Barrier WITH Initial <- Cardinality(Fibers) - 1

ASSUME SyncAssumption ==
    /\ RecursiveTimed!MutexAssumption
    /\ All!BarrierAssumption /\ AllButOne!BarrierAssumption

SyncInit ==
    /\ CondInit /\ StateInit
    /\ \/ object \in {"condition", "timed_mutex", "recursive_mutex",
                        "recursive_timed_mutex", "all", "future"} /\ All!Init
       \/ object = "all but one" /\ AllButOne!Init

MutexStays == UNCHANGED <<owner_, count_, wait_queue_, held, cond_queue_>>

SyncNext ==
    /\ UNCHANGED object
    /\ object # "future" => UNCHANGED stateVars
    /\ \/ object = "condition" /\ CondNext /\ UNCHANGED barrierVars
       \/ object = "timed_mutex" /\ OfMutex(Next) /\ UNCHANGED barrierVars
       \/ object = "recursive_mutex" /\ OfMutex(Recursively!Next) /\ UNCHANGED barrierVars
       \/ object = "recursive_timed_mutex" /\ OfMutex(RecursiveTimed!Next) /\ UNCHANGED barrierVars
       \/ object = "all" /\ All!Next /\ MutexStays
       \/ object = "future" /\ StateNext /\ UNCHANGED barrierVars
       \/ object = "all but one" /\ AllButOne!Next /\ MutexStays

\* What f does next once it is ready, or holds the mutex.
GoesOn(f) ==
    /\ UNCHANGED object
    /\ object # "future" => UNCHANGED stateVars
    /\ \/ /\ object = "condition" /\ UNCHANGED barrierVars
          /\ \/ OfMutex(TryLockReturns(f)) \/ OfMutex(LockReturns(f)) \/ OfMutex(Unlock(f))
             \/ WaitResumes(f)
       \/ object = "future" /\ Continues(f) /\ UNCHANGED barrierVars
       \/ object = "all" /\ (All!Return(f) \/ All!WaitAgain(f)) /\ MutexStays

\* Ready fibers run some day, and holders unlock some day.
SyncSpec == SyncInit /\ [][SyncNext]_syncVars /\ \A f \in Fibers : WF_syncVars(GoesOn(f))

--------------------------------------------------------------------------------

SyncTypeOK ==
    CASE object = "condition" -> CondTypeOK
      [] object = "future" -> StateTypeOK
      [] object = "all" -> All!TypeOK
      [] object = "all but one" -> AllButOne!TypeOK
      [] OTHER -> TypeOK

\* A recursive mutex passes on at the last unlock(), not sooner.
CountIsHeldUntimed == object \in {"condition", "recursive_mutex"} => CountIsHeld

\* A suspended fiber is linked where it can be found, and linked once: its one
\* hook is in the mutex or in the condition variable.
LinkedOnce ==
    /\ SyncTypeOK
    /\ object = "condition" => OneHookOneQueue /\ WaiterIsReachable
    /\ object \in {"timed_mutex", "recursive_mutex", "recursive_timed_mutex"} => WaitersAreQueued

\* A fiber inside wait() is to the mutex one that does not hold it: wait() uses
\* the mutex as any client does (safety of FiberMutex).
WaitUsesMutex ==
    AsSeenByMutex!Init /\ [][object = "condition" => AsSeenByMutex!Next]_(AsSeenByMutex!vars)

\* Every Initial-th call of a barrier's wait() completes a cycle; and with as many
\* fibers as the barrier needs, none sleeps through a cycle, although cycles are
\* told apart by one bit.
CyclesAreWhole ==
    /\ object = "all" => All!CycleNeedsAll /\ All!NobodyIsLeftBehind
    /\ object = "all but one" => AllButOne!CycleNeedsAll

\* The first result of a promise stands, whatever satisfies it again, and the state
\* outlives the calls of its promise and of its futures.
ResultIsKept == FirstResultStands /\ StateOutlivesCalls

\* Whoever waits for the mutex, was notified or is past its deadline returns,
\* with the mutex; whoever was notified leaves the barrier; and a future whose
\* promise was satisfied, or is gone, does not keep its callers.
WaitersReturn ==
    \A f \in Fibers :
        /\ object = "condition" /\ at[f] \in {"waits", "notified", "overdue"} ~> held[f] > 0
        /\ object = "all" /\ at[f] = "notified" ~> at[f] = "runs"
        /\ call[f] \in Reading /\ (ready_ \/ ~future_) ~> call[f] = "none"
================================================================================
