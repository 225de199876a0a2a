------------------------------- MODULE Barrier --------------------------------
(***************************************************************************)
(* fibers::barrier: wait() blocks until `initial' fibers have called it,   *)
(* then lets all of them go and starts the next cycle.  The condition      *)
(* variable is a queue of fibers here (ConditionVariable models it); no    *)
(* fiber is ever suspended between lock and unlock of mtx_, so mtx_ is     *)
(* always free and wait() up to its suspension is one action.              *)
(***************************************************************************)
EXTENDS Integers, Sequences, FiniteSets, SequencesExt

CONSTANTS
    Fibers,     \* the fibers that call wait()
    Initial,    \* initial_, how many of them make up a cycle
    MaxCycles   \* bound: cycles completed

\* A module that uses this one assumes it.
BarrierAssumption ==
    /\ IsFiniteSet(Fibers) /\ Initial \in 1..Cardinality(Fibers)
    /\ MaxCycles \in Nat

VARIABLES
    current_,       \* fibers still missing in this cycle
    cycle_,         \* flips when a cycle is complete
    queue,          \* fibers linked into cond_
    at,             \* runs; blocked in cond_; notified: ready again
    cycle,          \* the local variable of each wait()
    calls,          \* calls of wait() so far
    completed,      \* cycles completed so far
    joined          \* the value of completed at each fiber's last call

vars == <<current_, cycle_, queue, at, cycle, calls, completed, joined>>

TypeOK ==
    /\ current_ \in 1..Initial
    /\ cycle_ \in BOOLEAN
    /\ queue \in Seq(Fibers)
    /\ at \in [Fibers -> {"runs", "blocked", "notified"}]
    /\ cycle \in [Fibers -> BOOLEAN]
    /\ calls \in Nat /\ completed \in 0..MaxCycles
    /\ joined \in [Fibers -> 0..MaxCycles]

Init ==
    /\ current_ = Initial
    /\ cycle_ = TRUE
    /\ queue = <<>>
    /\ at = [f \in Fibers |-> "runs"]
    /\ cycle = [f \in Fibers |-> TRUE]
    /\ calls = 0
    /\ completed = 0
    /\ joined = [f \in Fibers |-> 0]

\* mutant: the cycle is taken for complete one fiber early
IsLastButOne == current_ <= 2
IsLast == current_ - 1 = 0

\* A call that waits: the fiber links itself into cond_ and is suspended.
Arrive(f) ==
    /\ at[f] = "runs" /\ completed < MaxCycles
    /\ ~IsLast
    /\ calls' = calls + 1
    /\ current_' = current_ - 1
    /\ cycle' = [cycle EXCEPT ![f] = cycle_]
    /\ queue' = Append(queue, f)
    /\ at' = [at EXCEPT ![f] = "blocked"]
    /\ joined' = [joined EXCEPT ![f] = completed]
    /\ UNCHANGED <<cycle_, completed>>

Reset == Initial

NotifiesAll == ToSet(queue)

\* The call that completes the cycle: it notifies all and returns true.
ArriveLast(f) ==
    /\ at[f] = "runs" /\ completed < MaxCycles
    /\ IsLast
    /\ calls' = calls + 1
    /\ cycle_' = ~cycle_
    /\ current_' = Reset
    /\ at' = [g \in Fibers |-> IF g \in NotifiesAll THEN "notified" ELSE at[g]]
    /\ queue' = <<>>
    /\ completed' = completed + 1
    /\ joined' = [joined EXCEPT ![f] = completed]
    /\ UNCHANGED cycle

SeesNewCycle(f) == cycle[f] # cycle_

\* A notified fiber evaluates the predicate and returns, or waits again.
Return(f) ==
    /\ at[f] = "notified"
    /\ SeesNewCycle(f)
    /\ at' = [at EXCEPT ![f] = "runs"]
    /\ UNCHANGED <<current_, cycle_, queue, cycle, calls, completed, joined>>

WaitAgain(f) ==
    /\ at[f] = "notified"
    /\ ~SeesNewCycle(f)
    /\ at' = [at EXCEPT ![f] = "blocked"]
    /\ queue' = Append(queue, f)
    /\ UNCHANGED <<current_, cycle_, cycle, calls, completed, joined>>

Next ==
    \E f \in Fibers : Arrive(f) \/ ArriveLast(f) \/ Return(f) \/ WaitAgain(f)

\* A notified fiber runs some day.
Fairness == \A f \in Fibers : WF_vars(Return(f) \/ WaitAgain(f))

Spec == Init /\ [][Next]_vars /\ Fairness

-------------------------------------------------------------------------------

\* A cycle is complete at every Initial-th call of wait(), whichever fibers
\* make it and however many of them still have to leave earlier cycles.
CycleNeedsAll ==
    /\ completed = calls \div Initial
    /\ current_ = Initial - (calls % Initial)
    /\ cycle_ = (completed % 2 = 0)

\* When exactly Initial fibers use the barrier, a suspended one waits for the
\* present cycle: cycle_ is one bit, but no fiber can sleep through two flips.
NobodyIsLeftBehind ==
    \A f \in Fibers : at[f] = "blocked" => joined[f] = completed

===============================================================================
