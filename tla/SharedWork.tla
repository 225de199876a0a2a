------------------------------- MODULE SharedWork -------------------------------
(***************************************************************************)
(* The shared_work algorithm: all threads make their fibers ready in one   *)
(* queue under one mutex, and take from it before their own pinned         *)
(* contexts.  The fibers do what they do in WorkStealing.                  *)
(***************************************************************************)
EXTENDS Naturals, Sequences, SequencesExt

CONSTANTS Threads, Fibers, NoFiber, MaxYields

VARIABLES
    run,        \* the fiber each thread runs, NoFiber: its dispatcher
    rqueue_,
    suspend_,   \* the threads that suspend; the default constructor leaves it unset
    pc,
    pushes,     \* the fiber the thread makes ready
    fresh, yields

vars == <<run, rqueue_, suspend_, pc, pushes, fresh, yields>>

TypeOK ==
    /\ run \in [Threads -> Fibers \cup {NoFiber}]
    /\ rqueue_ \in Seq(Fibers)
    /\ suspend_ \subseteq Threads
    /\ pc \in [Threads -> {"runs", "pick", "push", "suspended"}]
    /\ pushes \in [Threads -> Fibers \cup {NoFiber}]
    /\ fresh \subseteq Fibers /\ yields \in [Fibers -> 0 .. MaxYields]

Init ==
    /\ run = [t \in Threads |-> NoFiber]
    /\ \E f \in Fibers : rqueue_ = <<f>> /\ fresh = Fibers \ {f}
    /\ suspend_ \in SUBSET Threads
    /\ pc = [t \in Threads |-> "runs"]
    /\ pushes = [t \in Threads |-> NoFiber]
    /\ yields = [f \in Fibers |-> 0]

Goes(t, stage) == pc' = [pc EXCEPT ![t] = stage]

\* awakened() of a fiber that may change threads.
PushShared(t) ==
    /\ pc[t] = "push"
    /\ rqueue_' = Append(rqueue_, pushes[t])
    /\ pushes' = [pushes EXCEPT ![t] = NoFiber]
    /\ Goes(t, "runs")
    /\ UNCHANGED <<run, suspend_, fresh, yields>>

\* resume(); what was the thread's fiber is made ready by the next one.
Resumes(t, f) ==
    /\ run' = [run EXCEPT ![t] = f]
    /\ Goes(t, IF pushes[t] = NoFiber THEN "runs" ELSE "push")

\* pick_next(): the mutex spans the test and the removal.  Without a shared
\* fiber, the dispatcher is in lqueue_ whenever it is not the caller.
PickNext(t) ==
    /\ pc[t] = "pick"
    /\ \/ rqueue_ # <<>> /\ rqueue_' = Tail(rqueue_) /\ Resumes(t, Head(rqueue_))
       \/ rqueue_ = <<>> /\ run[t] # NoFiber /\ Resumes(t, NoFiber) /\ UNCHANGED rqueue_
       \/ /\ rqueue_ = <<>> /\ run[t] = NoFiber
          /\ Goes(t, IF t \in suspend_ THEN "suspended" ELSE "runs")
          /\ UNCHANGED <<run, rqueue_>>
    /\ UNCHANGED <<suspend_, pushes, fresh, yields>>

TurnOfDispatcher(t) ==
    /\ pc[t] = "runs" /\ run[t] = NoFiber
    /\ Goes(t, "pick")
    /\ UNCHANGED <<run, rqueue_, suspend_, pushes, fresh, yields>>

Yield(t) ==
    /\ pc[t] = "runs" /\ run[t] # NoFiber
    /\ yields[run[t]] < MaxYields
    /\ yields' = [yields EXCEPT ![run[t]] = @ + 1]
    /\ pushes' = [pushes EXCEPT ![t] = run[t]]
    /\ Goes(t, "pick")
    /\ UNCHANGED <<run, rqueue_, suspend_, fresh>>

End(t) ==
    /\ pc[t] = "runs" /\ run[t] # NoFiber
    /\ Goes(t, "pick")
    /\ UNCHANGED <<run, rqueue_, suspend_, pushes, fresh, yields>>

Launch(t, f) ==
    /\ pc[t] = "runs" /\ run[t] # NoFiber
    /\ f \in fresh
    /\ fresh' = fresh \ {f}
    /\ pushes' = [pushes EXCEPT ![t] = f]
    /\ Goes(t, "push")
    /\ UNCHANGED <<run, rqueue_, suspend_, yields>>

Step(t) ==
    \/ PushShared(t) \/ PickNext(t) \/ TurnOfDispatcher(t) \/ Yield(t) \/ End(t)
    \/ \E f \in Fibers : Launch(t, f)

Next == \E t \in Threads : Step(t)

Spec == Init /\ [][Next]_vars /\ \A t \in Threads : WF_vars(Step(t))

--------------------------------------------------------------------------------

Pushed(t) == {pushes[t]} \ {run[t], NoFiber}

\* What the pool of ReadyFibers offers.
Ready == ToSet(rqueue_) \cup UNION {Pushed(t) : t \in Threads}
NobodyIsReady == rqueue_ = <<>>
================================================================================
