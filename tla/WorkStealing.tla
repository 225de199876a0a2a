------------------------------ MODULE WorkStealing ------------------------------
(***************************************************************************)
(* The work_stealing algorithm with its context_spmc_queue: each thread    *)
(* keeps the fibers it made ready in a queue that the other threads steal  *)
(* from.  A thread runs a fiber or its dispatcher, which is pinned to the  *)
(* thread, as its main context is, and never in the queue.                 *)
(*                                                                         *)
(* A fiber that yields or ends calls pick_next(); after the switch to the  *)
(* picked context it is made ready by it.  The loads and stores of top_,   *)
(* bottom_ and the array are steps; their memory orders are those of Le,   *)
(* Pop, Cohen and Zappa Nardelli's queue, and interleaving is assumed.     *)
(* What the fibers do is abstracted to launching, yielding and ending.     *)
(***************************************************************************)
EXTENDS Naturals, FiniteSets

CONSTANTS
    Threads, Fibers, NoFiber,
    Size,           \* of the first array
    MaxYields       \* bound: how often one fiber yields

StealingAssumption ==
    /\ NoFiber \notin Fibers /\ Fibers # {}
    /\ Cardinality(Threads) > 1     \* alone, pick_next() would draw itself for ever
    /\ Size \in Nat \ {0} /\ MaxYields \in Nat

VARIABLES
    run,                    \* the fiber each thread runs, NoFiber: its dispatcher
    top_, bottom_, array_,  \* the queue of each thread
    suspend_,               \* the threads that suspend when they find nothing
    pc,
    victim,                 \* whose queue the thread pops from
    top, ctx,               \* locals of pop(): the index and the context read
    pushes,                 \* the fiber the thread makes ready
    fresh, yields

queues == <<top_, bottom_, array_>>
locals == <<victim, top, ctx>>
vars == <<run, queues, suspend_, pc, locals, pushes, fresh, yields>>

TypeOK ==
    /\ run \in [Threads -> Fibers \cup {NoFiber}]
    /\ top_ \in [Threads -> Nat] /\ bottom_ \in [Threads -> Nat]
    /\ \A t \in Threads : array_[t] \in [0 .. Cardinality(DOMAIN array_[t]) - 1 -> Fibers \cup {NoFiber}]
    /\ suspend_ \subseteq Threads
    /\ pc \in [Threads -> {"runs", "top", "bottom", "read", "cas", "push", "publish", "suspended"}]
    /\ victim \in [Threads -> Threads] /\ top \in [Threads -> Nat]
    /\ ctx \in [Threads -> Fibers \cup {NoFiber}] /\ pushes \in [Threads -> Fibers \cup {NoFiber}]
    /\ fresh \subseteq Fibers /\ yields \in [Fibers -> 0 .. MaxYields]

\* The thread and the fiber that start.
FirstThread == CHOOSE t \in Threads : TRUE
First == CHOOSE f \in Fibers : TRUE

\* Every thread's dispatcher starts its loop; a first fiber is ready on one.
Init ==
    /\ run = [t \in Threads |-> NoFiber]
    /\ bottom_ = [t \in Threads |-> IF t = FirstThread THEN 1 ELSE 0]
    /\ array_ = [t \in Threads |-> [i \in 0 .. Size - 1 |->
                    IF t = FirstThread /\ i = 0 THEN First ELSE NoFiber]]
    /\ fresh = Fibers \ {First}
    /\ top_ = [t \in Threads |-> 0]
    /\ suspend_ \in {{}, Threads}
    /\ pc = [t \in Threads |-> "runs"]
    /\ victim = [t \in Threads |-> t] /\ top = [t \in Threads |-> 0]
    /\ ctx = [t \in Threads |-> NoFiber] /\ pushes = [t \in Threads |-> NoFiber]
    /\ yields = [f \in Fibers |-> 0]

Goes(t, stage) == pc' = [pc EXCEPT ![t] = stage]
Holds(array, i) == array[i % Cardinality(DOMAIN array)]

--------------------------------------------------------------------------------
(* context_spmc_queue *)

\* push(), the owner's: a full array is replaced by one of twice the size.
ArrayAfterPush(t) ==
    LET size == Cardinality(DOMAIN array_[t])
        room == IF size - 1 < bottom_[t] - top_[t] THEN 2 * size ELSE size
        kept == [i \in 0 .. room - 1 |->
                   IF \E j \in top_[t] .. bottom_[t] - 1 : j % room = i
                     THEN Holds(array_[t], CHOOSE j \in top_[t] .. bottom_[t] - 1 : j % room = i)
                     ELSE IF room = size THEN array_[t][i] ELSE NoFiber]
    IN  [kept EXCEPT ![bottom_[t] % room] = pushes[t]]

Push(t) ==
    /\ pc[t] = "push"
    /\ array_' = [array_ EXCEPT ![t] = ArrayAfterPush(t)]
    /\ Goes(t, "publish")
    /\ UNCHANGED <<run, top_, bottom_, suspend_, locals, pushes, fresh, yields>>

PublishBottom(t) ==
    /\ pc[t] = "publish"
    /\ bottom_' = [bottom_ EXCEPT ![t] = @ + 1]
    /\ pushes' = [pushes EXCEPT ![t] = NoFiber]
    /\ Goes(t, "runs")
    /\ UNCHANGED <<run, top_, array_, suspend_, locals, fresh, yields>>

LoadTop(t) ==
    /\ pc[t] = "top"
    /\ top' = [top EXCEPT ![t] = top_[victim[t]]]
    /\ Goes(t, "bottom")
    /\ UNCHANGED <<run, queues, suspend_, victim, ctx, pushes, fresh, yields>>

--------------------------------------------------------------------------------
(* work_stealing *)

\* What t pushes once it has switched away from its fiber.
MakesReady(t) == IF pushes[t] = NoFiber THEN "runs" ELSE "push"

\* resume(): f runs, or the dispatcher.
Resumes(t, f) ==
    /\ run' = [run EXCEPT ![t] = f]
    /\ Goes(t, MakesReady(t))
    /\ victim' = [victim EXCEPT ![t] = t]
    /\ top' = [top EXCEPT ![t] = 0] /\ ctx' = [ctx EXCEPT ![t] = NoFiber]
    /\ UNCHANGED <<bottom_, array_, suspend_, pushes, fresh, yields>>

\* Nothing popped.  The dispatcher waits in lqueue_ whenever a fiber runs; the
\* dispatcher itself goes on to steal, once, from any other thread.
PopFails(t) ==
    \/ /\ victim[t] = t /\ run[t] # NoFiber
       /\ Resumes(t, NoFiber) /\ UNCHANGED top_
    \/ /\ victim[t] = t /\ run[t] = NoFiber
       /\ \E u \in Threads \ {t} : victim' = [victim EXCEPT ![t] = u]
       /\ Goes(t, "top")
       /\ top' = [top EXCEPT ![t] = 0] /\ ctx' = [ctx EXCEPT ![t] = NoFiber]
       /\ UNCHANGED <<run, queues, suspend_, pushes, fresh, yields>>
    \/ /\ victim[t] # t
       /\ Goes(t, IF t \in suspend_ THEN "suspended" ELSE "runs")
       /\ victim' = [victim EXCEPT ![t] = t]
       /\ top' = [top EXCEPT ![t] = 0] /\ ctx' = [ctx EXCEPT ![t] = NoFiber]
       /\ UNCHANGED <<run, queues, suspend_, pushes, fresh, yields>>

NearlyEmpty(t) == top[t] + 1 >= bottom_[victim[t]]      \* mutant
IsEmpty(t) == top[t] >= bottom_[victim[t]]
LoadBottom(t) ==
    /\ pc[t] = "bottom"
    /\ \/ IsEmpty(t) /\ PopFails(t)
       \/ /\ ~ IsEmpty(t)
          /\ Goes(t, "read")
          /\ UNCHANGED <<run, queues, suspend_, locals, pushes, fresh, yields>>

ReadSlot(t) ==
    /\ pc[t] = "read"
    /\ ctx' = [ctx EXCEPT ![t] = Holds(array_[victim[t]], top[t])]
    /\ Goes(t, "cas")
    /\ UNCHANGED <<run, queues, suspend_, victim, top, pushes, fresh, yields>>

\* The compare-and-exchange, attach() and resume().  Before it pop() asks the context
\* it has read whether it is pinned, which none in a queue is.  Another thread may have
\* taken that context since, and it may have ended: pop() then reads an object that is
\* gone.  That top_ has moved makes it fail whatever it reads, and a fault is left out.
Unraced(t) == TRUE                  \* mutant
TopIsUnchanged(t) == top_[victim[t]] = top[t]
Cas(t) ==
    /\ pc[t] = "cas"
    /\ \/ ~ TopIsUnchanged(t) /\ PopFails(t)
       \/ /\ TopIsUnchanged(t)
          /\ top_' = [top_ EXCEPT ![victim[t]] = top[t] + 1]
          /\ Resumes(t, ctx[t])

PicksNext(t) == Goes(t, "top") /\ UNCHANGED <<run, queues, suspend_, locals>>

\* A turn of the dispatcher's loop.
Dispatch(t) ==
    /\ pc[t] = "runs" /\ run[t] = NoFiber
    /\ PicksNext(t)
    /\ UNCHANGED <<pushes, fresh, yields>>

Yield(t) ==
    /\ pc[t] = "runs" /\ run[t] # NoFiber
    /\ yields[run[t]] < MaxYields
    /\ yields' = [yields EXCEPT ![run[t]] = @ + 1]
    /\ pushes' = [pushes EXCEPT ![t] = run[t]]
    /\ PicksNext(t)
    /\ UNCHANGED fresh

End(t) ==
    /\ pc[t] = "runs" /\ run[t] # NoFiber
    /\ PicksNext(t)
    /\ UNCHANGED <<pushes, fresh, yields>>

\* launch::post: awakened() of a new fiber.
Launch(t, f) ==
    /\ pc[t] = "runs" /\ run[t] # NoFiber
    /\ f \in fresh
    /\ fresh' = fresh \ {f}
    /\ pushes' = [pushes EXCEPT ![t] = f]
    /\ Goes(t, "push")
    /\ UNCHANGED <<run, queues, suspend_, locals, yields>>

Step(t) ==
    \/ Push(t) \/ PublishBottom(t) \/ LoadTop(t) \/ LoadBottom(t) \/ ReadSlot(t) \/ Cas(t)
    \/ Dispatch(t) \/ Yield(t) \/ End(t) \/ \E f \in Fibers : Launch(t, f)

Next == \E t \in Threads : Step(t)

\* A suspended thread waits for notify(), which only its own dispatcher calls.
Spec == Init /\ [][Next]_vars /\ \A t \in Threads : WF_vars(Step(t))

--------------------------------------------------------------------------------

Queued(t) == {Holds(array_[t], i) : i \in top_[t] .. bottom_[t] - 1}

\* The fiber t is about to push: until the switch it still runs.
Pushed(t) == {pushes[t]} \ {run[t], NoFiber}

\* To the pool of ReadyFibers a fiber is ready in whichever queue it is.
Ready == UNION {Queued(t) \cup Pushed(t) : t \in Threads}
NobodyIsReady == \A t \in Threads : Queued(t) = {}
================================================================================
