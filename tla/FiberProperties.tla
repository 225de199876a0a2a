---------------------------- MODULE FiberProperties -----------------------------
(***************************************************************************)
(* fiber_properties and algorithm_with_properties: an algorithm that       *)
(* orders ready fibers by a property of theirs is told when the property   *)
(* changes.  A fiber gets its properties when it is first made ready.  The *)
(* algorithm itself is the client's; here it keeps its ready queue sorted  *)
(* by one number.  set_algo() replaces it, at any time, by another one     *)
(* that uses properties as well.                                           *)
(*                                                                         *)
(* One thread; what fibers wait for is left open, and another fiber wakes  *)
(* them.  The dispatcher and the end of fibers are left out.               *)
(***************************************************************************)
EXTENDS Naturals, Sequences, FiniteSets, SequencesExt

CONSTANTS
    Fibers,
    Main,
    Priorities,
    MaxAlgos        \* bound: algorithms ever used

PropertiesAssumption ==
    /\ Main \in Fibers
    /\ Priorities \subseteq Nat /\ 0 \in Priorities
    /\ MaxAlgos \in Nat \ {0}

VARIABLES
    algo_,          \* the scheduler's algorithm, by number
    queues,         \* the ready queue of each
    active,         \* the fiber that runs
    launched,       \* the fibers that have begun
    properties_,    \* the properties of each fiber: 0 algorithms until it has some
    priority        \* the property

propertyVars == <<algo_, queues, active, launched, properties_, priority>>

Algos == 1..MaxAlgos
NoProperties == 0

PropertiesTypeOK ==
    /\ algo_ \in Algos
    /\ queues \in [Algos -> Seq(Fibers)]
    /\ active \in Fibers /\ launched \subseteq Fibers
    /\ properties_ \in [Fibers -> Algos \cup {NoProperties}]
    /\ priority \in [Fibers -> Priorities]

Init ==
    /\ algo_ = 1
    /\ queues = [a \in Algos |-> <<>>]
    /\ active = Main
    /\ launched = {Main}
    /\ properties_ = [f \in Fibers |-> NoProperties]
    /\ priority = [f \in Fibers |-> 0]

IsLinked(f) == \E a \in Algos : f \in ToSet(queues[a])

\* The client's queue: highest priority first, equal ones in their order.
Inserted(queue, f, prio) ==
    InsertAt(queue, 1 + Cardinality({i \in DOMAIN queue : prio[queue[i]] >= prio[f]}), f)

\* ready_unlink().
Without(queue, f) ==
    IF f \in ToSet(queue) THEN RemoveAt(queue, CHOOSE i \in DOMAIN queue : queue[i] = f) ELSE queue

Ready == queues[algo_]

\* mutant: only new properties are told their algorithm
SetOnce(f, a) == IF properties_[f] = NoProperties THEN a ELSE properties_[f]
SetAlgorithm(f, a) == a

\* awakened(), the ready queue being queue: f gets properties unless it has some.
Awakened(f, queue) ==
    /\ queues' = [queues EXCEPT ![algo_] = Inserted(queue, f, priority)]
    /\ properties_' = [properties_ EXCEPT ![f] = SetAlgorithm(f, algo_)]

LaunchPost(f) ==
    /\ f \notin launched
    /\ launched' = launched \cup {f}
    /\ Awakened(f, Ready)
    /\ UNCHANGED <<algo_, active, priority>>

\* The new fiber runs at once, without having been ready.
LaunchDispatch(f) ==
    /\ f \notin launched
    /\ launched' = launched \cup {f}
    /\ active' = f
    /\ Awakened(active, Ready)
    /\ UNCHANGED <<algo_, priority>>

\* The active fiber is made ready when the next one has been picked; if there is
\* none, the dispatcher resumes it.  this_fiber::properties() yields if the fiber
\* has no properties.
Yield ==
    /\ \/ Ready # <<>> /\ active' = Head(Ready) /\ Awakened(active, Tail(Ready))
       \/ /\ Ready = <<>> /\ UNCHANGED <<active, queues>>
          /\ properties_' = [properties_ EXCEPT ![active] = SetAlgorithm(active, algo_)]
    /\ UNCHANGED <<algo_, launched, priority>>

Suspend ==
    /\ Ready # <<>>
    /\ active' = Head(Ready)
    /\ queues' = [queues EXCEPT ![algo_] = Tail(Ready)]
    /\ UNCHANGED <<algo_, launched, properties_, priority>>

WakeUp(f) ==
    /\ f \in launched \ {active} /\ ~IsLinked(f)
    /\ Awakened(f, Ready)
    /\ UNCHANGED <<algo_, active, launched, priority>>

\* properties() of a fiber object or of this_fiber, a setter, notify(): the
\* algorithm that the fiber was told of unlinks it and sorts it in again.
SetProperty(f, p) ==
    LET a == properties_[f]
        prio == [priority EXCEPT ![f] = p] IN
        /\ a # NoProperties
        /\ priority' = prio
        /\ queues' = IF IsLinked(f)
                       THEN [b \in Algos |->
                               LET rest == Without(queues[b], f) IN
                               IF b = a THEN Inserted(rest, f, prio) ELSE rest]
                       ELSE queues
        /\ UNCHANGED <<algo_, active, launched, properties_>>

\* A new algorithm's queue after it was passed the fibers of queue, one by one.
Moved(queue, prio) ==
    LET moved[n \in 0..Len(queue)] ==
            IF n = 0 THEN <<>> ELSE Inserted(moved[n - 1], queue[n], prio)
    IN  moved[Len(queue)]

\* set_algo() passes the ready fibers to the new algorithm and destroys the old.
SetAlgo ==
    /\ algo_ < MaxAlgos
    /\ algo_' = algo_ + 1
    /\ queues' = [queues EXCEPT
          ![algo_] = <<>>,
          ![algo_ + 1] = Moved(Ready, priority)]
    /\ properties_' = [f \in Fibers |->
          IF IsLinked(f) THEN SetAlgorithm(f, algo_ + 1) ELSE properties_[f]]
    /\ UNCHANGED <<active, launched, priority>>

PropertiesNext ==
    \/ Yield \/ Suspend \/ SetAlgo
    \/ \E f \in Fibers :
          \/ LaunchPost(f) \/ LaunchDispatch(f) \/ WakeUp(f)
          \/ \E p \in Priorities : SetProperty(f, p)

PropertiesSpec == Init /\ [][PropertiesNext]_propertyVars

---------------------------------------------------------------------------------

\* Whenever a fiber's property changes, be it ready, running or waiting, and
\* although the algorithm may have been replaced since the fiber was last made
\* ready, the ready queue stays in order; and notify() calls no algorithm that is
\* gone.
ReadyQueueIsSorted ==
    /\ PropertiesTypeOK
    /\ \A i, j \in DOMAIN Ready : i < j => priority[Ready[i]] >= priority[Ready[j]]
    /\ IsInjective(Ready) /\ active \notin ToSet(Ready)
    /\ \A f \in Fibers : IsLinked(f) => f \in ToSet(Ready) /\ properties_[f] = algo_
=================================================================================
