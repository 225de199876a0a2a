------------------------------ MODULE ReadyFibers ------------------------------
(***************************************************************************)
(* What threads that share their ready fibers promise: a ready fiber waits *)
(* in one pool until one thread takes it; it runs on one thread at a time, *)
(* and is offered again only when it no longer runs.                       *)
(***************************************************************************)
CONSTANTS Threads, Fibers, NoFiber

VARIABLES run, ready, fresh     \* fresh: the fibers nobody has launched

pool == <<run, ready, fresh>>

Init ==
    /\ run = [t \in Threads |-> NoFiber]
    /\ ready \subseteq Fibers
    /\ fresh = Fibers \ ready

Launch(t, f) ==
    /\ f \in fresh
    /\ fresh' = fresh \ {f}
    /\ ready' = ready \cup {f}
    /\ UNCHANGED run

\* t stops running its fiber, which may want to go on, and takes another or none.
Switch(t, f) ==
    /\ f \in ready \cup {NoFiber}
    /\ run' = [run EXCEPT ![t] = f]
    /\ ready' \in {ready \ {f}, (ready \ {f}) \cup ({run[t]} \ {NoFiber})}
    /\ UNCHANGED fresh

Next == \E t \in Threads :
    \/ \E f \in Fibers : Launch(t, f)
    \/ \E f \in Fibers \cup {NoFiber} : Switch(t, f)

Spec == Init /\ [][Next]_pool

RunsOnce == \A t, u \in Threads : run[t] = run[u] /\ run[t] # NoFiber => t = u
================================================================================
