-------------------------------- MODULE Channel --------------------------------
(***************************************************************************)
(* What a buffering channel of the fiber library promises, whatever it is  *)
(* built from: at most Capacity values are on the way, pop() gets them in  *)
(* the order in which push() accepted them, and what was accepted can      *)
(* still be popped when the channel has been closed.                       *)
(*                                                                         *)
(* BufferedChannel and QueueChannel are shown to implement it.             *)
(***************************************************************************)
EXTENDS Naturals, Sequences

CONSTANTS
    Values, NoValue,
    Capacity,
    AcceptsLate     \* TRUE for a channel that may accept a value after it is closed

VARIABLES
    buffer,         \* accepted and not popped
    closed,
    popped          \* what the last pop() got

channelVars == <<buffer, closed, popped>>

Init ==
    /\ buffer = <<>>
    /\ closed = FALSE
    /\ popped = NoValue

Accept(v) ==
    /\ ~closed \/ AcceptsLate
    /\ Len(buffer) < Capacity
    /\ buffer' = Append(buffer, v)
    /\ UNCHANGED <<closed, popped>>

Deliver ==
    /\ buffer # <<>>
    /\ popped' = Head(buffer)
    /\ buffer' = Tail(buffer)
    /\ UNCHANGED closed

Close ==
    /\ closed' = TRUE
    /\ UNCHANGED <<buffer, popped>>

Next == (\E v \in Values : Accept(v)) \/ Deliver \/ Close

Spec == Init /\ [][Next]_channelVars
================================================================================
