------------------------------ MODULE MessageFifo ------------------------------
(***************************************************************************)
(* What an inbox of a reactor promises, whatever it is built from: a       *)
(* sender hands over one message at a time and is kept waiting while the   *)
(* inbox is full; the inbox delivers every accepted message once, in the   *)
(* order in which it accepted them.                                        *)
(*                                                                         *)
(* MPSCQueue is shown to implement this specification.                     *)
(***************************************************************************)
EXTENDS Naturals, Sequences

CONSTANTS Producers, Msgs, NoMsg, Capacity

VARIABLES
    pending,    \* the message a sender is handing over, NoMsg when it is not sending
    queue,      \* accepted and not yet delivered
    delivered   \* the last message the consumer was given

fifoVars == <<pending, queue, delivered>>

FifoTypeOK ==
    /\ pending \in [Producers -> Msgs \cup {NoMsg}]
    /\ queue \in Seq(Msgs)
    /\ delivered \in Msgs \cup {NoMsg}

Init ==
    /\ pending = [p \in Producers |-> NoMsg]
    /\ queue = <<>>
    /\ delivered = NoMsg

Submit(p, m) ==
    /\ pending[p] = NoMsg
    /\ pending' = [pending EXCEPT ![p] = m]
    /\ UNCHANGED <<queue, delivered>>

Accept(p) ==
    /\ pending[p] # NoMsg
    /\ Len(queue) < Capacity
    /\ queue' = Append(queue, pending[p])
    /\ pending' = [pending EXCEPT ![p] = NoMsg]
    /\ UNCHANGED delivered

Deliver ==
    /\ queue # <<>>
    /\ delivered' = Head(queue)
    /\ queue' = Tail(queue)
    /\ UNCHANGED pending

Next ==
    \/ \E p \in Producers, m \in Msgs : Submit(p, m)
    \/ \E p \in Producers : Accept(p)
    \/ Deliver

\* An accepted message is delivered, and a sender facing a consumer that keeps
\* delivering is accepted.
Spec ==
    /\ Init /\ [][Next]_fifoVars
    /\ \A p \in Producers : SF_fifoVars(Accept(p))
    /\ WF_fifoVars(Deliver)
================================================================================
