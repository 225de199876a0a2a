------------------------------- MODULE MPSCQueue -------------------------------
(***************************************************************************)
(* The inbox of a reactor: reactor::MPSCQueue over the disruptor's         *)
(* Sequencer, MultiThreadedStrategy, RingBuffer and BatchEventProcessor.   *)
(*                                                                         *)
(* Any number of producer threads call send(), one at a time each; one     *)
(* consumer thread calls get(n, fn) or get_all(fn); get(T&), which nothing *)
(* calls, is left out.  Every atomic load, store or fetch_add of the code  *)
(* is a step of its own.  The counters are loaded with acquire and written *)
(* with release, and the slots are only touched between such a load and    *)
(* the following write, so interleaving single steps loses no outcome as   *)
(* long as no slot is raced for, which is the invariant NoSlotRace.        *)
(*                                                                         *)
(* MaxSequence bounds the number of messages ever claimed.                 *)
(***************************************************************************)
EXTENDS Integers, FiniteSets

CONSTANTS
    Producers,     \* threads that send
    Msgs,          \* message pointers
    NoMsg,         \* what a slot holds before its first store
    N,             \* BufferSize, slots in the ring
    MaxSequence    \* bound: no sequence above it is claimed

ASSUME QueueAssumption ==
    /\ NoMsg \notin Msgs
    /\ N \in Nat \ {0}
    /\ MaxSequence \in Nat

InitialCursorValue == -1
NotReadySignal == -4

VARIABLES
    claimed,    \* last_claimed_sequence_ of the claim strategy
    cursor,     \* cursor_ of the sequencer: the last published sequence
    consumed,   \* sequence_ of the event processor, which gates the producers
    next,       \* next_sequence_, private to the consumer
    available,  \* avalaible_sequence_, private to the consumer
    events,     \* the slots of the ring buffer
    pc,         \* where each producer is in send()
    seq,        \* the sequence send() claimed
    value,      \* the argument of send()
    cpc,        \* where the consumer is: "poll" or "deliver"
    want,       \* messages this get() hands to fn
    taken,      \* messages it has handed over so far
    delivered   \* the last message fn was given

producerVars == <<claimed, cursor, events, pc, seq, value>>
consumerVars == <<consumed, next, available, cpc, want, taken, delivered>>
vars == <<claimed, cursor, consumed, next, available, events,
          pc, seq, value, cpc, want, taken, delivered>>

ProducerStages == {"idle", "gate", "write", "sync", "advance"}

TypeOK ==
    /\ claimed \in Int /\ cursor \in Int /\ consumed \in Int
    /\ next \in Int /\ available \in Int
    /\ events \in [0 .. N - 1 -> Msgs \cup {NoMsg}]
    /\ pc \in [Producers -> ProducerStages]
    /\ seq \in [Producers -> Int]
    /\ value \in [Producers -> Msgs \cup {NoMsg}]
    /\ cpc \in {"poll", "deliver"}
    /\ want \in Nat /\ taken \in Nat
    /\ delivered \in Msgs \cup {NoMsg}

\* sequence & (N - 1), N being a power of two
Slot(s) == s % N

IsBatch == next <= available

Init ==
    /\ claimed = InitialCursorValue
    /\ cursor = InitialCursorValue
    /\ consumed = InitialCursorValue
    /\ next = 0
    /\ available = InitialCursorValue
    /\ events = [i \in 0 .. N - 1 |-> NoMsg]
    /\ pc = [p \in Producers |-> "idle"]
    /\ seq = [p \in Producers |-> InitialCursorValue]
    /\ value = [p \in Producers |-> NoMsg]
    /\ cpc = "poll"
    /\ want = 0
    /\ taken = 0
    /\ delivered = NoMsg

--------------------------------------------------------------------------------
(* send() *)

\* The fetch_add of IncrementAndGet.
Claim(p, m) ==
    /\ pc[p] = "idle"
    /\ claimed < MaxSequence
    /\ claimed' = claimed + 1
    /\ seq' = [seq EXCEPT ![p] = claimed + 1]
    /\ value' = [value EXCEPT ![p] = m]
    /\ pc' = [pc EXCEPT ![p] = "gate"]
    /\ UNCHANGED <<cursor, events>> /\ UNCHANGED consumerVars

\* The sequence that had the claimed slot one turn earlier.
LateWrapPoint(s) == s - N - 1       \* mutant
WrapPoint(s) == s - N

\* The spin of IncrementAndGet: until the slot's previous event is consumed.
\* last_consumer_sequence_ is never stored on this path and stays initial.
Gate(p) ==
    /\ pc[p] = "gate"
    /\ InitialCursorValue >= WrapPoint(seq[p]) \/ consumed >= WrapPoint(seq[p])
    /\ pc' = [pc EXCEPT ![p] = "write"]
    /\ UNCHANGED <<claimed, cursor, events, seq, value>> /\ UNCHANGED consumerVars

Write(p) ==
    /\ pc[p] = "write"
    /\ events' = [events EXCEPT ![Slot(seq[p])] = value[p]]
    /\ pc' = [pc EXCEPT ![p] = "sync"]
    /\ UNCHANGED <<claimed, cursor, seq, value>> /\ UNCHANGED consumerVars

NoWait(p) == TRUE                   \* mutant
EarlierArePublished(p) == cursor >= seq[p] - 1

\* The spin of SynchronizePublishing: until every earlier claim is published.
SynchronizePublishing(p) ==
    /\ pc[p] = "sync"
    /\ EarlierArePublished(p)
    /\ pc' = [pc EXCEPT ![p] = "advance"]
    /\ UNCHANGED <<claimed, cursor, events, seq, value>> /\ UNCHANGED consumerVars

\* The fetch_add of Publish, after which send() returns.
Advance(p) ==
    /\ pc[p] = "advance"
    /\ cursor' = cursor + 1
    /\ pc' = [pc EXCEPT ![p] = "idle"]
    /\ value' = [value EXCEPT ![p] = NoMsg]
    /\ UNCHANGED <<claimed, events, seq>> /\ UNCHANGED consumerVars

--------------------------------------------------------------------------------
(* get(requested, fn), and get_all(fn) when requested >= N *)

\* DontWaitStrategy without dependents: the cursor, or NotReadySignal.
WaitFor(s) == IF cursor >= s THEN cursor ELSE NotReadySignal

BeginBatch ==
    /\ ~ IsBatch
    /\ next' = consumed + 1
    /\ available' = WaitFor(consumed + 1)

ContinueBatch ==
    /\ IsBatch
    /\ UNCHANGED <<next, available>>

HasEvents == available' - next' + 1

HasSome == HasEvents > 0

GetNothing ==
    /\ cpc = "poll"
    /\ BeginBatch
    /\ ~ HasSome
    /\ UNCHANGED <<consumed, cpc, want, taken, delivered>> /\ UNCHANGED producerVars

Get(requested) ==
    /\ cpc = "poll"
    /\ BeginBatch \/ ContinueBatch
    /\ HasSome
    /\ want' = IF requested < HasEvents THEN requested ELSE HasEvents
    /\ taken' = 0
    /\ cpc' = "deliver"
    /\ UNCHANGED <<consumed, delivered>> /\ UNCHANGED producerVars

\* fn(get_event(c))
Deliver ==
    /\ cpc = "deliver"
    /\ taken < want
    /\ delivered' = events[Slot(next + taken)]
    /\ taken' = taken + 1
    /\ UNCHANGED <<consumed, next, available, cpc, want>> /\ UNCHANGED producerVars

\* What finish_batch stores.
FinishedTooFar(n) == n              \* mutant
FinishedNever(n) == consumed        \* mutant
Finished(n) == n - 1

\* commit: the producers see the slots freed when the whole batch is used up.
Commit ==
    /\ cpc = "deliver"
    /\ taken = want
    /\ next' = next + want
    /\ consumed' = IF next + want <= available THEN consumed ELSE Finished(next + want)
    /\ cpc' = "poll"
    /\ want' = 0
    /\ taken' = 0
    /\ UNCHANGED <<available, delivered>> /\ UNCHANGED producerVars

--------------------------------------------------------------------------------
Progress(p) == Gate(p) \/ Write(p) \/ SynchronizePublishing(p) \/ Advance(p)

Send(p) == Progress(p) \/ \E m \in Msgs : Claim(p, m)

Consumer ==
    \/ GetNothing
    \/ \E requested \in 1 .. N : Get(requested)
    \/ Deliver
    \/ Commit

Next == Consumer \/ \E p \in Producers : Send(p)

\* A thread inside send() is scheduled, and the event loop keeps polling.
Spec ==
    /\ Init /\ [][Next]_vars
    /\ \A p \in Producers : WF_vars(Progress(p))
    /\ WF_vars(Consumer)

--------------------------------------------------------------------------------
(* Properties *)

Active == {p \in Producers : pc[p] # "idle"}

\* The slot a producer is about to store into is one that no other producer is
\* storing or has stored an unpublished message into, and that the consumer has
\* finished reading: the race the gate of IncrementAndGet exists to prevent.
NoSlotRace ==
    \A p \in Producers : pc[p] = "write" =>
        /\ \A q \in Producers \ {p} :
               pc[q] \in {"write", "sync", "advance"} => Slot(seq[p]) # Slot(seq[q])
        /\ \A s \in consumed + 1 .. cursor : Slot(seq[p]) # Slot(s)

\* Every sequence between the cursor and the last claim belongs to exactly one
\* producer still inside send(): none is lost, published twice or published
\* before the producer that claimed it has stored its message.
ClaimsAccountedFor ==
    /\ {seq[p] : p \in Active} = cursor + 1 .. claimed
    /\ \A p, q \in Active : seq[p] = seq[q] => p = q

\* The publisher never laps the consumer: at most N published messages wait.
BoundedLag == cursor - consumed <= N

\* What the consumer was told is available stays readable while it reads it: the
\* batch lies between what it has consumed and what is published.
BatchIsPublished ==
    cpc = "deliver" =>
        /\ consumed < next
        /\ next + want - 1 <= cursor
        /\ \A s \in next .. next + want - 1 : events[Slot(s)] \in Msgs

\* The queue of the abstract inbox is what is published and not yet delivered.
Fifo == INSTANCE MessageFifo WITH
    Capacity <- N,
    pending <- value,
    queue <- [i \in 1 .. cursor - (next + taken) + 1 |-> events[Slot(next + taken + i - 1)]],
    delivered <- delivered

\* Producers and consumer together implement the FIFO inbox: no message lost,
\* duplicated or reordered, and every one of them delivered.
ImplementsFifo == Fifo!Spec

\* send() returns although the ring fills up: the consumer frees it again.
SendReturns == \A p \in Producers : pc[p] # "idle" ~> pc[p] = "idle"

--------------------------------------------------------------------------------
(* The inductive invariant behind the safety properties *)

Counters ==
    /\ InitialCursorValue <= consumed
    /\ consumed <= cursor
    /\ cursor <= claimed
    /\ BoundedLag

\* What a producer knows at each stage of send().
ProducerKnows ==
    \A p \in Producers :
        /\ pc[p] = "idle" <=> value[p] = NoMsg
        /\ pc[p] # "idle" => cursor < seq[p]
        /\ pc[p] \in {"write", "sync", "advance"} => seq[p] - N <= consumed
        /\ pc[p] \in {"sync", "advance"} => events[Slot(seq[p])] = value[p]
        /\ pc[p] = "advance" => seq[p] = cursor + 1

PublishedAreStored == \A s \in consumed + 1 .. cursor : events[Slot(s)] \in Msgs

ConsumerKnows ==
    /\ available <= cursor
    /\ consumed < next
    /\ ~ IsBatch => next = consumed + 1
    /\ taken <= want
    /\ cpc = "poll" => taken = 0 /\ want = 0
    /\ cpc = "deliver" => want > 0 /\ next + want - 1 <= available

Inv ==
    /\ TypeOK
    /\ Counters
    /\ ClaimsAccountedFor
    /\ ProducerKnows
    /\ PublishedAreStored
    /\ ConsumerKnows
================================================================================
