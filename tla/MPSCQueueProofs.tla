---------------------------- MODULE MPSCQueueProofs ----------------------------
(***************************************************************************)
(* Safety of the inbox for any set of producers, any ring size and any     *)
(* number of messages, by the inductive invariant Inv of MPSCQueue.        *)
(***************************************************************************)
EXTENDS MPSCQueue, SequenceTheorems, TLAPS

LEMMA Turns ==
    ASSUME NEW a \in Int
    PROVE  /\ a \div N \in Int
           /\ Slot(a) \in 0 .. N - 1
           /\ a = N * (a \div N) + Slot(a)
BY QueueAssumption, SMTT(30) DEF Slot

LEMMA AtLeastOneTurn ==
    ASSUME NEW k \in Int, k > 0
    PROVE  N * k >= N
BY QueueAssumption, SMTT(30)

\* The only place where the ring's size matters: two sequences that share a slot
\* are a whole turn of the ring apart.
LEMMA SameSlotFar ==
    ASSUME NEW a \in Int, NEW b \in Int, a < b, Slot(a) = Slot(b)
    PROVE  b - a >= N
<1> DEFINE q == a \div N
           r == b \div N
<1>1. q \in Int /\ r \in Int /\ a = N * q + Slot(a) /\ b = N * r + Slot(b) /\ Slot(a) \in Int
  BY Turns
<1> HIDE DEF q, r
<1>2. b - a = N * (r - q)
  BY <1>1, QueueAssumption
<1>3. r - q > 0
  BY <1>1, <1>2, QueueAssumption, SMTT(30)
<1> QED BY <1>1, <1>2, <1>3, AtLeastOneTurn

LEMMA InitInv == Init => Inv
BY QueueAssumption
   DEF Init, Inv, TypeOK, Counters, BoundedLag, ClaimsAccountedFor, Active, ProducerKnows,
       PublishedAreStored, ConsumerKnows, IsBatch, InitialCursorValue, ProducerStages

LEMMA SlotIsIndex ==
    ASSUME NEW s \in Int
    PROVE  Slot(s) \in 0 .. N - 1
BY Turns

\* Whoever has passed the gate holds a slot of its own.
LEMMA OwnSlot ==
    ASSUME Inv, NEW p \in Producers, pc[p] \in {"write", "sync", "advance"}
    PROVE  /\ \A q \in Producers \ {p} :
                 pc[q] \in {"write", "sync", "advance"} => Slot(seq[p]) # Slot(seq[q])
           /\ \A s \in consumed + 1 .. cursor : Slot(seq[p]) # Slot(s)
<1> USE QueueAssumption DEF Inv, TypeOK, Counters, ProducerKnows
<1>1. ASSUME NEW q \in Producers \ {p}, pc[q] \in {"write", "sync", "advance"}
      PROVE  Slot(seq[p]) # Slot(seq[q])
  <2>1. seq[p] # seq[q]
    BY <1>1 DEF ClaimsAccountedFor, Active
  <2>2. /\ seq[p] \in Int /\ seq[q] \in Int
        /\ cursor < seq[p] /\ seq[p] - N <= consumed
        /\ cursor < seq[q] /\ seq[q] - N <= consumed
    BY <1>1
  <2>3. seq[p] - seq[q] < N /\ seq[q] - seq[p] < N
    BY <2>2
  <2>4. CASE seq[p] < seq[q]
    BY <2>2, <2>3, <2>4, SameSlotFar
  <2>5. CASE seq[q] < seq[p]
    BY <2>2, <2>3, <2>5, SameSlotFar
  <2> QED BY <2>1, <2>2, <2>4, <2>5
<1>2. ASSUME NEW s \in consumed + 1 .. cursor
      PROVE  Slot(seq[p]) # Slot(s)
  <2>1. s \in Int /\ seq[p] \in Int /\ s < seq[p] /\ seq[p] - s < N
    OBVIOUS
  <2> QED BY <2>1, SameSlotFar
<1> QED BY <1>1, <1>2

--------------------------------------------------------------------------------
(* send() preserves the invariant *)

LEMMA ClaimInv ==
    ASSUME Inv, NEW p \in Producers, NEW m \in Msgs, Claim(p, m)
    PROVE  Inv'
<1> USE QueueAssumption DEF Inv, Claim, consumerVars, InitialCursorValue
<1>1. TypeOK'
  BY DEF TypeOK, ProducerStages
<1>2. Counters'
  BY DEF Counters, BoundedLag, TypeOK
<1>3. ClaimsAccountedFor'
  <2>1. Active' = Active \cup {p} /\ p \notin Active
    BY DEF Active, TypeOK
  <2>2. seq'[p] = claimed + 1 /\ \A q \in Active : seq'[q] = seq[q]
    BY <2>1 DEF TypeOK, Active
  <2>3. {seq'[q] : q \in Active'} = {seq[q] : q \in Active} \cup {claimed + 1}
    BY <2>1, <2>2
  <2>4. (cursor + 1 .. claimed) \cup {claimed + 1} = cursor + 1 .. claimed + 1
    BY DEF Counters, TypeOK
  <2>5. ASSUME NEW q \in Active PROVE seq[q] # claimed + 1
    <3>1. seq[q] \in cursor + 1 .. claimed
      BY DEF ClaimsAccountedFor
    <3> QED BY <3>1 DEF TypeOK
  <2> QED BY <2>1, <2>2, <2>3, <2>4, <2>5 DEF ClaimsAccountedFor
<1>4. ProducerKnows'
  BY DEF ProducerKnows, TypeOK, Counters
<1>5. PublishedAreStored' /\ ConsumerKnows'
  BY DEF PublishedAreStored, ConsumerKnows, IsBatch
<1> QED BY <1>1, <1>2, <1>3, <1>4, <1>5

\* The steps between claiming and publishing leave the counters alone.
LEMMA InsideSend ==
    ASSUME Inv, NEW p \in Producers, pc[p] # "idle",
           UNCHANGED <<claimed, cursor, seq, value>>, UNCHANGED consumerVars,
           NEW stage \in {"write", "sync", "advance"},
           pc' = [pc EXCEPT ![p] = stage]
    PROVE  /\ Counters' /\ ClaimsAccountedFor' /\ ConsumerKnows'
           /\ pc' \in [Producers -> ProducerStages]
<1> USE DEF Inv, consumerVars
<1>1. Active' = Active
  BY DEF Active, TypeOK
<1>2. ClaimsAccountedFor'
  BY <1>1 DEF ClaimsAccountedFor
<1> QED BY <1>2 DEF Counters, BoundedLag, ConsumerKnows, IsBatch, TypeOK, ProducerStages

LEMMA GateInv ==
    ASSUME Inv, NEW p \in Producers, Gate(p)
    PROVE  Inv'
<1> USE QueueAssumption DEF Inv, Gate, WrapPoint, consumerVars
<1>1. Counters' /\ ClaimsAccountedFor' /\ ConsumerKnows' /\ pc' \in [Producers -> ProducerStages]
  BY InsideSend
<1>2. ProducerKnows'
  BY DEF ProducerKnows, TypeOK, Counters, InitialCursorValue
<1> QED BY <1>1, <1>2 DEF TypeOK, PublishedAreStored

LEMMA WriteInv ==
    ASSUME Inv, NEW p \in Producers, Write(p)
    PROVE  Inv'
<1> USE QueueAssumption DEF Inv, Write, consumerVars
<1>1. Counters' /\ ClaimsAccountedFor' /\ ConsumerKnows' /\ pc' \in [Producers -> ProducerStages]
  BY InsideSend
<1>2. /\ \A q \in Producers \ {p} :
             pc[q] \in {"write", "sync", "advance"} => Slot(seq[p]) # Slot(seq[q])
      /\ \A s \in consumed + 1 .. cursor : Slot(seq[p]) # Slot(s)
  BY OwnSlot
<1>3. seq[p] \in Int /\ Slot(seq[p]) \in 0 .. N - 1 /\ value[p] \in Msgs
  BY SlotIsIndex DEF TypeOK, ProducerKnows
<1>4. TypeOK'
  BY <1>1, <1>3 DEF TypeOK
<1>5. events'[Slot(seq[p])] = value[p] /\ \A i \in 0 .. N - 1 : i # Slot(seq[p]) => events'[i] = events[i]
  BY <1>3 DEF TypeOK
<1>6. ProducerKnows'
  <2>1. ASSUME NEW q \in Producers, q # p, pc[q] \in {"sync", "advance"}
        PROVE  events'[Slot(seq[q])] = value[q]
    BY <1>2, <1>5, <2>1, SlotIsIndex DEF TypeOK, ProducerKnows
  <2> QED BY <1>5, <2>1 DEF ProducerKnows, TypeOK
<1>7. PublishedAreStored'
  <2>1. ASSUME NEW s \in consumed + 1 .. cursor PROVE events'[Slot(s)] \in Msgs
    <3>1. s \in Int BY DEF TypeOK
    <3> QED BY <1>2, <1>5, <3>1, SlotIsIndex DEF PublishedAreStored
  <2> QED BY <2>1 DEF PublishedAreStored
<1> QED BY <1>1, <1>4, <1>6, <1>7

LEMMA SynchronizePublishingInv ==
    ASSUME Inv, NEW p \in Producers, SynchronizePublishing(p)
    PROVE  Inv'
<1> USE QueueAssumption DEF Inv, SynchronizePublishing, EarlierArePublished, consumerVars
<1>1. Counters' /\ ClaimsAccountedFor' /\ ConsumerKnows' /\ pc' \in [Producers -> ProducerStages]
  BY InsideSend
<1>2. ProducerKnows'
  BY SMTT(30) DEF ProducerKnows, TypeOK
<1> QED BY <1>1, <1>2 DEF TypeOK, PublishedAreStored

LEMMA AdvanceInv ==
    ASSUME Inv, NEW p \in Producers, Advance(p)
    PROVE  Inv'
<1> USE QueueAssumption DEF Inv, Advance, consumerVars
<1>1. /\ seq[p] = cursor + 1 /\ p \in Active /\ seq[p] - N <= consumed
      /\ events[Slot(seq[p])] = value[p] /\ value[p] \in Msgs
  BY DEF ProducerKnows, Active, TypeOK
<1>2. TypeOK'
  BY DEF TypeOK, ProducerStages
<1>3. seq[p] <= claimed
  BY <1>1 DEF ClaimsAccountedFor, TypeOK
<1>4. Counters'
  BY <1>1, <1>3 DEF Counters, BoundedLag, TypeOK
<1>5. ClaimsAccountedFor'
  <2>1. Active' = Active \ {p}
    BY DEF Active, TypeOK
  <2>2. {seq'[q] : q \in Active'} = {seq[q] : q \in Active} \ {cursor + 1}
    BY <1>1, <2>1 DEF ClaimsAccountedFor
  <2>3. cursor' + 1 .. claimed' = (cursor + 1 .. claimed) \ {cursor + 1}
    BY <1>3 DEF TypeOK, Counters
  <2> QED BY <2>1, <2>2, <2>3 DEF ClaimsAccountedFor
<1>6. ProducerKnows'
  <2>1. ASSUME NEW q \in Producers, q # p, pc[q] # "idle"
        PROVE  cursor + 1 < seq[q] /\ pc[q] # "advance"
    <3>1. q \in Active /\ seq[q] # cursor + 1
      BY <1>1, <2>1 DEF ClaimsAccountedFor, Active
    <3> QED BY <2>1, <3>1 DEF ProducerKnows, TypeOK
  <2> QED BY <2>1 DEF ProducerKnows, TypeOK
<1>7. PublishedAreStored'
  <2>1. consumed + 1 .. cursor' \subseteq (consumed + 1 .. cursor) \cup {seq[p]}
    BY <1>1 DEF TypeOK
  <2> QED BY <1>1, <2>1 DEF PublishedAreStored
<1>8. ConsumerKnows'
  BY DEF ConsumerKnows, IsBatch, TypeOK
<1> QED BY <1>2, <1>4, <1>5, <1>6, <1>7, <1>8

--------------------------------------------------------------------------------
(* get() preserves the invariant *)

\* The consumer's steps leave the producers alone and never move consumed back.
LEMMA ConsumerStep ==
    ASSUME Inv, UNCHANGED producerVars,
           NEW c \in Int, consumed' = c, consumed <= c, c <= cursor
    PROVE  Counters' /\ ClaimsAccountedFor' /\ ProducerKnows' /\ PublishedAreStored'
<1> USE QueueAssumption DEF Inv, producerVars
<1>1. Active' = Active
  BY DEF Active
<1>2. ClaimsAccountedFor'
  BY <1>1 DEF ClaimsAccountedFor
<1>3. Counters'
  BY DEF Counters, BoundedLag, TypeOK, InitialCursorValue
<1>4. ProducerKnows'
  BY DEF ProducerKnows, TypeOK
<1>5. PublishedAreStored'
  BY DEF PublishedAreStored, TypeOK
<1> QED BY <1>2, <1>3, <1>4, <1>5

\* What begin_batch or a batch in progress leaves the consumer with.
LEMMA BatchBounds ==
    ASSUME Inv, BeginBatch \/ ContinueBatch
    PROVE  \E n, a \in Int :
             /\ next' = n /\ available' = a
             /\ consumed < n /\ a <= cursor
             /\ n > a => n = consumed + 1
<1> USE DEF Inv, TypeOK, ConsumerKnows, Counters
<1>1. CASE ContinueBatch
  <2> WITNESS next \in Int, available \in Int
  <2> QED BY <1>1 DEF ContinueBatch, IsBatch
<1>2. CASE BeginBatch /\ cursor >= consumed + 1
  <2> WITNESS consumed + 1 \in Int, cursor \in Int
  <2> QED BY <1>2 DEF BeginBatch, WaitFor
<1>3. CASE BeginBatch /\ ~ (cursor >= consumed + 1)
  <2>1. NotReadySignal \in Int /\ NotReadySignal <= cursor
    BY DEF NotReadySignal, InitialCursorValue
  <2> USE <2>1
  <2> WITNESS consumed + 1 \in Int, NotReadySignal \in Int
  <2> QED BY <1>3, <2>1 DEF BeginBatch, WaitFor
<1> QED BY <1>1, <1>2, <1>3

LEMMA GetNothingInv ==
    ASSUME Inv, GetNothing
    PROVE  Inv'
<1> USE DEF GetNothing
<1>1. Counters' /\ ClaimsAccountedFor' /\ ProducerKnows' /\ PublishedAreStored'
  BY ConsumerStep DEF Inv, TypeOK, Counters
<1>2. PICK n, a \in Int :
        /\ next' = n /\ available' = a
        /\ consumed < n /\ a <= cursor
        /\ n > a => n = consumed + 1
  BY BatchBounds
<1>3. TypeOK' /\ ConsumerKnows'
  BY <1>2 DEF Inv, TypeOK, ConsumerKnows, IsBatch, producerVars
<1> QED BY <1>1, <1>3 DEF Inv

LEMMA GetInv ==
    ASSUME Inv, NEW requested \in 1 .. N, Get(requested)
    PROVE  Inv'
<1> USE QueueAssumption DEF Get, HasSome
<1>1. Counters' /\ ClaimsAccountedFor' /\ ProducerKnows' /\ PublishedAreStored'
  BY ConsumerStep DEF Inv, TypeOK, Counters
<1>2. PICK n, a \in Int :
        /\ next' = n /\ available' = a
        /\ consumed < n /\ a <= cursor
        /\ n > a => n = consumed + 1
  BY BatchBounds
<1>3. PICK w \in Nat : want' = w /\ w > 0 /\ n + w - 1 <= a
  <2>1. CASE requested < a - n + 1
    <3> WITNESS requested \in Nat
    <3> QED BY <1>2, <2>1 DEF HasEvents
  <2>2. CASE ~ (requested < a - n + 1)
    <3>1. a - n + 1 \in Nat /\ a - n + 1 > 0
      BY <1>2 DEF HasEvents
    <3> WITNESS a - n + 1 \in Nat
    <3> QED BY <1>2, <2>2, <3>1 DEF HasEvents
  <2> QED BY <2>1, <2>2
<1>4. TypeOK'
  BY <1>2, <1>3 DEF Inv, TypeOK, producerVars
<1>5. ConsumerKnows'
  BY <1>2, <1>3 DEF Inv, TypeOK, ConsumerKnows, IsBatch, producerVars
<1> QED BY <1>1, <1>4, <1>5 DEF Inv

LEMMA DeliverInv ==
    ASSUME Inv, Deliver
    PROVE  Inv'
<1> USE QueueAssumption DEF Deliver
<1>1. Counters' /\ ClaimsAccountedFor' /\ ProducerKnows' /\ PublishedAreStored'
  BY ConsumerStep DEF Inv, TypeOK, Counters
<1>2. next + taken \in Int
  BY DEF Inv, TypeOK
<1>3. TypeOK'
  BY <1>2, SlotIsIndex DEF Inv, TypeOK, producerVars
<1>4. ConsumerKnows'
  BY DEF Inv, TypeOK, ConsumerKnows, IsBatch, producerVars
<1> QED BY <1>1, <1>3, <1>4 DEF Inv

LEMMA CommitInv ==
    ASSUME Inv, Commit
    PROVE  Inv'
<1> USE DEF Commit, Finished
<1>1. PICK n, c \in Int :
        /\ next' = n /\ consumed' = c
        /\ consumed <= c /\ c <= cursor /\ c < n
        /\ n > available => n = c + 1
  <2> USE DEF Inv, TypeOK, ConsumerKnows, Counters
  <2>1. CASE next + want <= available
    <3> WITNESS next + want \in Int, consumed \in Int
    <3> QED BY <2>1
  <2>2. CASE ~ (next + want <= available)
    <3> WITNESS next + want \in Int, next + want - 1 \in Int
    <3> QED BY <2>2
  <2> QED BY <2>1, <2>2
<1>2. Counters' /\ ClaimsAccountedFor' /\ ProducerKnows' /\ PublishedAreStored'
  BY <1>1, ConsumerStep
<1>3. TypeOK' /\ ConsumerKnows'
  BY <1>1 DEF Inv, TypeOK, ConsumerKnows, IsBatch, producerVars
<1> QED BY <1>2, <1>3 DEF Inv

--------------------------------------------------------------------------------
LEMMA Unchanged == Inv /\ UNCHANGED vars => Inv'
BY DEF Inv, vars, TypeOK, Counters, BoundedLag, ClaimsAccountedFor, Active, ProducerKnows,
       PublishedAreStored, ConsumerKnows, IsBatch

\* Inv holds in every reachable state of the queue.
THEOREM Invariant == Spec => []Inv
<1>1. Inv /\ [Next]_vars => Inv'
  <2> SUFFICES ASSUME Inv, [Next]_vars PROVE Inv'
    OBVIOUS
  <2>1. ASSUME NEW p \in Producers, Send(p) PROVE Inv'
    BY <2>1, ClaimInv, GateInv, WriteInv, SynchronizePublishingInv, AdvanceInv
       DEF Send, Progress
  <2>2. CASE Consumer
    BY <2>2, GetNothingInv, GetInv, DeliverInv, CommitInv DEF Consumer
  <2>3. CASE UNCHANGED vars
    BY <2>3, Unchanged
  <2> QED BY <2>1, <2>2, <2>3 DEF Next
<1> QED BY InitInv, <1>1, PTL DEF Spec

\* Type correctness, for every instance.
THEOREM TypeCorrect == Spec => []TypeOK
<1>1. Inv => TypeOK
  BY DEF Inv
<1> QED BY <1>1, Invariant, PTL

\* No store into a slot races with another producer's store or with the consumer's
\* read of an unconsumed message (the purpose of the gate in IncrementAndGet).
THEOREM SlotsAreNotRacedFor == Spec => []NoSlotRace
<1>1. Inv => NoSlotRace
  BY OwnSlot DEF NoSlotRace
<1> QED BY <1>1, Invariant, PTL

\* Sequences between cursor and the last claim are held by one sender each.
THEOREM NoClaimIsLost == Spec => []ClaimsAccountedFor
<1>1. Inv => ClaimsAccountedFor
  BY DEF Inv
<1> QED BY <1>1, Invariant, PTL

\* Never more than N published messages wait for the consumer.
THEOREM LagIsBounded == Spec => []BoundedLag
<1>1. Inv => BoundedLag
  BY DEF Inv, Counters
<1> QED BY <1>1, Invariant, PTL

\* Whatever batch get() works on, its messages are published and still stored.
THEOREM BatchStaysPublished == Spec => []BatchIsPublished
<1>1. Inv => BatchIsPublished
  <2> SUFFICES ASSUME Inv, cpc = "deliver"
               PROVE  /\ consumed < next
                      /\ next + want - 1 <= cursor
                      /\ \A s \in next .. next + want - 1 : events[Slot(s)] \in Msgs
    BY DEF BatchIsPublished
  <2>1. consumed < next /\ next + want - 1 <= cursor
    BY DEF Inv, ConsumerKnows, TypeOK
  <2>2. next .. next + want - 1 \subseteq consumed + 1 .. cursor
    BY <2>1 DEF Inv, TypeOK
  <2> QED BY <2>1, <2>2 DEF Inv, PublishedAreStored
<1> QED BY <1>1, Invariant, PTL

--------------------------------------------------------------------------------
(***************************************************************************)
(* The inbox implements the FIFO inbox of MessageFifo, as far as safety    *)
(* goes: its initial states map to initial states, and every step to a     *)
(* step or a stutter.                                                      *)
(***************************************************************************)

\* Where the consumer is, and what is published and not yet delivered.
First == next + taken
Undelivered == cursor - First + 1
Queue == [i \in 1 .. Undelivered |-> events[Slot(First + i - 1)]]

LEMMA QueueBounds ==
    ASSUME Inv
    PROVE  /\ First \in Int /\ Undelivered \in Nat /\ cursor \in Int /\ consumed \in Int
           /\ consumed < First /\ First <= cursor + 1
           /\ \A i \in 1 .. Undelivered : First + i - 1 \in consumed + 1 .. cursor
<1>1. /\ next \in Int /\ taken \in Nat /\ want \in Nat /\ available \in Int
      /\ cursor \in Int /\ consumed \in Int /\ cpc \in {"poll", "deliver"}
  BY DEF Inv, TypeOK
<1>2. consumed < First /\ First <= cursor + 1
  BY <1>1 DEF Inv, ConsumerKnows, Counters, IsBatch, First
<1> QED BY <1>1, <1>2 DEF First, Undelivered

\* A function on 1 .. n is a sequence of n elements.
LEMMA FunctionIsSeq ==
    ASSUME NEW n \in Nat, NEW S, NEW q \in [1 .. n -> S]
    PROVE  q \in Seq(S) /\ Len(q) = n
<1>1. q \in Seq(S)
  BY SeqDef
<1>2. Len(q) \in Nat /\ 1 .. n = 1 .. Len(q)
  BY <1>1, LenProperties
<1> QED BY <1>1, <1>2

LEMMA QueueIsSeq ==
    ASSUME Inv
    PROVE  Queue \in Seq(Msgs) /\ Len(Queue) = Undelivered
<1>1. \A i \in 1 .. Undelivered : events[Slot(First + i - 1)] \in Msgs
  BY QueueBounds DEF Inv, PublishedAreStored
<1>2. Queue \in [1 .. Undelivered -> Msgs]
  BY <1>1 DEF Queue
<1> QED BY <1>2, QueueBounds, FunctionIsSeq

\* What a step leaves in place.
LEMMA QueueStays ==
    ASSUME Inv, First' = First, cursor' = cursor,
           \A s \in consumed + 1 .. cursor : events'[Slot(s)] = events[Slot(s)]
    PROVE  Queue' = Queue
<1>1. Undelivered' = Undelivered
  BY DEF Undelivered
<1>2. \A i \in 1 .. Undelivered : events'[Slot(First + i - 1)] = events[Slot(First + i - 1)]
  BY QueueBounds
<1> QED BY <1>1, <1>2 DEF Queue, Slot

LEMMA FifoInit == Init => Fifo!Init
<1> SUFFICES ASSUME Init PROVE Fifo!Init
  OBVIOUS
<1>1. Queue = <<>>
  BY DEF Init, Queue, Undelivered, First, InitialCursorValue
<1> QED BY <1>1 DEF Init, Fifo!Init, Queue, Undelivered, First

\* The steps of a sender: it submits with its claim, and is accepted when it
\* moves the cursor.
LEMMA ClaimSubmits ==
    ASSUME Inv, NEW p \in Producers, NEW m \in Msgs, Claim(p, m)
    PROVE  Fifo!Submit(p, m)
<1>1. value[p] = NoMsg
  BY DEF Claim, Inv, ProducerKnows
<1>2. Queue' = Queue
  BY QueueStays DEF Claim, consumerVars, First
<1> QED BY <1>1, <1>2 DEF Claim, consumerVars, Fifo!Submit, Queue, Undelivered, First

LEMMA WriteStutters ==
    ASSUME Inv, NEW p \in Producers, Write(p)
    PROVE  UNCHANGED Fifo!fifoVars
<1>1. ASSUME NEW s \in consumed + 1 .. cursor PROVE events'[Slot(s)] = events[Slot(s)]
  <2>1. Slot(seq[p]) # Slot(s)
    BY OwnSlot DEF Write
  <2> QED BY <2>1 DEF Write, Inv, TypeOK
<1>2. Queue' = Queue
  BY <1>1, QueueStays DEF Write, consumerVars, First
<1> QED BY <1>2 DEF Write, consumerVars, Fifo!fifoVars, Queue, Undelivered, First

LEMMA AdvanceAccepts ==
    ASSUME Inv, Inv', NEW p \in Producers, Advance(p)
    PROVE  Fifo!Accept(p)
<1>1. /\ value[p] \in Msgs /\ value[p] # NoMsg
      /\ seq[p] = cursor + 1 /\ seq[p] - N <= consumed /\ events[Slot(cursor + 1)] = value[p]
  BY QueueAssumption DEF Advance, Inv, TypeOK, ProducerKnows
<1>2. Len(Queue) < N
  BY <1>1, QueueAssumption, QueueBounds, QueueIsSeq DEF Undelivered
<1>3. /\ cursor' = cursor + 1 /\ First' = First /\ events' = events
      /\ Undelivered' = Undelivered + 1
  BY QueueBounds DEF Advance, consumerVars, First, Undelivered
<1>4. Queue' = Append(Queue, value[p])
  <2>1. Queue' \in Seq(Msgs) /\ Len(Queue') = Undelivered + 1
    <3>1. \A i \in 1 .. Undelivered' : events'[Slot(First' + i - 1)] \in Msgs
      <4>1. ASSUME NEW i \in 1 .. Undelivered + 1 PROVE events[Slot(First + i - 1)] \in Msgs
        <5>1. CASE i = Undelivered + 1
          BY <1>1, <5>1, QueueBounds DEF Undelivered
        <5>2. CASE i # Undelivered + 1
          BY <5>2, QueueBounds DEF Inv, PublishedAreStored
        <5> QED BY <5>1, <5>2
      <4> QED BY <1>3, <4>1 DEF Slot
    <3>2. Queue' \in [1 .. Undelivered + 1 -> Msgs]
      BY <1>3, <3>1 DEF Queue, Slot
    <3>3. Undelivered + 1 \in Nat
      BY QueueBounds
    <3> QED BY <3>2, <3>3, FunctionIsSeq
  <2>2. /\ Append(Queue, value[p]) \in Seq(Msgs)
        /\ Len(Append(Queue, value[p])) = Undelivered + 1
        /\ \A i \in 1 .. Undelivered : Append(Queue, value[p])[i] = Queue[i]
        /\ Append(Queue, value[p])[Undelivered + 1] = value[p]
    BY <1>1, QueueIsSeq, QueueBounds, AppendProperties
  <2>3. ASSUME NEW i \in 1 .. Undelivered + 1 PROVE Queue'[i] = Append(Queue, value[p])[i]
    <3>1. Queue'[i] = events[Slot(First + i - 1)]
      BY <1>3 DEF Queue, Slot
    <3>2. CASE i = Undelivered + 1
      BY <1>1, <2>2, <3>1, <3>2, QueueBounds DEF Undelivered
    <3>3. CASE i # Undelivered + 1
      <4>1. i \in 1 .. Undelivered
        BY <3>3, QueueBounds
      <4> QED BY <2>2, <3>1, <4>1 DEF Queue
    <3> QED BY <3>2, <3>3
  <2> QED BY <2>1, <2>2, <2>3, SeqEqual
<1> QED
  BY <1>1, <1>2, <1>4
  DEF Advance, consumerVars, Fifo!Accept, Queue, Undelivered, First

LEMMA SendSteps ==
    ASSUME Inv, Inv', NEW p \in Producers, Send(p)
    PROVE  Fifo!Next \/ UNCHANGED Fifo!fifoVars
<1>1. CASE Gate(p) \/ SynchronizePublishing(p)
  BY <1>1 DEF Gate, SynchronizePublishing, consumerVars, Fifo!fifoVars
<1>2. CASE Write(p)
  BY <1>2, WriteStutters
<1>3. CASE Advance(p)
  BY <1>3, AdvanceAccepts DEF Fifo!Next
<1>4. CASE \E m \in Msgs : Claim(p, m)
  BY <1>4, ClaimSubmits DEF Fifo!Next
<1> QED BY <1>1, <1>2, <1>3, <1>4 DEF Send, Progress

\* The steps of the consumer: only a call of fn takes something off the queue.
LEMMA DeliverDelivers ==
    ASSUME Inv, Inv', Deliver
    PROVE  Fifo!Deliver
<1>1. /\ next \in Int /\ taken \in Nat /\ want \in Nat /\ available \in Int /\ cursor \in Int
      /\ next + taken <= cursor
  BY DEF Inv, TypeOK, ConsumerKnows, Deliver
<1>2. /\ First' = First + 1 /\ cursor' = cursor /\ events' = events
      /\ Undelivered' = Undelivered - 1 /\ 1 <= Undelivered
  BY <1>1 DEF Deliver, First, Undelivered, producerVars
<1>3. Queue # <<>> /\ Queue \in Seq(Msgs) /\ Len(Queue) = Undelivered
  BY <1>2, QueueIsSeq, QueueBounds, EmptySeq
<1>4. delivered' = Head(Queue)
  <2>1. Head(Queue) = Queue[1]
    BY <1>3
  <2>2. Queue[1] = events[Slot(First)]
    BY <1>2, QueueBounds DEF Queue
  <2> QED BY <2>1, <2>2 DEF Deliver, First
<1>5. Queue' = Tail(Queue)
  <2>1. /\ Tail(Queue) \in Seq(Msgs) /\ Len(Tail(Queue)) = Undelivered - 1
        /\ \A i \in 1 .. Undelivered - 1 : Tail(Queue)[i] = Queue[i + 1]
    BY <1>3, HeadTailProperties
  <2>2. \A i \in 1 .. Undelivered - 1 : Queue[i + 1] = events[Slot(First + i)]
    BY QueueBounds DEF Queue
  <2>3. Queue' = [i \in 1 .. Undelivered - 1 |-> events[Slot(First + i)]]
    <3>1. \A i \in 1 .. Undelivered - 1 : First + 1 + i - 1 = First + i
      BY QueueBounds
    <3> QED BY <1>2, <3>1 DEF Queue, Slot
  <2>4. Queue' \in [1 .. Undelivered - 1 -> Msgs]
    <3>1. \A i \in 1 .. Undelivered - 1 : events[Slot(First + i)] \in Msgs
      <4>1. \A i \in 1 .. Undelivered - 1 : i + 1 \in 1 .. Len(Queue)
        BY <1>3, QueueBounds
      <4> QED BY <1>3, <2>2, <4>1, ElementOfSeq
    <3> QED BY <2>3, <3>1
  <2>5. Undelivered - 1 \in Nat
    BY <1>2, QueueBounds
  <2>6. Queue' \in Seq(Msgs) /\ Len(Queue') = Undelivered - 1
    BY <2>4, <2>5, FunctionIsSeq
  <2>7. \A i \in 1 .. Undelivered - 1 : Queue'[i] = Tail(Queue)[i]
    BY <2>1, <2>2, <2>3
  <2> QED BY <2>1, <2>6, <2>7, SeqEqual
<1> QED
  BY <1>3, <1>4, <1>5
  DEF Deliver, producerVars, Fifo!Deliver, Queue, Undelivered, First

LEMMA ConsumerSteps ==
    ASSUME Inv, Inv', Consumer
    PROVE  Fifo!Next \/ UNCHANGED Fifo!fifoVars
<1>1. ASSUME First' = First, UNCHANGED producerVars, delivered' = delivered
      PROVE  UNCHANGED Fifo!fifoVars
  <2>1. Queue' = Queue
    BY <1>1, QueueStays DEF producerVars
  <2> QED BY <1>1, <2>1 DEF producerVars, Fifo!fifoVars, Queue, Undelivered, First
<1>2. next \in Int /\ taken \in Nat /\ want \in Nat
  BY DEF Inv, TypeOK
<1>3. CASE GetNothing
  <2>1. next' = next
    BY <1>3 DEF GetNothing, BeginBatch, Inv, ConsumerKnows
  <2> QED BY <1>1, <1>3, <2>1 DEF GetNothing, First
<1>4. CASE \E requested \in 1 .. N : Get(requested)
  <2>1. next' = next /\ taken' = taken
    BY <1>4 DEF Get, BeginBatch, ContinueBatch, Inv, ConsumerKnows
  <2> QED BY <1>1, <1>4, <2>1 DEF Get, First
<1>5. CASE Deliver
  BY <1>5, DeliverDelivers DEF Fifo!Next
<1>6. CASE Commit
  <2>1. First' = First
    BY <1>2, <1>6 DEF Commit, First
  <2> QED BY <1>1, <1>6, <2>1 DEF Commit
<1> QED BY <1>3, <1>4, <1>5, <1>6 DEF Consumer

\* Whatever the producers and the consumer do is what the FIFO inbox allows: no
\* message is lost, delivered twice or out of order, and send() returns only when
\* its message is in the queue, of which at most N wait.
THEOREM InboxIsFifo == Spec => Fifo!Init /\ [][Fifo!Next]_(Fifo!fifoVars)
<1>1. Inv /\ Inv' /\ [Next]_vars => [Fifo!Next]_(Fifo!fifoVars)
  <2> SUFFICES ASSUME Inv, Inv', [Next]_vars PROVE Fifo!Next \/ UNCHANGED Fifo!fifoVars
    OBVIOUS
  <2>1. CASE UNCHANGED vars
    BY <2>1 DEF vars, Fifo!fifoVars
  <2> QED BY <2>1, SendSteps, ConsumerSteps DEF Next
<1> QED BY <1>1, FifoInit, Invariant, PTL DEF Spec
================================================================================
