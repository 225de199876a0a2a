------------------------------- MODULE Sequencer -------------------------------
(***************************************************************************)
(* The disruptor as a library: Sequencer with its claim strategies,        *)
(* SequenceBarrier, the wait strategies and BatchEventProcessor, for any   *)
(* graph of processors that wait for one another.  (MPSCQueue models the   *)
(* one arrangement the reactor uses.)                                      *)
(*                                                                         *)
(* Every load, store or fetch_add of a Sequence is a step of its own; the  *)
(* minimum over several sequences is scanned one load at a time, in any    *)
(* order.  A slot holds the sequence of the event last stored in it.       *)
(*                                                                         *)
(* MaxSequence bounds what is ever claimed, MaxBatch the delta of a claim. *)
(***************************************************************************)
EXTENDS Integers

CONSTANTS
    Publishers, Processors,     \* threads
    Cursor,                     \* the sequencer's cursor_, as what a barrier tracks
    Arrangements,               \* how a client may connect them: see ArrangementOK
    N,                          \* size of the ring
    MaxBatch, MaxSequence, LongMax

\* BusySpinStrategy; YieldingStrategy and SleepingStrategy, which pause between
\* their loads; DontWaitStrategy; BlockingStrategy
Kinds == {"busy spin", "pause", "dont wait", "block"}

\* What a client passes to set_gating_sequences() and NewBarrier(), the wait
\* strategy of each processor, who publishes and how far.  Without gates nothing keeps
\* a publisher from lapping the processors, so a client sets some.  The processors
\* at the ends of the graph are enough: each is a gate or, along whoever depends on
\* it, a gate comes behind it, so no set of others is closed under dependents.
ArrangementOK(a) ==
    /\ a.publishers \subseteq Publishers
    /\ a.last \in 0 .. MaxSequence
    /\ ~ a.multi => \E p \in Publishers : a.publishers = {p}
    /\ a.processors \subseteq Processors
    /\ a.alertable \subseteq a.processors /\ a.timed \subseteq a.processors
    /\ a.gates \subseteq a.processors
    /\ a.dependents \in [Processors -> SUBSET a.processors]
    /\ a.kind \in [Processors -> Kinds]
    /\ \A S \in SUBSET (a.processors \ a.gates) : S # {} =>
          \E c \in S, d \in a.processors \ S : c \in a.dependents[d]

ASSUME SequencerAssumption ==
    /\ Cursor \notin Processors
    /\ Publishers \cap Processors = {}
    /\ N \in Nat \ {0}
    /\ MaxBatch \in 1 .. N      \* a claim of more would wait for itself
    /\ MaxSequence \in Nat
    /\ LongMax \in Int /\ LongMax > MaxSequence
    /\ \A a \in Arrangements : ArrangementOK(a)

InitialCursorValue == -1
Signalled == -2     \* kAlertedSignal, kTimeoutSignal, kNotReadySignal: below every sequence

VARIABLES
    shape,          \* the arrangement in use
    claimed,        \* last_claimed_sequence_
    lastConsumer,   \* last_consumer_sequence_, kept by HasAvailableCapacity only
    cursor,         \* cursor_
    events,         \* the ring
    seq, delta,     \* of each publisher's call
    roomy,          \* publishers whose last HasAvailableCapacity() said true
    sequence,       \* sequence_ of each processor: the last event it is done with
    next,           \* next_sequence_
    available,      \* avalaible_sequence_
    alerted,        \* the barriers whose alerted_ is set
    pc,             \* where each thread is
    left, low       \* GetMinimumSequence: what is still to load, the minimum so far

publishVars == <<claimed, lastConsumer, cursor, events, seq, delta, roomy>>
processVars == <<sequence, next, available, alerted>>
vars == <<shape, publishVars, processVars, pc, left, low>>

Threads == Publishers \cup Processors
Slot(s) == s % N
Gates == shape.gates
Dependents(c) == shape.dependents[c]
Sequences == InitialCursorValue .. LongMax
Blocking(c) == shape.kind[c] = "block"
HasDeadline(c) == c \in shape.timed

Stages == {"idle", "gate", "write", "publish", "signal", "ask",
           "cursor", "locked", "asleep", "scan", "pauses", "batch"}

TypeOK ==
    /\ shape \in Arrangements
    /\ claimed \in Int /\ lastConsumer \in Int /\ cursor \in Int
    /\ events \in [0 .. N - 1 -> Int]
    /\ seq \in [Publishers -> Int] /\ delta \in [Publishers -> Int]
    /\ roomy \subseteq Publishers
    /\ sequence \in [Processors -> Int]
    /\ next \in [Processors -> Int] /\ available \in [Processors -> Int]
    /\ alerted \subseteq Processors
    /\ pc \in [Threads -> Stages]
    /\ left \in [Threads -> SUBSET (Processors \cup {Cursor})]
    /\ low \in [Threads -> Int]

Init ==
    /\ shape \in Arrangements
    /\ claimed = InitialCursorValue /\ lastConsumer = InitialCursorValue
    /\ cursor = InitialCursorValue
    /\ events = [i \in 0 .. N - 1 |-> InitialCursorValue]
    /\ seq = [p \in Publishers |-> InitialCursorValue] /\ delta = [p \in Publishers |-> 0]
    /\ roomy = {}
    /\ sequence = [c \in Processors |-> InitialCursorValue]
    /\ next = [c \in Processors |-> 0]
    /\ available = [c \in Processors |-> InitialCursorValue]
    /\ alerted = {}
    /\ pc = [t \in Threads |-> "idle"]
    /\ left = [t \in Threads |-> {}] /\ low = [t \in Threads |-> LongMax]

Goes(t, stage) == pc' = [pc EXCEPT ![t] = stage]

--------------------------------------------------------------------------------
(* GetMinimumSequence *)

\* t starts over to load the sequences S.
StartScan(t, S, stage) ==
    /\ Goes(t, stage)
    /\ left' = [left EXCEPT ![t] = S]
    /\ low' = [low EXCEPT ![t] = LongMax]

Value(s) == IF s = Cursor THEN cursor ELSE sequence[s]

Least(t, s) == IF Value(s) < low[t] THEN Value(s) ELSE low[t]

\* A load that leaves others to do.
Load(t) == \E s \in left[t] :
    /\ left[t] # {s}
    /\ left' = [left EXCEPT ![t] = @ \ {s}]
    /\ low' = [low EXCEPT ![t] = Least(t, s)]
    /\ UNCHANGED <<shape, publishVars, processVars, pc>>

\* The last load gives the minimum m.
Scanned(t, stage, m) ==
    /\ pc[t] = stage
    /\ \E s \in left[t] : left[t] = {s} /\ m = Least(t, s)

EndScan(t, stage) ==
    /\ Goes(t, stage)
    /\ left' = [left EXCEPT ![t] = {}]
    /\ low' = [low EXCEPT ![t] = LongMax]

--------------------------------------------------------------------------------
(* The publishers *)

\* The sequence that has to be consumed before s can be stored.
LateWrapPoint(s) == s - N - 1       \* mutant
WrapPoint(s) == s - N

\* IncrementAndGet: one addition, atomic in the multi-threaded strategy.  What
\* last_consumer_sequence_ shows is read next: in the same step here, since what
\* could come in between could as well come before.
Claim(p, d) ==
    /\ pc[p] = "idle" /\ p \in shape.publishers
    /\ claimed + d <= shape.last
    /\ claimed' = claimed + d
    /\ seq' = [seq EXCEPT ![p] = claimed + d] /\ delta' = [delta EXCEPT ![p] = d]
    /\ roomy' = roomy \ {p}
    /\ IF lastConsumer < WrapPoint(claimed + d)
         THEN StartScan(p, Gates, "gate")
         ELSE Goes(p, "write") /\ UNCHANGED <<left, low>>
    /\ UNCHANGED <<shape, lastConsumer, cursor, events, processVars>>

\* Spin until the slowest gate has passed the wrap point.
Gate(p) == \E m \in Sequences :
    /\ Scanned(p, "gate", m)
    /\ IF m < WrapPoint(seq[p]) THEN StartScan(p, Gates, "gate") ELSE EndScan(p, "write")
    /\ UNCHANGED <<shape, publishVars, processVars>>

\* The client stores its events through operator[].
Claims(p) == seq[p] - delta[p] + 1 .. seq[p]
Write(p) ==
    /\ pc[p] = "write"
    /\ events' = [i \in 0 .. N - 1 |->
                    IF \E s \in Claims(p) : Slot(s) = i
                      THEN CHOOSE s \in Claims(p) : Slot(s) = i ELSE events[i]]
    /\ Goes(p, "publish")
    /\ UNCHANGED <<shape, claimed, lastConsumer, cursor, seq, delta, roomy, processVars, left, low>>

\* The strategy of several publishers waits for the earlier claims; then the
\* cursor is at the last of them and nobody else can move it.
SynchronizePublishing(p) == shape.multi => cursor >= seq[p] - delta[p]
Publish(p) ==
    /\ pc[p] = "publish"
    /\ SynchronizePublishing(p)
    /\ cursor' = cursor + delta[p]
    /\ Goes(p, "signal")
    /\ UNCHANGED <<shape, claimed, lastConsumer, events, seq, delta, roomy, processVars, left, low>>

\* A BlockingStrategy object notifies who waits on its own condition variable.
\* The sequencer has one; each barrier has another, where its processor waits.
SequencerStrategy == Cursor
BarrierStrategy(c) == c
SignalAllWhenBlocking(strategy) ==
    [t \in Threads |-> IF pc[t] = "asleep" /\ BarrierStrategy(t) = strategy THEN "locked" ELSE pc[t]]

Signal(p) ==
    /\ pc[p] = "signal"
    /\ pc' = [SignalAllWhenBlocking(SequencerStrategy) EXCEPT ![p] = "idle"]
    /\ seq' = [seq EXCEPT ![p] = InitialCursorValue] /\ delta' = [delta EXCEPT ![p] = 0]
    /\ UNCHANGED <<shape, claimed, lastConsumer, cursor, events, roomy, processVars, left, low>>

\* HasAvailableCapacity: is there room for one more?
WrapOfLast == claimed - N           \* mutant
WrapOfNext == claimed + 1 - N
AskCapacity(p) ==
    /\ pc[p] = "idle" /\ p \in shape.publishers
    /\ IF WrapOfNext > lastConsumer
         THEN /\ StartScan(p, Gates, "ask")
              /\ seq' = [seq EXCEPT ![p] = WrapOfNext]
              /\ UNCHANGED roomy
         ELSE roomy' = roomy \cup {p} /\ UNCHANGED <<pc, left, low, seq>>
    /\ UNCHANGED <<shape, claimed, lastConsumer, cursor, events, delta, processVars>>

AnswerCapacity(p) == \E m \in Sequences :
    /\ Scanned(p, "ask", m)
    /\ lastConsumer' = m
    /\ roomy' = IF seq[p] > m THEN roomy \ {p} ELSE roomy \cup {p}
    /\ EndScan(p, "idle")
    /\ seq' = [seq EXCEPT ![p] = InitialCursorValue]
    /\ UNCHANGED <<shape, claimed, cursor, events, delta, processVars>>

--------------------------------------------------------------------------------
(* The processors *)

\* buildMinSequenceFunction: a barrier without dependents tracks the cursor.
TrackedAlone(c) == {Cursor}         \* mutant
Tracked(c) == IF Dependents(c) = {} THEN {Cursor} ELSE Dependents(c)

IsBatch(c) == next[c] <= available[c]

\* begin_batch, up to the first load of WaitFor.
BeginBatch(c) ==
    /\ pc[c] = "idle" /\ c \in shape.processors
    /\ ~ IsBatch(c)
    /\ next' = [next EXCEPT ![c] = sequence[c] + 1]
    /\ IF Blocking(c) THEN Goes(c, "cursor") /\ UNCHANGED <<left, low>>
                      ELSE StartScan(c, Tracked(c), "scan")
    /\ UNCHANGED <<shape, publishVars, sequence, available, alerted>>

\* WaitFor returns a sequence or a signal, which is below every sequence.
Returns(c, value) ==
    /\ available' = [available EXCEPT ![c] = value]
    /\ EndScan(c, IF next[c] <= value THEN "batch" ELSE "idle")
    /\ UNCHANGED <<shape, publishVars, sequence, next, alerted>>

Stays(c, stage) ==
    /\ Goes(c, stage)
    /\ UNCHANGED <<shape, publishVars, processVars, left, low>>

ScanAgain(c) ==
    /\ StartScan(c, Tracked(c), "scan")
    /\ UNCHANGED <<shape, publishVars, processVars>>

Found(c) == \E m \in Sequences : Scanned(c, "scan", m) /\ m >= next[c] /\ Returns(c, m)

NotYet(c) == \E m \in Sequences : Scanned(c, "scan", m) /\ m < next[c]

DontWait(c) ==
    /\ NotYet(c) /\ shape.kind[c] = "dont wait"
    /\ Returns(c, Signalled)

\* Between two scans: the alert, then the deadline.
BusySpin(c) ==
    /\ NotYet(c) /\ shape.kind[c] = "busy spin"
    /\ \/ c \in alerted /\ Returns(c, Signalled)
       \/ c \notin alerted /\ HasDeadline(c) /\ Returns(c, Signalled)
       \/ c \notin alerted /\ ScanAgain(c)

\* Between two scans: the alert, a yield() or sleep_for(), then the deadline.
Pause(c) ==
    /\ NotYet(c) /\ shape.kind[c] = "pause"
    /\ \/ c \in alerted /\ Returns(c, Signalled)
       \/ c \notin alerted /\ Stays(c, "pauses")

PauseEnds(c) ==
    /\ pc[c] = "pauses"
    /\ \/ HasDeadline(c) /\ Returns(c, Signalled)
       \/ ScanAgain(c)

\* The blocking strategy, once the cursor has moved, spins on the dependents and
\* takes no notice of its deadline.
SpinOnDependents(c) ==
    /\ NotYet(c) /\ Blocking(c)
    /\ \/ c \in alerted /\ Returns(c, Signalled)
       \/ c \notin alerted /\ ScanAgain(c)

\* BlockingStrategy::WaitFor reads the cursor before it takes its mutex, and
\* again each time it holds it.
ReadCursor(c) ==
    /\ pc[c] \in {"cursor", "locked"}
    /\ \/ cursor >= next[c] /\ Dependents(c) = {} /\ Returns(c, cursor)
       \/ cursor >= next[c] /\ Dependents(c) # {} /\ ScanAgain(c)
       \/ cursor < next[c] /\ pc[c] = "cursor" /\ Stays(c, "locked")
       \/ cursor < next[c] /\ pc[c] = "locked" /\ c \in alerted /\ Returns(c, Signalled)
       \/ cursor < next[c] /\ pc[c] = "locked" /\ c \notin alerted /\ Stays(c, "asleep")

WaitTimesOut(c) ==
    /\ pc[c] = "asleep" /\ HasDeadline(c)
    /\ Returns(c, Signalled)

\* A condition variable may wake its waiter for no reason.
WakeSpuriously(c) ==
    /\ pc[c] = "asleep"
    /\ Stays(c, "locked")

\* The client handles get_event(0) and commits it; the publishers and the
\* processors behind see the whole batch done at once, by finish_batch.
FinishedShort(c) == next[c] - 1     \* mutant
Finished(c) == next[c]
Commit(c) ==
    /\ pc[c] = "batch"
    /\ next' = [next EXCEPT ![c] = @ + 1]
    /\ IF next[c] = available[c]
         THEN sequence' = [sequence EXCEPT ![c] = Finished(c)] /\ Goes(c, "idle")
         ELSE UNCHANGED <<sequence, pc>>
    /\ UNCHANGED <<shape, publishVars, available, alerted, left, low>>

\* SequenceBarrier::set_alerted, by any thread: a store, which wakes nobody.
SetAlerted(c) ==
    /\ c \in shape.alertable \ alerted
    /\ alerted' = alerted \cup {c}
    /\ UNCHANGED <<shape, publishVars, sequence, next, available, pc, left, low>>

--------------------------------------------------------------------------------

\* What thread t does by itself, once in a call.
Step(t) ==
    \/ Load(t)
    \/ /\ t \in Publishers
       /\ \/ Gate(t) \/ Write(t) \/ Publish(t) \/ Signal(t) \/ AnswerCapacity(t)
    \/ /\ t \in Processors
       /\ \/ BeginBatch(t) \/ Found(t) \/ DontWait(t) \/ BusySpin(t) \/ Pause(t) \/ PauseEnds(t)
          \/ SpinOnDependents(t) \/ ReadCursor(t) \/ WaitTimesOut(t) \/ Commit(t)

Next ==
    \/ \E t \in Threads : Step(t)
    \/ \E p \in Publishers : AskCapacity(p) \/ \E d \in 1 .. MaxBatch : Claim(p, d)
    \/ \E c \in Processors : WakeSpuriously(c) \/ SetAlerted(c)

\* Threads run, clocks advance, and a processor's loop calls begin_batch again;
\* no client has to publish or to alert.
Spec == Init /\ [][Next]_vars /\ \A t \in Threads : WF_vars(Step(t))

--------------------------------------------------------------------------------

\* Nobody stores into a slot before every gate is done with the event it held.
SlotsAreFree ==
    \A p \in Publishers : pc[p] = "write" =>
        \A s \in Claims(p), g \in Gates : sequence[g] >= s - N

\* Whatever a processor was handed is published, is behind what it depends on,
\* and still in its slot, however far the publishers are.
BatchIsIntact ==
    TypeOK /\ \A c \in Processors : IsBatch(c) =>
        /\ available[c] <= cursor
        /\ \A d \in Dependents(c) : available[c] <= sequence[d]
        /\ \A s \in next[c] .. available[c] : events[Slot(s)] = s

\* A single publisher told that there is room claims its next slot without
\* waiting: the cached minimum never runs ahead of the gates.
CapacityHolds ==
    \A p \in roomy : ~ shape.multi /\ pc[p] = "idle" =>
        \A g \in Gates : sequence[g] >= claimed + 1 - N

\* Where no processor sleeps without a deadline, and while no more is claimed,
\* every published event is handled by every processor and no claim waits on.
EventsAreProcessed ==
    []<>(\/ \E c \in shape.processors \ shape.timed : Blocking(c)
         \/ /\ \A c \in shape.processors : sequence[c] = cursor
            /\ \A p \in Publishers : pc[p] # "gate")

\* "The sequencer MUST call SignalAllWhenBlocking() to unblock the strategy when
\* waiting on the cursor" (wait_strategy.h:117): once Publish has returned, the
\* processor that waits for the event is not asleep.
PublishUnblocks ==
    \A c \in Processors : pc[c] = "asleep" /\ cursor >= next[c] =>
        \E p \in Publishers : pc[p] = "signal"
================================================================================
