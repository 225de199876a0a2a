---------------------------- MODULE BufferedChannel ----------------------------
(***************************************************************************)
(* buffered_channel: a ring of slots, each with the number of the cycle it *)
(* is in.  A slot whose cycle is the producers' index is free, one whose   *)
(* cycle is the consumers' index plus one holds a value.  push() and pop() *)
(* that find no such slot queue up and are woken one by one.  The fibers   *)
(* of Timed give a deadline, those of Trying call try_push() and try_pop() *)
(* instead.                                                                *)
(*                                                                         *)
(* The fibers share a thread and the spinlock is empty, so an action is    *)
(* all that a fiber does between two context switches.  Indices and cycles *)
(* are words that wrap around at Word; the code subtracts them as signed   *)
(* words.                                                                  *)
(***************************************************************************)
EXTENDS Integers, Sequences, FiniteSets, SequencesExt

CONSTANTS
    Producers, Consumers,
    Timed, Trying,
    Values, NoValue,
    Capacity,       \* capacity_
    Word            \* 2^64 in the code, small here

Fibers == Producers \cup Consumers

\* The constructor accepts powers of two; a word is a multiple of them.
ASSUME CapacityAssumption ==
    /\ Capacity \in Nat \ {0} /\ Word \in Nat
    /\ Word % Capacity = 0 /\ Word > 2 * Capacity

ASSUME FibersAssumption ==
    /\ Producers \cap Consumers = {}
    /\ Timed \cup Trying \subseteq Fibers
    /\ Timed \cap Trying = {}
    /\ NoValue \notin Values

VARIABLES
    producer_idx_, consumer_idx_,
    cycle,                  \* of each slot
    storage,                \* of each slot
    closed_,
    waiting_producers_, waiting_consumers_,
    at,                     \* where each fiber is
    value,                  \* the argument of each producer's push()
    popped                  \* what the last pop() got

ringVars == <<producer_idx_, consumer_idx_, cycle, storage, popped>>
queueVars == <<waiting_producers_, waiting_consumers_>>
vars == <<ringVars, closed_, queueVars, at, value>>

Slots == 0 .. Capacity - 1
Words == 0 .. Word - 1

\* runs: outside the channel; waits: suspended in a wait queue; ready: made
\* ready out of it; expired: made ready by its deadline.
TypeOK ==
    /\ producer_idx_ \in Words /\ consumer_idx_ \in Words
    /\ cycle \in [Slots -> Words]
    /\ storage \in [Slots -> Values \cup {NoValue}]
    /\ closed_ \in BOOLEAN
    /\ waiting_producers_ \in Seq(Producers) /\ waiting_consumers_ \in Seq(Consumers)
    /\ at \in [Fibers -> {"runs", "waits", "ready", "expired"}]
    /\ value \in [Producers -> Values \cup {NoValue}]
    /\ popped \in Values \cup {NoValue}

Init ==
    /\ producer_idx_ = 0 /\ consumer_idx_ = 0
    /\ cycle = [i \in Slots |-> i]
    /\ storage = [i \in Slots |-> NoValue]
    /\ closed_ = FALSE
    /\ waiting_producers_ = <<>> /\ waiting_consumers_ = <<>>
    /\ at = [f \in Fibers |-> "runs"]
    /\ value = [p \in Producers |-> NoValue]
    /\ popped = NoValue

SlotOf(idx) == idx % Capacity

\* mutant: indices are compared, not subtracted
UnsignedDiff(a, b) == a - b
\* The difference of two words as a signed word.
Diff(a, b) ==
    LET d == (a - b) % Word IN IF d < Word \div 2 THEN d ELSE d - Word

IsFull == Diff(cycle[SlotOf(producer_idx_)], producer_idx_) < 0
IsEmpty == Diff(cycle[SlotOf(consumer_idx_)], (consumer_idx_ + 1) % Word) < 0

\* The cycle of a slot that has been read: free for the next round.
NextCycle(idx) == (idx + Capacity) % Word

\* try_push_(): on one thread the exchange of producer_idx_ succeeds.
Store(v) ==
    LET idx == producer_idx_ IN
        /\ Diff(cycle[SlotOf(idx)], idx) = 0
        /\ producer_idx_' = (idx + 1) % Word
        /\ storage' = [storage EXCEPT ![SlotOf(idx)] = v]
        /\ cycle' = [cycle EXCEPT ![SlotOf(idx)] = (idx + 1) % Word]
        /\ UNCHANGED <<consumer_idx_, popped>>

\* mutant: the slot is looked up after the index has moved on
NextValue == storage[SlotOf(consumer_idx_ + 1)]
FirstValue == storage[SlotOf(consumer_idx_)]

\* try_value_pop_() and what its callers do with the slot.
Fetch ==
    LET idx == consumer_idx_ IN
        /\ Diff(cycle[SlotOf(idx)], (idx + 1) % Word) = 0
        /\ consumer_idx_' = (idx + 1) % Word
        /\ popped' = FirstValue
        /\ cycle' = [cycle EXCEPT ![SlotOf(idx)] = NextCycle(idx)]
        /\ UNCHANGED <<producer_idx_, storage>>

Readied(place) == IF place = "waits" THEN "ready" ELSE place

\* The fiber that "notify one waiting" takes off a queue.
NotifyOne(queue) == IF queue = <<>> THEN {} ELSE {Head(queue)}

Popped(queue) == IF queue = <<>> THEN <<>> ELSE Tail(queue)

Without(queue, f) ==
    IF f \in ToSet(queue)
      THEN RemoveAt(queue, CHOOSE i \in DOMAIN queue : queue[i] = f) ELSE queue

\* f goes on to place, and the fibers it notifies become ready.
WakeUp(fibers, f, place) ==
    at' = [g \in Fibers |->
             IF g = f THEN place ELSE IF g \in fibers THEN Readied(at[g]) ELSE at[g]]

\* The loop of push() and push_wait_until() up to the next context switch, with
\* the value v.
PushFrom(p, v) ==
    \/ /\ closed_                           \* closed
       /\ WakeUp({}, p, "runs")
       /\ value' = [value EXCEPT ![p] = NoValue]
       /\ UNCHANGED <<ringVars, queueVars>>
    \/ /\ ~closed_ /\ Store(v)              \* success
       /\ waiting_consumers_' = Popped(waiting_consumers_)
       /\ WakeUp(NotifyOne(waiting_consumers_), p, "runs")
       /\ value' = [value EXCEPT ![p] = NoValue]
       /\ UNCHANGED waiting_producers_
    \/ /\ ~closed_ /\ IsFull                \* full: wait
       /\ waiting_producers_' = Append(waiting_producers_, p)
       /\ WakeUp({}, p, "waits")
       /\ value' = [value EXCEPT ![p] = v]
       /\ UNCHANGED <<ringVars, waiting_consumers_>>

Push(p, v) ==
    /\ p \notin Trying /\ at[p] = "runs"
    /\ PushFrom(p, v)
    /\ UNCHANGED closed_

PushAgain(p) ==
    /\ p \in Producers /\ at[p] = "ready"
    /\ PushFrom(p, value[p])
    /\ UNCHANGED closed_

\* The loop of pop(), value_pop() and pop_wait_until().
PopFrom(c) ==
    \/ /\ Fetch                             \* success
       /\ waiting_producers_' = Popped(waiting_producers_)
       /\ WakeUp(NotifyOne(waiting_producers_), c, "runs")
       /\ UNCHANGED waiting_consumers_
    \/ /\ IsEmpty /\ closed_                \* closed
       /\ WakeUp({}, c, "runs")
       /\ UNCHANGED <<ringVars, queueVars>>
    \/ /\ IsEmpty /\ ~closed_               \* empty: wait
       /\ waiting_consumers_' = Append(waiting_consumers_, c)
       /\ WakeUp({}, c, "waits")
       /\ UNCHANGED <<ringVars, waiting_producers_>>

Pop(c) ==
    /\ c \notin Trying /\ at[c] = "runs"
    /\ PopFrom(c)
    /\ UNCHANGED <<closed_, value>>

PopAgain(c) ==
    /\ c \in Consumers /\ at[c] = "ready"
    /\ PopFrom(c)
    /\ UNCHANGED <<closed_, value>>

\* try_push() and try_pop() wake nobody; without success they change nothing.
TryPush(p, v) ==
    /\ p \in Trying /\ ~closed_
    /\ Store(v)
    /\ UNCHANGED <<closed_, queueVars, at, value>>

TryPop(c) ==
    /\ c \in Trying
    /\ Fetch
    /\ UNCHANGED <<closed_, queueVars, at, value>>

\* The dispatcher makes a fiber ready whose deadline is reached; the fiber
\* stays linked.
Expire(f) ==
    /\ f \in Timed /\ at[f] = "waits"
    /\ at' = [at EXCEPT ![f] = "expired"]
    /\ UNCHANGED <<ringVars, closed_, queueVars, value>>

\* The deadline is over when the fiber runs again: it returns timeout, whoever
\* woke it.
PushTimesOut(p) ==
    /\ p \in Timed /\ at[p] \in {"ready", "expired"}
    /\ waiting_producers_' = Without(waiting_producers_, p)
    /\ WakeUp({}, p, "runs")
    /\ value' = [value EXCEPT ![p] = NoValue]
    /\ UNCHANGED <<ringVars, closed_, waiting_consumers_>>

PopTimesOut(c) ==
    /\ c \in Timed /\ at[c] \in {"ready", "expired"}
    /\ waiting_consumers_' = Without(waiting_consumers_, c)
    /\ WakeUp({}, c, "runs")
    /\ UNCHANGED <<ringVars, closed_, waiting_producers_, value>>

Close(f) ==
    /\ at[f] = "runs" /\ ~closed_
    /\ closed_' = TRUE
    /\ waiting_producers_' = <<>> /\ waiting_consumers_' = <<>>
    /\ WakeUp(ToSet(waiting_producers_) \cup ToSet(waiting_consumers_), f, "runs")
    /\ UNCHANGED <<ringVars, value>>

Next ==
    \/ \E p \in Producers :
          \/ \E v \in Values : Push(p, v) \/ TryPush(p, v)
          \/ PushAgain(p) \/ PushTimesOut(p)
    \/ \E c \in Consumers : Pop(c) \/ PopAgain(c) \/ TryPop(c) \/ PopTimesOut(c)
    \/ \E f \in Fibers : Expire(f) \/ Close(f)

Spec == Init /\ [][Next]_vars

-------------------------------------------------------------------------------

Count == (producer_idx_ - consumer_idx_) % Word
Content == [i \in 1 .. Count |-> storage[SlotOf(consumer_idx_ + i - 1)]]

\* The channel is a FIFO buffer of capacity_ values that refuses values once it
\* is closed, whatever the indices have wrapped around.
AsChannel == INSTANCE Channel WITH
    buffer <- Content, closed <- closed_, AcceptsLate <- FALSE

\* The cycles tell how much the ring holds: a producer is turned away exactly
\* when all slots are filled, a consumer exactly when none is.
CyclesTellCount ==
    /\ Count <= Capacity
    /\ IsFull <=> Count = Capacity
    /\ IsEmpty <=> Count = 0

\* Where only push() and pop() are called and without deadlines, a producer
\* sleeps only while every free slot has a producer that was notified for it,
\* and a consumer only while every value has such a consumer.
NobodyIsStranded ==
    /\ waiting_producers_ # <<>> =>
           Capacity - Count <= Cardinality({p \in Producers : at[p] = "ready"})
    /\ waiting_consumers_ # <<>> =>
           Count <= Cardinality({c \in Consumers : at[c] = "ready"})

\* The wait queues hold each suspended fiber once, and besides them only fibers
\* past their deadline that have not run since; none outlives close().
WaitersAreQueued ==
    \A role \in {<<Producers, waiting_producers_>>, <<Consumers, waiting_consumers_>>} :
        LET Linked == ToSet(role[2])
            Waiting == {f \in role[1] : at[f] = "waits"} IN
            /\ IsInjective(role[2])
            /\ Waiting \subseteq Linked
            /\ Linked \subseteq Waiting \cup {f \in role[1] : at[f] = "expired"}
            /\ closed_ => Linked = {}
===============================================================================
