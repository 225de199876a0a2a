------------------------------ MODULE QueueChannel ------------------------------
(***************************************************************************)
(* bounded_channel and, with Bounded = FALSE, unbounded_channel: a linked  *)
(* list behind a mutex, with a condition variable for the consumers and,   *)
(* if it is bounded, one for the producers.  Producers wait from the high  *)
(* watermark on and are notified, all of them, from the low watermark      *)
(* down.                                                                   *)
(*                                                                         *)
(* The fibers share a thread, and none of them keeps mtx_ over a context   *)
(* switch except to wait, which releases it: mtx_ is free whenever a fiber *)
(* asks for it and is left out, and an action is all that a fiber does     *)
(* between two context switches.  try_pop() is pop() where that does not   *)
(* wait.                                                                   *)
(***************************************************************************)
EXTENDS Naturals, Sequences, FiniteSets, SequencesExt

CONSTANTS
    Producers, Consumers,
    Timed,          \* the fibers that give a deadline
    Values, NoValue,
    Bounded,
    Hwm,            \* hwm_; of an unbounded channel, the bound on what it holds here
    Lwm             \* lwm_

Fibers == Producers \cup Consumers

\* What the constructors accept.
WatermarkAssumption == Hwm \in Nat /\ Lwm \in Nat /\ Lwm < Hwm

QueueChannelAssumption ==
    /\ Producers \cap Consumers = {}
    /\ Timed \subseteq Fibers
    /\ NoValue \notin Values
    /\ Bounded \in BOOLEAN

VARIABLES
    queue_,             \* the values from head_ to tail_; count_ is its length
    closed_,            \* state_
    not_empty_, not_full_,      \* the fibers linked into the two condition variables
    at,                 \* where each fiber is
    value,              \* the argument of each producer's push()
    popped              \* what the last pop() got

vars == <<queue_, closed_, not_empty_, not_full_, at, value, popped>>

\* runs: outside the channel; waits: suspended in a condition variable;
\* notified: made ready out of it; overdue: made ready by its deadline.
TypeOK ==
    /\ queue_ \in Seq(Values) /\ Len(queue_) <= Hwm
    /\ closed_ \in BOOLEAN
    /\ not_empty_ \in Seq(Consumers) /\ not_full_ \in Seq(Producers)
    /\ at \in [Fibers -> {"runs", "waits", "notified", "overdue"}]
    /\ value \in [Producers -> Values \cup {NoValue}]
    /\ popped \in Values \cup {NoValue}

Init ==
    /\ queue_ = <<>> /\ closed_ = FALSE
    /\ not_empty_ = <<>> /\ not_full_ = <<>>
    /\ at = [f \in Fibers |-> "runs"]
    /\ value = [p \in Producers |-> NoValue]
    /\ popped = NoValue

IsFull == Len(queue_) >= Hwm

IsEmpty == queue_ = <<>>

\* notify_one()
First(queue) == IF queue = <<>> THEN {} ELSE {Head(queue)}

Rest(queue) == IF queue = <<>> THEN <<>> ELSE Tail(queue)

\* mutant: wait() does not unlink
StillLinked(queue, f) == queue
Without(queue, f) ==
    IF f \in ToSet(queue)
      THEN RemoveAt(queue, CHOOSE i \in DOMAIN queue : queue[i] = f) ELSE queue

\* f goes on to place, and the fibers it notifies become ready.
GoOn(f, place, fibers) ==
    at' = [g \in Fibers |->
             IF g = f THEN place
             ELSE IF g \in fibers /\ at[g] = "waits" THEN "notified" ELSE at[g]]

PushTail(v) == Append(queue_, v)

\* push_and_notify_()
Enqueue(p, v) ==
    /\ queue_' = PushTail(v)
    /\ not_empty_' = Rest(not_empty_)
    /\ not_full_' = Without(not_full_, p)
    /\ GoOn(p, "runs", First(not_empty_))
    /\ value' = [value EXCEPT ![p] = NoValue]
    /\ UNCHANGED <<closed_, popped>>

\* not_full_cond_.wait(), before and after it was woken.
WaitForRoom(p, v) ==
    /\ not_full_' = Append(Without(not_full_, p), p)
    /\ at' = [at EXCEPT ![p] = "waits"]
    /\ value' = [value EXCEPT ![p] = v]
    /\ UNCHANGED <<queue_, closed_, not_empty_, popped>>

\* push_() and push_wait_until_(), before they return or wait.
PushOrWait(p, v) ==
    /\ at[p] = "runs" /\ ~closed_
    /\ \/ ~IsFull /\ Enqueue(p, v)
       \/ IsFull /\ WaitForRoom(p, v)

\* The node is allocated before mtx_ is taken: a constructor that throws leaves
\* the channel alone.
Push(p, v) == Bounded /\ p \notin Timed /\ PushOrWait(p, v)

PushWaitUntil(p, v) == Bounded /\ p \in Timed /\ PushOrWait(p, v)

\* try_push(); of a channel that is full or closed it changes nothing.
TryPush(p, v) ==
    /\ Bounded
    /\ at[p] = "runs" /\ ~closed_ /\ ~IsFull
    /\ Enqueue(p, v)

\* unbounded_channel::push(), which never waits; Hwm bounds it here only.
PushUnbounded(p, v) ==
    /\ ~Bounded
    /\ at[p] = "runs" /\ ~closed_ /\ ~IsFull
    /\ Enqueue(p, v)

\* A producer is resumed; it does not look at state_ again.
PushResumes(p) ==
    /\ at[p] \in {"notified", "overdue"}
    /\ \/ ~IsFull /\ Enqueue(p, value[p])
       \/ IsFull /\ at[p] = "notified" /\ WaitForRoom(p, value[p])

\* The deadline is over, and there is still no room.
PushTimesOut(p) ==
    /\ p \in Timed /\ at[p] \in {"notified", "overdue"}
    /\ IsFull
    /\ not_full_' = Without(not_full_, p)
    /\ at' = [at EXCEPT ![p] = "runs"]
    /\ value' = [value EXCEPT ![p] = NoValue]
    /\ UNCHANGED <<queue_, closed_, not_empty_, popped>>

IsLow(size) == size <= Lwm

\* value_pop_(); only a bounded channel has anybody in not_full_.
Dequeue(c) ==
    /\ queue_' = Tail(queue_)
    /\ popped' = Head(queue_)
    /\ not_empty_' = Without(not_empty_, c)
    /\ IF IsLow(Len(queue_) - 1)
         THEN not_full_' = <<>> /\ GoOn(c, "runs", ToSet(not_full_))
         ELSE UNCHANGED not_full_ /\ GoOn(c, "runs", {})
    /\ UNCHANGED <<closed_, value>>

\* The channel is closed and empty, or the deadline is over.
PopFails(c) ==
    /\ not_empty_' = Without(not_empty_, c)
    /\ at' = [at EXCEPT ![c] = "runs"]
    /\ UNCHANGED <<queue_, closed_, not_full_, value, popped>>

WaitForValue(c) ==
    /\ not_empty_' = Append(Without(not_empty_, c), c)
    /\ at' = [at EXCEPT ![c] = "waits"]
    /\ UNCHANGED <<queue_, closed_, not_full_, value, popped>>

\* pop(), value_pop(), pop_wait_until() and try_pop(); of a closed and empty
\* channel they change nothing.
Pop(c) ==
    /\ at[c] = "runs"
    /\ \/ ~IsEmpty /\ Dequeue(c)
       \/ IsEmpty /\ ~closed_ /\ WaitForValue(c)

PopResumes(c) ==
    /\ at[c] \in {"notified", "overdue"}
    /\ \/ ~IsEmpty /\ Dequeue(c)
       \/ IsEmpty /\ closed_ /\ PopFails(c)
       \/ IsEmpty /\ ~closed_ /\ at[c] = "notified" /\ WaitForValue(c)

PopTimesOut(c) ==
    /\ c \in Timed /\ at[c] \in {"notified", "overdue"}
    /\ IsEmpty /\ ~closed_
    /\ PopFails(c)

\* The dispatcher makes a fiber ready whose deadline is reached; the fiber
\* stays linked until it runs.
Expire(f) ==
    /\ f \in Timed /\ at[f] = "waits"
    /\ at' = [at EXCEPT ![f] = "overdue"]
    /\ UNCHANGED <<queue_, closed_, not_empty_, not_full_, value, popped>>

\* mutant: close() wakes one consumer only
NotifiedByClose == First(not_empty_) \cup ToSet(not_full_)
NotifiedAll == ToSet(not_empty_) \cup ToSet(not_full_)

\* close_()
Close(f) ==
    /\ at[f] = "runs"
    /\ closed_' = TRUE
    /\ not_empty_' = <<>> /\ not_full_' = <<>>
    /\ GoOn(f, "runs", NotifiedAll)
    /\ UNCHANGED <<queue_, value, popped>>

Next ==
    \/ \E p \in Producers :
          \/ \E v \in Values :
                Push(p, v) \/ PushWaitUntil(p, v) \/ TryPush(p, v) \/ PushUnbounded(p, v)
          \/ PushResumes(p) \/ PushTimesOut(p)
    \/ \E c \in Consumers : Pop(c) \/ PopResumes(c) \/ PopTimesOut(c)
    \/ \E f \in Fibers : Expire(f) \/ Close(f)

\* Ready fibers run some day.
Fairness ==
    /\ \A p \in Producers : WF_vars(PushResumes(p) \/ PushTimesOut(p))
    /\ \A c \in Consumers : WF_vars(PopResumes(c) \/ PopTimesOut(c))

Spec == Init /\ [][Next]_vars /\ Fairness

-------------------------------------------------------------------------------

\* The channel is a FIFO buffer of hwm_ values.  A bounded one still accepts a
\* value after close() from a producer that was waiting then.
AsChannel == INSTANCE Channel WITH
    buffer <- queue_, closed <- closed_, Capacity <- Hwm, AcceptsLate <- Bounded

\* A producer sleeps only while the channel is above its low watermark: the
\* pop() that brings it down has notified every other one.
SleepersAwaitLowWatermark ==
    (\E p \in Producers : at[p] = "waits") => Len(queue_) > Lwm

\* A consumer sleeps only while each value in the channel has a consumer that
\* was woken and will look for it, also if deadlines woke them; and not at all
\* once the channel is closed.
ValuesAwaitNobody ==
    (\E c \in Consumers : at[c] = "waits") =>
        /\ ~closed_
        /\ Len(queue_) <= Cardinality({c \in Consumers : at[c] \in {"notified", "overdue"}})

\* The condition variables hold each sleeping fiber once, and besides them only
\* fibers past their deadline that have not run since.
SleepersAreLinked ==
    \A role \in {<<Producers, not_full_>>, <<Consumers, not_empty_>>} :
        LET Linked == ToSet(role[2])
            Waiting == {f \in role[1] : at[f] = "waits"} IN
            /\ IsInjective(role[2])
            /\ Waiting \subseteq Linked
            /\ Linked \subseteq Waiting \cup {f \in role[1] : at[f] = "overdue"}

===============================================================================
