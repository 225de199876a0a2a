--------------------------- MODULE UnbufferedChannel ---------------------------
(***************************************************************************)
(* unbuffered_channel: a push() puts the address of a slot on its own      *)
(* stack into slot_ and suspends until a pop() has taken the value.        *)
(* Producers that find slot_ in use and consumers that find it empty queue *)
(* up.  The fibers of Timed call push_wait_until() and pop_wait_until().   *)
(*                                                                         *)
(* The fibers share a thread and the spinlock is empty, so an action is    *)
(* all that a fiber does between two context switches; the value is known  *)
(* by the producer that pushes it.                                         *)
(***************************************************************************)
EXTENDS Naturals, Sequences, SequencesExt

CONSTANTS
    Producers, Consumers,
    NoFiber,        \* nullptr
    Timed           \* the fibers that give a deadline

Fibers == Producers \cup Consumers

ChannelAssumption ==
    /\ Producers \cap Consumers = {}
    /\ NoFiber \notin Fibers
    /\ Timed \subseteq Fibers

VARIABLES
    slot_,                  \* the producer whose slot it points to, or NoFiber
    closed_,
    waiting_producers_, waiting_consumers_,
    at,                     \* where each fiber is
    taken,                  \* has a consumer got the value of the producer's last push?
    status,                 \* what the producer's last push returned
    destroyed               \* ~unbuffered_channel() has run

vars == <<slot_, closed_, waiting_producers_, waiting_consumers_, at, taken, status, destroyed>>

\* runs: outside the channel; offers: suspended with its slot in slot_; waits:
\* suspended in a wait queue; ready: made ready out of a wait queue; consumed:
\* made ready because its slot was taken; offerExpired, waitExpired: made ready
\* by its deadline.
Places == {"runs", "offers", "waits", "ready", "consumed", "offerExpired", "waitExpired"}

TypeOK ==
    /\ slot_ \in Producers \cup {NoFiber}
    /\ closed_ \in BOOLEAN /\ destroyed \in BOOLEAN
    /\ waiting_producers_ \in Seq(Producers)
    /\ waiting_consumers_ \in Seq(Consumers)
    /\ at \in [Fibers -> Places]
    /\ \A c \in Consumers : at[c] \notin {"offers", "consumed", "offerExpired"}
    /\ taken \in [Producers -> BOOLEAN]
    /\ status \in [Producers -> {"none", "success", "closed", "timeout"}]

Init ==
    /\ slot_ = NoFiber /\ closed_ = FALSE /\ destroyed = FALSE
    /\ waiting_producers_ = <<>> /\ waiting_consumers_ = <<>>
    /\ at = [f \in Fibers |-> "runs"]
    /\ taken = [p \in Producers |-> FALSE]
    /\ status = [p \in Producers |-> "none"]

\* set_ready(): a fiber whose deadline has already passed stays as ready as it is.
Readied(place) ==
    CASE place = "waits" -> "ready"
      [] place = "offers" -> "consumed"
      [] OTHER -> place

\* The fiber that "notify one waiting" takes off a queue.
NotifyOne(queue) == IF queue = <<>> THEN {} ELSE {Head(queue)}

Popped(queue) == IF queue = <<>> THEN <<>> ELSE Tail(queue)

Without(queue, f) ==
    IF f \in ToSet(queue)
      THEN RemoveAt(queue, CHOOSE i \in DOMAIN queue : queue[i] = f) ELSE queue

WakeUp(fibers, f, place) ==
    at' = [g \in Fibers |->
             IF g = f THEN place ELSE IF g \in fibers THEN Readied(at[g]) ELSE at[g]]

\* The loop of push() and push_wait_until(), from its top to the next context
\* switch.
Refused(p) ==
    /\ closed_
    /\ status' = [status EXCEPT ![p] = "closed"]
    /\ at' = [at EXCEPT ![p] = "runs"]
    /\ UNCHANGED <<slot_, waiting_producers_, waiting_consumers_>>

Offer(p) ==
    /\ ~closed_
    /\ slot_ = NoFiber
    /\ slot_' = p
    /\ waiting_consumers_' = Popped(waiting_consumers_)
    /\ WakeUp(NotifyOne(waiting_consumers_), p, "offers")
    /\ UNCHANGED <<waiting_producers_, status>>

WaitForSlot(p) ==
    /\ ~closed_
    /\ slot_ # NoFiber
    /\ waiting_producers_' = Append(waiting_producers_, p)
    /\ at' = [at EXCEPT ![p] = "waits"]
    /\ UNCHANGED <<slot_, waiting_consumers_, status>>

TryPush(p) ==
    /\ Refused(p) \/ Offer(p) \/ WaitForSlot(p)
    /\ UNCHANGED <<closed_, destroyed>>

Push(p) ==
    /\ ~destroyed
    /\ at[p] = "runs"
    /\ taken' = [taken EXCEPT ![p] = FALSE]
    /\ TryPush(p)

PushAgain(p) ==
    /\ at[p] = "ready"
    /\ TryPush(p)
    /\ UNCHANGED taken

\* The end of a push: its slot was taken, and the clock does not say otherwise.
PushReturns(p) ==
    /\ at[p] = "consumed"
    /\ at' = [at EXCEPT ![p] = "runs"]
    /\ status' = [status EXCEPT ![p] = "success"]
    /\ UNCHANGED <<slot_, closed_, waiting_producers_, waiting_consumers_, taken, destroyed>>

\* mutant: a push that times out leaves slot_ as it is
LeaveSlot(p) == slot_
ClearSlot(p) == IF slot_ = p THEN NoFiber ELSE slot_

\* The deadline is over when the fiber runs again: wait_until() was false.
PushTimesOut(p) ==
    /\ p \in Timed
    /\ \/ at[p] \in {"consumed", "offerExpired"} /\ slot_' = ClearSlot(p)
       \/ at[p] \in {"ready", "waitExpired"} /\ UNCHANGED slot_
    /\ waiting_producers_' = Without(waiting_producers_, p)
    /\ at' = [at EXCEPT ![p] = "runs"]
    /\ status' = [status EXCEPT ![p] = "timeout"]
    /\ UNCHANGED <<closed_, waiting_consumers_, taken, destroyed>>

HasValue == slot_ # NoFiber

\* The loop of pop(), value_pop() and pop_wait_until().
Take(c) ==
    /\ HasValue
    /\ slot_' = NoFiber
    /\ taken' = [taken EXCEPT ![slot_] = TRUE]
    /\ waiting_producers_' = Popped(waiting_producers_)
    /\ WakeUp(NotifyOne(waiting_producers_) \cup {slot_}, c, "runs")
    /\ UNCHANGED waiting_consumers_

Closed(c) ==
    /\ ~HasValue /\ closed_
    /\ at' = [at EXCEPT ![c] = "runs"]
    /\ UNCHANGED <<slot_, taken, waiting_producers_, waiting_consumers_>>

WaitForValue(c) ==
    /\ ~HasValue /\ ~closed_
    /\ waiting_consumers_' = Append(waiting_consumers_, c)
    /\ at' = [at EXCEPT ![c] = "waits"]
    /\ UNCHANGED <<slot_, taken, waiting_producers_>>

TryPop(c) ==
    /\ Take(c) \/ Closed(c) \/ WaitForValue(c)
    /\ UNCHANGED <<closed_, status, destroyed>>

Pop(c) ==
    /\ ~destroyed
    /\ at[c] = "runs"
    /\ TryPop(c)

PopAgain(c) ==
    /\ at[c] = "ready"
    /\ TryPop(c)

PopTimesOut(c) ==
    /\ c \in Timed
    /\ at[c] \in {"ready", "waitExpired"}
    /\ waiting_consumers_' = Without(waiting_consumers_, c)
    /\ at' = [at EXCEPT ![c] = "runs"]
    /\ UNCHANGED <<slot_, closed_, waiting_producers_, taken, status, destroyed>>

\* The dispatcher makes a fiber ready whose deadline is reached; the fiber
\* stays where it is linked.
Expire(f) ==
    /\ f \in Timed
    /\ at[f] \in {"offers", "waits"}
    /\ at' = [at EXCEPT ![f] = IF @ = "offers" THEN "offerExpired" ELSE "waitExpired"]
    /\ UNCHANGED <<slot_, closed_, waiting_producers_, waiting_consumers_, taken, status, destroyed>>

AllWaiting == ToSet(waiting_producers_) \cup ToSet(waiting_consumers_)

\* A producer that offers is in no queue: close() does not wake it.
Close(f) ==
    /\ ~destroyed /\ ~closed_
    /\ at[f] = "runs"
    /\ closed_' = TRUE
    /\ waiting_producers_' = <<>> /\ waiting_consumers_' = <<>>
    /\ WakeUp(AllWaiting, f, "runs")
    /\ UNCHANGED <<slot_, taken, status, destroyed>>

\* ~unbuffered_channel() closes the channel and lets go of the producer that
\* still offers; nobody else may be inside, nor a producer with a deadline,
\* which touches slot_ once more.
Destroy ==
    /\ ~destroyed
    /\ \A f \in Fibers : at[f] = "runs" \/ (at[f] = "offers" /\ f \notin Timed)
    /\ destroyed' = TRUE /\ closed_' = TRUE
    /\ slot_' = NoFiber
    /\ at' = [f \in Fibers |-> Readied(at[f])]
    /\ UNCHANGED <<waiting_producers_, waiting_consumers_, taken, status>>

\* Another channel takes its place.
Construct ==
    /\ destroyed
    /\ \A f \in Fibers : at[f] = "runs"
    /\ slot_' = NoFiber /\ closed_' = FALSE /\ destroyed' = FALSE
    /\ taken' = [p \in Producers |-> FALSE]
    /\ status' = [p \in Producers |-> "none"]
    /\ UNCHANGED <<waiting_producers_, waiting_consumers_, at>>

Next ==
    \/ \E p \in Producers :
          Push(p) \/ PushAgain(p) \/ PushReturns(p) \/ PushTimesOut(p)
    \/ \E c \in Consumers : Pop(c) \/ PopAgain(c) \/ PopTimesOut(c)
    \/ \E f \in Fibers : Expire(f) \/ Close(f)
    \/ Destroy \/ Construct

\* Ready fibers run some day, and consumers come back for more.
Fairness ==
    /\ \A p \in Producers :
          /\ WF_vars(PushAgain(p)) /\ WF_vars(PushReturns(p)) /\ WF_vars(PushTimesOut(p))
    /\ \A c \in Consumers : WF_vars(Pop(c)) /\ WF_vars(PopAgain(c))

Spec == Init /\ [][Next]_vars /\ Fairness

-------------------------------------------------------------------------------

\* slot_ points into the stack of a fiber: of one that is still inside its
\* push, suspended or past its deadline, with a value nobody has got.
SlotIsAlive ==
    slot_ # NoFiber => at[slot_] \in {"offers", "offerExpired"} /\ ~taken[slot_]

\* The wait queues hold each suspended fiber once, and besides them only fibers
\* past their deadline that have not run since.
WaitersAreQueued ==
    \A role \in {<<Producers, waiting_producers_>>, <<Consumers, waiting_consumers_>>} :
        LET Linked == ToSet(role[2]) IN
            /\ IsInjective(role[2])
            /\ {f \in role[1] : at[f] = "waits"} \subseteq Linked
            /\ Linked \subseteq {f \in role[1] : at[f] \in {"waits", "waitExpired"}}

\* Without deadlines nobody is left behind: while the slot is free and a
\* producer waits for it, or the slot is filled and a consumer waits, some
\* fiber of that side has been notified and will look again.
NobodyIsStranded ==
    /\ slot_ = NoFiber /\ waiting_producers_ # <<>> =>
           \E p \in Producers : at[p] = "ready"
    /\ slot_ # NoFiber /\ waiting_consumers_ # <<>> =>
           \E c \in Consumers : at[c] = "ready"

\* A push that returned success has handed over its value, as long as the
\* channel exists.
SuccessMeansConsumed ==
    \A p \in Producers : at[p] = "runs" /\ status[p] = "success" /\ ~destroyed => taken[p]

\* No value is handed over by a push that was refused.
ClosedMeansNotConsumed ==
    \A p \in Producers : at[p] = "runs" /\ status[p] = "closed" => ~taken[p]

\* Nobody waits in the queues of a closed channel.
ClosedKeepsNobody ==
    closed_ => \A f \in Fibers : at[f] # "waits"

===============================================================================
