------------------------------ MODULE MCChannels -------------------------------
(***************************************************************************)
(* Fibers of one thread that use one channel, of a kind chosen at the      *)
(* start: a buffered_channel with push() and pop() only, and one with      *)
(* every call; an unbuffered_channel without and with deadlines; a         *)
(* bounded_channel and an unbounded_channel with deadlines.                *)
(* The kinds share the variables that mean the same in all of them.        *)
(***************************************************************************)
EXTENDS BufferedChannel, TLC

CONSTANTS NoFiber, Hwm, Lwm, MaxSize

VARIABLES
    kind,
    slot_, taken, status, destroyed,            \* of UnbufferedChannel
    queue_, not_empty_, not_full_               \* of QueueChannel

slotVars == <<slot_, taken, status, destroyed>>
listVars == <<queue_, not_empty_, not_full_>>
channelsVars == <<kind, vars, slotVars, listVars>>

Waiting == INSTANCE BufferedChannel WITH Timed <- {}, Trying <- {}
Rendezvous == INSTANCE UnbufferedChannel WITH Timed <- {}
TimedRendezvous == INSTANCE UnbufferedChannel
BoundedQueue == INSTANCE QueueChannel WITH Bounded <- TRUE
UnboundedQueue == INSTANCE QueueChannel WITH Bounded <- FALSE, Hwm <- MaxSize, Lwm <- 0

ASSUME ChannelsAssumption ==
    /\ Rendezvous!ChannelAssumption /\ TimedRendezvous!ChannelAssumption
    /\ BoundedQueue!WatermarkAssumption /\ BoundedQueue!QueueChannelAssumption
    /\ UnboundedQueue!WatermarkAssumption /\ UnboundedQueue!QueueChannelAssumption

ChannelsInit ==
    /\ kind \in {"ring", "ring, every call", "rendezvous", "timed rendezvous",
                 "bounded queue", "unbounded queue"}
    /\ Init /\ TimedRendezvous!Init /\ BoundedQueue!Init

ChannelsNext ==
    /\ UNCHANGED kind
    /\ \/ kind = "ring" /\ Waiting!Next /\ UNCHANGED <<slotVars, listVars>>
       \/ kind = "ring, every call" /\ Next /\ UNCHANGED <<slotVars, listVars>>
       \/ kind = "rendezvous" /\ Rendezvous!Next /\ UNCHANGED <<ringVars, value, listVars>>
       \/ kind = "timed rendezvous" /\ TimedRendezvous!Next /\ UNCHANGED <<ringVars, value, listVars>>
       \/ /\ kind = "bounded queue" /\ BoundedQueue!Next
          /\ UNCHANGED <<producer_idx_, consumer_idx_, cycle, storage, queueVars, slotVars>>
       \/ /\ kind = "unbounded queue" /\ UnboundedQueue!Next
          /\ UNCHANGED <<producer_idx_, consumer_idx_, cycle, storage, queueVars, slotVars>>

\* What c does next once it is ready again.
GoesOn(c) ==
    /\ UNCHANGED kind
    /\ \/ kind = "ring" /\ Waiting!PopAgain(c) /\ UNCHANGED <<slotVars, listVars>>
       \/ kind = "rendezvous" /\ Rendezvous!PopAgain(c) /\ UNCHANGED <<ringVars, value, listVars>>
       \/ /\ kind = "bounded queue" /\ (BoundedQueue!PopResumes(c) \/ BoundedQueue!PopTimesOut(c))
          /\ UNCHANGED <<producer_idx_, consumer_idx_, cycle, storage, queueVars, slotVars>>

\* Ready fibers run some day.
ChannelsSpec ==
    ChannelsInit /\ [][ChannelsNext]_channelsVars /\ \A c \in Consumers : WF_channelsVars(GoesOn(c))

--------------------------------------------------------------------------------

IsRing == kind \in {"ring", "ring, every call"}
IsRendezvous == kind \in {"rendezvous", "timed rendezvous"}

ChannelsTypeOK ==
    CASE IsRing -> TypeOK
      [] IsRendezvous -> TimedRendezvous!TypeOK
      [] kind = "bounded queue" -> BoundedQueue!TypeOK
      [] kind = "unbounded queue" -> UnboundedQueue!TypeOK

\* Nobody sleeps beside room for its value, or beside a value, that no fiber
\* which was woken will look for; the ring's cycles tell exactly when there is
\* room and when there is a value.
NobodySleepsBesideWork ==
    CASE kind = "ring" -> NobodyIsStranded /\ CyclesTellCount
      [] kind = "ring, every call" -> CyclesTellCount
      [] kind = "rendezvous" -> Rendezvous!NobodyIsStranded /\ Rendezvous!ClosedKeepsNobody
      [] kind = "bounded queue" ->
            BoundedQueue!SleepersAwaitLowWatermark /\ BoundedQueue!ValuesAwaitNobody
      [] kind = "unbounded queue" -> UnboundedQueue!ValuesAwaitNobody
      [] OTHER -> TRUE

\* The wait queues hold each suspended fiber once, and besides them only fibers
\* past their deadline that have not run since.
EverySleeperIsLinked ==
    /\ ChannelsTypeOK
    /\ CASE IsRing -> WaitersAreQueued
         [] IsRendezvous -> TimedRendezvous!WaitersAreQueued
         [] OTHER -> BoundedQueue!SleepersAreLinked

\* Every channel with a buffer is a FIFO queue of its capacity, and only
\* bounded_channel accepts a value after close(): one that a producer brought
\* before and waited with.
BuffersInOrder ==
    /\ AsChannel!Init /\ BoundedQueue!AsChannel!Init
    /\ [][IsRing => AsChannel!Next]_(AsChannel!channelVars)
    /\ [][kind = "bounded queue" => BoundedQueue!AsChannel!Next]_(BoundedQueue!AsChannel!channelVars)
    /\ [][kind = "unbounded queue" => UnboundedQueue!AsChannel!Next]_(UnboundedQueue!AsChannel!channelVars)

\* close() lets every consumer go that waits.
CloseEndsPops ==
    \A c \in Consumers :
        kind \in {"ring", "rendezvous", "bounded queue"} /\ closed_ /\ at[c] # "runs" ~> at[c] = "runs"

\* A push() of an unbuffered_channel answers what became of its value; and slot_
\* points to the stack of a producer that is still inside its push, with a value
\* that nobody has got.
AnswerIsTrue ==
    /\ TimedRendezvous!SuccessMeansConsumed /\ TimedRendezvous!ClosedMeansNotConsumed
    /\ TimedRendezvous!SlotIsAlive
================================================================================
