------------------------------- MODULE IOPoller -------------------------------
(***************************************************************************)
(* Input and output on one reactor: IOPoller and its ring of messages, the *)
(* operations of File, StreamServerSocket and StreamSocketConnection, and  *)
(* the fibers that wait in them.  The event loop polls, finishes what the  *)
(* ring holds and yields; ready contexts take turns in order.  Messages    *)
(* from other reactors are in module Reactor; the dispatcher, which runs   *)
(* between two contexts, and fibers that end are left out.                 *)
(*                                                                         *)
(* The kernel is external: it accepts some, none or all blocks of a        *)
(* submission, completes them in any order, and reports, level-triggered,  *)
(* the descriptors that are ready.  Accepted connections are blocking: a   *)
(* read() without data stops the thread.                                   *)
(***************************************************************************)
EXTENDS Integers, Sequences, FiniteSets, SequencesExt, FiniteSetsExt

CONSTANTS
    Fibers,
    Main,           \* the main context, which runs the event loop
    NoFiber,
    BatchSize,      \* BATCH_SIZE
    Capacity,       \* slots of ring_buffer_
    MaxBlocks,      \* bound: operations in one batch
    MaxClients,     \* bound: clients that connect (a second one would have epoll
                    \* report the message of an accept() that has returned)
    Eager           \* clients send what and when they like, and may close; otherwise
                    \* each sends what is read, when it is read

ASSUME PollerAssumption ==
    /\ IsFiniteSet(Fibers) /\ Main \notin Fibers /\ NoFiber \notin Fibers
    /\ BatchSize \in Nat \ {0} /\ Capacity \in Nat \ {0}
    /\ MaxBlocks \in Nat \ {0} /\ MaxClients \in Nat /\ Eager \in BOOLEAN

VARIABLES
    active, ready, wait_queue_,     \* of the reactor's scheduler
    ring_buffer_,   \* messages polled and not finished
    polled,         \* the loop is past poll() in this turn
    op,             \* the operation each fiber is in
    left,           \* blocks of its batch that are not submitted
    remaining_,     \* events its FileMultiIOMessage waits for
    inflight,       \* its blocks that the kernel works on
    completed,      \* io_events that nobody has fetched, by fiber
    watched,        \* whose message epoll reports for the listening socket
    backlog,        \* clients that wait to be accepted
    clients,        \* clients that have connected
    connected,      \* the fibers that have a StreamSocketConnection
    readable,       \* those whose client has sent something or has closed
    count_          \* of the socket messages of each fiber

scheduling == <<active, ready, wait_queue_>>
loop == <<ring_buffer_, polled>>
fileVars == <<left, remaining_, inflight, completed>>
socketVars == <<watched, backlog, clients, connected, readable, count_>>
vars == <<scheduling, loop, op, fileVars, socketVars>>

\* A message in the ring: a file operation's, an accept()'s, a connection's.
Message == [kind : {"file", "accept", "connection"}, fiber : Fibers]
Msg(kind, f) == [kind |-> kind, fiber |-> f]

\* count_ is a size_t; it is not decremented 2^64 times.
Wrapped == 2
Decremented(n) == IF n = 1 THEN 0 ELSE Wrapped

TypeOK ==
    /\ active \in Fibers \cup {Main}
    /\ ready \in Seq(Fibers \cup {Main}) /\ wait_queue_ \subseteq Fibers
    /\ ring_buffer_ \in Seq(Message) /\ polled \in BOOLEAN
    /\ op \in [Fibers -> {"none", "single", "batch", "accept", "read", "write"}]
    /\ left \in [Fibers -> 0 .. MaxBlocks] /\ remaining_ \in [Fibers -> 0 .. MaxBlocks]
    /\ inflight \in [Fibers -> 0 .. MaxBlocks] /\ completed \in Seq(Fibers)
    /\ watched \in Fibers \cup {NoFiber}
    /\ backlog \in 0 .. MaxClients /\ clients \in 0 .. MaxClients
    /\ connected \subseteq Fibers /\ readable \subseteq connected
    /\ count_ \in [{"accept", "connection"} -> [Fibers -> 0 .. Wrapped]]

Init ==
    /\ active = Main
    /\ ready = SetToSeq(Fibers) /\ wait_queue_ = {}
    /\ ring_buffer_ = <<>> /\ polled = FALSE
    /\ op = [f \in Fibers |-> "none"]
    /\ left = [f \in Fibers |-> 0] /\ remaining_ = [f \in Fibers |-> 0]
    /\ inflight = [f \in Fibers |-> 0] /\ completed = <<>>
    /\ watched = NoFiber /\ backlog = 0 /\ clients = 0
    /\ connected = {} /\ readable = {}
    /\ count_ = [k \in {"accept", "connection"} |-> [f \in Fibers |-> 0]]

-------------------------------------------------------------------------------
(***************************************************************************)
(* The kernel and the clients                                              *)
(***************************************************************************)

Complete(f) ==
    /\ inflight[f] > 0
    /\ inflight' = [inflight EXCEPT ![f] = @ - 1]
    /\ completed' = Append(completed, f)
    /\ UNCHANGED <<scheduling, loop, op, left, remaining_, socketVars>>

Connect ==
    /\ clients < MaxClients
    /\ clients' = clients + 1 /\ backlog' = backlog + 1
    /\ UNCHANGED <<scheduling, loop, op, fileVars, watched, connected, readable, count_>>

Arrive(f) ==
    /\ f \in connected \ readable
    /\ Eager \/ op[f] = "read"
    /\ readable' = readable \cup {f}
    /\ UNCHANGED <<scheduling, loop, op, fileVars, watched, backlog, clients, connected, count_>>

-------------------------------------------------------------------------------
(***************************************************************************)
(* The event loop                                                          *)
(***************************************************************************)

\* What epoll has to report besides the eventfd.  The eventfd is never read,
\* and is watched for output as well, so it is always ready.
SocketEvents ==
    {Msg("connection", f) : f \in readable}
      \cup {Msg("accept", f) : f \in IF backlog > 0 THEN {watched} \ {NoFiber} ELSE {}}

FreeSlots == Capacity - Len(ring_buffer_)

FreeForFiles(others) == FreeSlots - others

\* poll(): epoll_pwait() fills what room there is with any of the descriptors that
\* are ready, and the file events are where the eventfd is among the others.
Poll ==
    /\ active = Main /\ ~polled
    /\ LET max == Min({FreeSlots, BatchSize})
       IN \E reported \in SUBSET SocketEvents, eventfd \in BOOLEAN :
            /\ Cardinality(reported) + (IF eventfd THEN 1 ELSE 0)
                 = Min({Cardinality(SocketEvents) + 1, max})
            /\ LET files == IF eventfd
                              THEN Min({Len(completed), BatchSize, FreeForFiles(Cardinality(reported))})
                              ELSE 0
                   fileMessages == [i \in 1 .. files |-> Msg("file", completed[i])]
               IN /\ completed' = SubSeq(completed, files + 1, Len(completed))
                  /\ \E before \in SUBSET reported :
                       ring_buffer_' = ring_buffer_ \o SetToSeq(before) \o fileMessages
                                                    \o SetToSeq(reported \ before)
    /\ polled' = TRUE
    /\ UNCHANGED <<scheduling, op, left, remaining_, inflight, socketVars>>

\* ready_unlink()
Without(queue, f) ==
    IF f \in ToSet(queue)
      THEN RemoveAt(queue, CHOOSE i \in DOMAIN queue : queue[i] = f) ELSE queue

\* Scheduler::resume() and set_ready().
Resume(f) ==
    /\ wait_queue_' = wait_queue_ \ {f}
    /\ ready' = Append(Without(ready, f), f)
    /\ UNCHANGED active

\* mutant: the first event of a batch ends the wait
AnyEvent(f) == TRUE
LastEvent(f) == remaining_[f] - 1 = 0

\* finish() of the next message in the ring.
FinishFile(f) ==
    /\ IF op[f] = "batch"
         THEN /\ remaining_' = [remaining_ EXCEPT ![f] = @ - 1]
              /\ IF LastEvent(f) THEN Resume(f) ELSE UNCHANGED scheduling
         ELSE Resume(f) /\ UNCHANGED remaining_
    /\ UNCHANGED count_

FinishSocket(kind, f) ==
    /\ count_' = [count_ EXCEPT ![kind][f] = Decremented(@)]
    /\ IF count_[kind][f] = 1 THEN Resume(f) ELSE UNCHANGED scheduling
    /\ UNCHANGED remaining_

Finish ==
    /\ active = Main /\ polled
    /\ ring_buffer_ # <<>>
    /\ LET m == Head(ring_buffer_)
       IN IF m.kind = "file" THEN FinishFile(m.fiber) ELSE FinishSocket(m.kind, m.fiber)
    /\ ring_buffer_' = Tail(ring_buffer_)
    /\ UNCHANGED <<polled, op, left, inflight, completed, watched, backlog, clients, connected, readable>>

\* Some context is left for the next one in the ready queue.
SwitchFrom(back) ==
    LET queue == ready \o back
    IN active' = Head(queue) /\ ready' = Tail(queue)

EndTurn ==
    /\ active = Main /\ polled
    /\ ring_buffer_ = <<>>
    /\ SwitchFrom(<<Main>>)
    /\ polled' = FALSE
    /\ UNCHANGED <<wait_queue_, ring_buffer_, op, fileVars, socketVars>>

-------------------------------------------------------------------------------
(***************************************************************************)
(* Files                                                                   *)
(***************************************************************************)

Runs(f) == active = f /\ op[f] = "none"

Yield(f) ==
    /\ Runs(f)
    /\ SwitchFrom(<<f>>)
    /\ UNCHANGED <<wait_queue_, loop, op, fileVars, socketVars>>

\* message.wait_for()
Suspend(f) ==
    /\ wait_queue_' = wait_queue_ \cup {f}
    /\ SwitchFrom(<<>>)

Sum(g) == MapThenSumSet(LAMBDA f : g[f], Fibers)

\* External: io_submit() accepts n of at most `most' blocks, io_setup() having
\* made room for BatchSize that are not fetched.
Accepts(f, n, most) ==
    /\ n \in 1 .. most
    /\ Sum(inflight) + Len(completed) + n <= BatchSize
    /\ inflight' = [inflight EXCEPT ![f] = @ + n]
    /\ UNCHANGED completed

\* process_single_io(); one that is refused throws and changes nothing.
StartSingle(f) ==
    /\ Runs(f)
    /\ Accepts(f, 1, 1)
    /\ op' = [op EXCEPT ![f] = "single"]
    /\ Suspend(f)
    /\ UNCHANGED <<loop, left, remaining_, socketVars>>

EndSingle(f) ==
    /\ active = f /\ op[f] = "single"
    /\ op' = [op EXCEPT ![f] = "none"]
    /\ UNCHANGED <<scheduling, loop, fileVars, socketVars>>

\* process_batch()
StartBatch(f, blocks) ==
    /\ Runs(f)
    /\ op' = [op EXCEPT ![f] = "batch"]
    /\ left' = [left EXCEPT ![f] = blocks]
    /\ remaining_' = [remaining_ EXCEPT ![f] = blocks]
    /\ UNCHANGED <<scheduling, loop, inflight, completed, socketVars>>

\* mutant: the message goes on waiting for all blocks of the batch
WholeBatch(f, n) == remaining_[f]
Submitted(f, n) == n

\* What was accepted is waited for, and the rest submitted after that.
SubmitSome(f, n) ==
    /\ active = f /\ op[f] = "batch" /\ left[f] > 0
    /\ Accepts(f, n, left[f])
    /\ left' = [left EXCEPT ![f] = @ - n]
    /\ remaining_' = [remaining_ EXCEPT ![f] = Submitted(f, n)]
    /\ Suspend(f)
    /\ UNCHANGED <<loop, op, socketVars>>

\* All blocks are done, or the kernel refuses the next, which is an exception
\* or a return.
EndBatch(f) ==
    /\ active = f /\ op[f] = "batch"
    /\ op' = [op EXCEPT ![f] = "none"]
    /\ left' = [left EXCEPT ![f] = 0]
    /\ remaining_' = [remaining_ EXCEPT ![f] = 0]
    /\ UNCHANGED <<scheduling, loop, inflight, completed, socketVars>>

-------------------------------------------------------------------------------
(***************************************************************************)
(* Sockets                                                                 *)
(***************************************************************************)

\* accept() finds a client; the message of an earlier wait stays registered.
\* The connection registers its own.
Accept(f) ==
    /\ active = f /\ op[f] \in {"none", "accept"} /\ f \notin connected
    /\ backlog > 0
    /\ backlog' = backlog - 1
    /\ connected' = connected \cup {f}
    /\ count_' = [count_ EXCEPT !["connection"][f] = 1]
    /\ op' = [op EXCEPT ![f] = "none"]
    /\ UNCHANGED <<scheduling, loop, fileVars, watched, clients, readable>>

\* It finds none, and registers a message for the listening socket.
AcceptWaits(f) ==
    /\ active = f /\ op[f] \in {"none", "accept"} /\ f \notin connected
    /\ backlog = 0 /\ watched = NoFiber
    /\ watched' = f
    /\ count_' = [count_ EXCEPT !["accept"][f] = 1]
    /\ op' = [op EXCEPT ![f] = "accept"]
    /\ Suspend(f)
    /\ UNCHANGED <<loop, fileVars, backlog, clients, connected, readable>>

\* It finds none and the socket is registered already: EPOLL_CTL_ADD fails.
AcceptThrows(f) ==
    /\ active = f /\ op[f] = "accept"
    /\ backlog = 0 /\ watched # NoFiber
    /\ op' = [op EXCEPT ![f] = "none"]
    /\ UNCHANGED <<scheduling, loop, fileVars, socketVars>>

StartTransfer(f, o) ==
    /\ Runs(f) /\ f \in connected
    /\ op' = [op EXCEPT ![f] = o]
    /\ UNCHANGED <<scheduling, loop, fileVars, socketVars>>

\* ::read() or ::write() returns and the call with it, or the number of bytes
\* happens to be EAGAIN and the fiber waits.  A read() may leave bytes behind, and
\* always leaves the end of what a client has sent that closed.
Transfer(f) ==
    /\ active = f
    /\ \/ op[f] = "read" /\ f \in readable
       \/ op[f] = "write"
    /\ \/ op[f] = "read" /\ readable' = readable \ {f}
       \/ (Eager \/ op[f] = "write") /\ UNCHANGED readable
    /\ \/ op' = [op EXCEPT ![f] = "none"] /\ UNCHANGED scheduling
       \/ Suspend(f) /\ UNCHANGED op
    /\ UNCHANGED <<loop, fileVars, watched, backlog, clients, connected, count_>>

Close(f) ==
    /\ Runs(f) /\ f \in connected
    /\ connected' = connected \ {f} /\ readable' = readable \ {f}
    /\ UNCHANGED <<scheduling, loop, op, fileVars, watched, backlog, clients, count_>>

-------------------------------------------------------------------------------
EventLoop == Poll \/ Finish \/ EndTurn

FileStep(f) ==
    \/ StartSingle(f) \/ EndSingle(f)
    \/ \E n \in 1 .. MaxBlocks : StartBatch(f, n) \/ SubmitSome(f, n)
    \/ EndBatch(f)

SocketStep(f) ==
    \/ Accept(f) \/ AcceptWaits(f) \/ AcceptThrows(f)
    \/ StartTransfer(f, "read") \/ StartTransfer(f, "write")
    \/ Transfer(f) \/ Close(f)

Thread == EventLoop \/ \E f \in Fibers : Yield(f) \/ FileStep(f) \/ SocketStep(f)

Next == Thread \/ Connect \/ \E f \in Fibers : Complete(f) \/ Arrive(f)

\* The thread runs, fibers give it up some day, and the kernel completes what
\* it accepted.
Spec ==
    /\ Init /\ [][Next]_vars
    /\ WF_vars(Thread)
    /\ \A f \in Fibers : SF_vars(Yield(f)) /\ WF_vars(Complete(f))

-------------------------------------------------------------------------------
(***************************************************************************)
(* Properties                                                              *)
(***************************************************************************)

\* No push_front() finds the ring full.
RingHasRoom == Len(ring_buffer_) <= Capacity

\* The events that the kernel still has for a message or that the ring holds
\* are those its fiber waits for: none when the fiber is not suspended in a file
\* operation, since the message and the blocks are on its stack.
Outstanding(f) ==
    inflight[f] + Cardinality({i \in DOMAIN completed : completed[i] = f})
      + Cardinality({i \in DOMAIN ring_buffer_ : ring_buffer_[i] = Msg("file", f)})

EventsAccountedFor ==
    /\ TypeOK
    /\ \A f \in Fibers :
         Outstanding(f) = IF f \notin wait_queue_ THEN 0
                          ELSE CASE op[f] = "single" -> 1
                                 [] op[f] = "batch" -> remaining_[f]
                                 [] OTHER -> 0

\* A message resumes a fiber that is suspended in the operation it stands for.
WakesTheWaiter ==
    polled => \A f \in Fibers, i \in DOMAIN ring_buffer_ :
        /\ ring_buffer_[i] = Msg("file", f) => f \in wait_queue_ /\ op[f] \in {"single", "batch"}
        /\ ring_buffer_[i] = Msg("accept", f) => f \in wait_queue_ /\ op[f] = "accept"
        /\ ring_buffer_[i] = Msg("connection", f) /\ count_["connection"][f] = 1
             => f \in wait_queue_ /\ op[f] \in {"read", "write"}
===============================================================================
