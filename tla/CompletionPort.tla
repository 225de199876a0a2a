----------------------------- MODULE CompletionPort -----------------------------
(***************************************************************************)
(* Input and output of the Windows build, which keeps the reactor, its     *)
(* scheduler and its ring of messages (module IOPoller) and replaces the   *)
(* poller by a completion port.  Every call counts the events it waits for *)
(* in an AIOMessage on its stack.  The kernel queues a completion for each *)
(* operation it has accepted, at once or later; it may refuse one because  *)
(* it lacks resources or for another error.                                *)
(***************************************************************************)
EXTENDS IOPoller

CONSTANT PollLimit      \* completions that poll() takes at once: 10

ASSUME PortAssumption == PollLimit \in Nat \ {0}

VARIABLES
    windows,        \* the build
    scarce,         \* the kernel may lack resources
    wait_num,       \* operations of its batch that the fiber has started
    aio_count,      \* count_ of its AIOMessage
    asleep          \* the fibers that wait for resources to appear

portVars == <<wait_num, aio_count, asleep>>
allVars == <<windows, scarce, vars, portVars>>

\* size_t, and an underflow is not counted down again
Huge == MaxBlocks + 1
LessOne(n) == IF n = 0 THEN Huge ELSE IF n = Huge THEN Huge ELSE n - 1

PortTypeOK ==
    /\ windows \in BOOLEAN /\ scarce \in BOOLEAN
    /\ wait_num \in [Fibers -> 0 .. MaxBlocks]
    /\ aio_count \in [Fibers -> 0 .. Huge]
    /\ asleep \subseteq Fibers

PortInit ==
    /\ Init
    /\ windows \in BOOLEAN /\ scarce \in {FALSE, windows}
    /\ wait_num = [f \in Fibers |-> 0]
    /\ aio_count = [f \in Fibers |-> 0]
    /\ asleep = {}

-------------------------------------------------------------------------------
(***************************************************************************)
(* The event loop                                                          *)
(***************************************************************************)

\* poll() takes completions in their order, as long as the ring has room.
PollPort ==
    /\ active = Main /\ ~polled
    /\ LET n == Min({Len(completed), FreeSlots, PollLimit})
       IN /\ ring_buffer_' = ring_buffer_ \o [i \in 1 .. n |-> Msg("file", completed[i])]
          /\ completed' = SubSeq(completed, n + 1, Len(completed))
    /\ polled' = TRUE
    /\ UNCHANGED <<scheduling, op, left, remaining_, inflight, socketVars, portVars>>

\* finish() of the next message.
FinishAio ==
    /\ active = Main /\ polled
    /\ ring_buffer_ # <<>>
    /\ LET f == Head(ring_buffer_).fiber
       IN /\ aio_count' = [aio_count EXCEPT ![f] = LessOne(@)]
          /\ IF aio_count[f] = 1 THEN Resume(f) /\ asleep' = asleep \ {f}
                                 ELSE UNCHANGED <<scheduling, asleep>>
    /\ ring_buffer_' = Tail(ring_buffer_)
    /\ UNCHANGED <<polled, op, fileVars, socketVars, wait_num>>

-------------------------------------------------------------------------------
(***************************************************************************)
(* Calls                                                                   *)
(***************************************************************************)

\* read(), write() of a file or a connection: one operation; process_batch():
\* any number.  The message is made for one event.
StartCall(f, o, blocks) ==
    /\ Runs(f)
    /\ op' = [op EXCEPT ![f] = o]
    /\ left' = [left EXCEPT ![f] = blocks]
    /\ wait_num' = [wait_num EXCEPT ![f] = 0]
    /\ aio_count' = [aio_count EXCEPT ![f] = 1]
    /\ UNCHANGED <<scheduling, loop, remaining_, inflight, completed, socketVars, asleep>>

Submits(f) == active = f /\ left[f] > 0

\* ReadFile() or WriteFile() is accepted.
Submitted_(f) ==
    /\ Submits(f)
    /\ inflight' = [inflight EXCEPT ![f] = @ + 1]
    /\ left' = [left EXCEPT ![f] = @ - 1]
    /\ UNCHANGED <<loop, op, remaining_, completed, socketVars, aio_count, asleep>>

SubmitOne(f) == Submitted_(f) /\ Suspend(f) /\ UNCHANGED wait_num

SubmitBlock(f) ==
    /\ Submitted_(f)
    /\ wait_num' = [wait_num EXCEPT ![f] = @ + 1]
    /\ UNCHANGED scheduling

\* mutant: the count the message was made with is kept
CountsOne(f) == 1
Counted(f) == wait_num[f]

\* process_batch() has submitted what it could: set_count() and wait_for().
WaitForAll(f) ==
    /\ aio_count' = [aio_count EXCEPT ![f] = Counted(f)]
    /\ left' = [left EXCEPT ![f] = 0]
    /\ wait_num' = [wait_num EXCEPT ![f] = 0]
    /\ Suspend(f)
    /\ UNCHANGED <<op, loop, remaining_, inflight, completed, socketVars, asleep>>

\* All of the batch is submitted, none if it has no block.
AllSubmitted(f) ==
    /\ active = f /\ left[f] = 0
    /\ wait_num[f] > 0 \/ aio_count[f] = 1
    /\ WaitForAll(f)

\* The kernel lacks resources: "just sleep and wait for required resources to
\* appear", then try the same operation again.
SleepForResources(f) ==
    /\ scarce /\ Submits(f)
    /\ asleep' = asleep \cup {f}
    /\ Suspend(f)
    /\ UNCHANGED <<loop, op, fileVars, socketVars, wait_num, aio_count>>

\* Another error: a connection's read() or write() throws, and so may a batch
\* whose first operation fails.
SubmitThrows(f) ==
    /\ Submits(f) /\ wait_num[f] = 0
    /\ op' = [op EXCEPT ![f] = "none"]
    /\ left' = [left EXCEPT ![f] = 0]
    /\ aio_count' = [aio_count EXCEPT ![f] = 0]
    /\ UNCHANGED <<scheduling, loop, remaining_, inflight, completed, socketVars, wait_num, asleep>>

\* A batch first waits for what it has submitted.
BatchFails(f) == Submits(f) /\ wait_num[f] > 0 /\ WaitForAll(f)

\* The wait is over; the call returns or throws: so does accept() if the connection
\* cannot be associated with the completion port.
Returns(f) ==
    /\ active = f /\ op[f] # "none" /\ left[f] = 0 /\ wait_num[f] = 0
    /\ aio_count[f] = 0
    /\ op' = [op EXCEPT ![f] = "none"]
    /\ \/ op[f] = "accept" /\ connected' = connected \cup {f}
       \/ UNCHANGED connected
    /\ UNCHANGED <<scheduling, loop, fileVars, watched, backlog, clients, readable, count_, portVars>>

\* AcceptEx(), for a socket of its own; any number of fibers may wait.  One that
\* fails throws and changes nothing.
AcceptEx(f) ==
    /\ Runs(f) /\ f \notin connected
    /\ op' = [op EXCEPT ![f] = "accept"]
    /\ aio_count' = [aio_count EXCEPT ![f] = 1]
    /\ inflight' = [inflight EXCEPT ![f] = 1]
    /\ Suspend(f)
    /\ UNCHANGED <<loop, left, remaining_, completed, socketVars, wait_num, asleep>>

\* A client connects to one of those that accept.
ConnectTo(f) ==
    /\ op[f] = "accept" /\ inflight[f] = 1
    /\ clients < MaxClients
    /\ clients' = clients + 1
    /\ inflight' = [inflight EXCEPT ![f] = 0]
    /\ completed' = Append(completed, f)
    /\ UNCHANGED <<scheduling, loop, op, left, remaining_, watched, backlog, connected,
                   readable, count_, portVars>>

-------------------------------------------------------------------------------

\* The loops of the calls.  A file's read() or write() that fails ends the process.
FileCall(f) == op[f] = "single" /\ (SubmitOne(f) \/ SleepForResources(f) \/ Returns(f))

SocketCall(f) ==
    /\ op[f] \in {"read", "write"}
    /\ SubmitOne(f) \/ SleepForResources(f) \/ SubmitThrows(f) \/ Returns(f)

BatchCall(f) ==
    /\ op[f] = "batch"
    /\ \/ SubmitBlock(f) \/ SleepForResources(f) \/ SubmitThrows(f) \/ BatchFails(f)
       \/ AllSubmitted(f) \/ Returns(f)

CallStep(f) == FileCall(f) \/ SocketCall(f) \/ BatchCall(f) \/ (op[f] = "accept" /\ Returns(f))

PortThread ==
    \/ PollPort \/ FinishAio \/ (EndTurn /\ UNCHANGED portVars)
    \/ \E f \in Fibers :
          \/ Yield(f) /\ UNCHANGED portVars
          \/ StartCall(f, "single", 1)
          \/ f \in connected /\ \E o \in {"read", "write"} : StartCall(f, o, 1)
          \/ \E n \in 0 .. MaxBlocks : StartCall(f, "batch", n)
          \/ CallStep(f) \/ AcceptEx(f)
          \/ Close(f) /\ UNCHANGED portVars

Completes(f) == op[f] # "accept" /\ Complete(f) /\ UNCHANGED portVars

\* The build and the machine stay what they are.
AllNext ==
    /\ UNCHANGED <<windows, scarce>>
    /\ \/ ~windows /\ Next /\ UNCHANGED portVars
       \/ windows /\ (PortThread \/ \E f \in Fibers : Completes(f) \/ ConnectTo(f))

Runnable ==
    /\ UNCHANGED <<windows, scarce>>
    /\ \/ ~windows /\ Thread /\ UNCHANGED portVars
       \/ windows /\ PortThread

\* As on Linux: the thread runs, fibers give it up, the kernel completes.
AllSpec ==
    /\ PortInit /\ [][AllNext]_allVars
    /\ WF_allVars(Runnable)
    /\ \A f \in Fibers :
         /\ SF_allVars(UNCHANGED <<windows, scarce, portVars>> /\ Yield(f))
         /\ WF_allVars(UNCHANGED <<windows, scarce, portVars>> /\ Complete(f) /\ op[f] # "accept")

-------------------------------------------------------------------------------

\* Linux: the events that the kernel still has for a message or that the ring
\* holds are those its fiber waits for.  On both, the ring does not overflow.
EventsAreForWaiters ==
    /\ RingHasRoom
    /\ ~windows => EventsAccountedFor

\* Windows: no completion outlives its call, whose stack holds the message and
\* the OVERLAPPED structures; and whoever waits for a whole batch is not resumed
\* before its last event, even if the fiber has slept between two operations.
CallOutlivesEvents ==
    windows =>
        /\ PortTypeOK
        /\ \A f \in Fibers :
             /\ op[f] = "none" => Outstanding(f) = 0
             /\ f \in wait_queue_ \ asleep => aio_count[f] >= Outstanding(f)

\* A message resumes a fiber that is suspended, in the operation it stands for.
ResumesTheWaiter ==
    IF windows
      THEN polled /\ ring_buffer_ # <<>> =>
             LET f == Head(ring_buffer_).fiber
             IN op[f] # "none" /\ (aio_count[f] = 1 => f \in wait_queue_)
      ELSE WakesTheWaiter

\* A file operation returns, unless another fiber keeps the thread in a read();
\* on Windows, unless it lacked resources, or was a batch of no blocks.
FileOperationsReturn ==
    \A f \in Fibers :
        ~scarce /\ op[f] \in {"single", "batch"} /\ left[f] + Outstanding(f) > 0 ~>
            op[f] = "none" \/ (~windows /\ \E g \in Fibers : active = g /\ op[g] = "read")

\* "BOOST_ASSERT( ctx->wait_is_linked() );" (scheduler.hpp:95): the message that
\* finish() takes next resumes a context of the wait queue.
ResumeFindsLinked ==
    polled /\ ring_buffer_ # <<>> =>
        LET m == Head(ring_buffer_)
            due == IF windows THEN aio_count[m.fiber] = 1
                              ELSE m.kind = "file" \/ count_[m.kind][m.fiber] = 1
        IN due => m.fiber \in wait_queue_
===============================================================================
