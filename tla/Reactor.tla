-------------------------------- MODULE Reactor --------------------------------
(***************************************************************************)
(* The application: one reactor per CPU, each an event loop in the main    *)
(* fiber of its own thread, a dispatcher fiber and the fibers that process *)
(* messages; reactors talk only through their inboxes.                     *)
(*                                                                         *)
(* A message is a task: run_at (a call, answered by sending the same       *)
(* message back), run_at_async, one stop message per reactor for           *)
(* Application::shutdown, and the application's own function.  The body of *)
(* a task is user code: it may do any of these, yield, and return or throw.*)
(*                                                                         *)
(* An inbox is the FIFO that MPSCQueue implements (MessageFifo): a send to *)
(* a full inbox spins and blocks the whole thread.  Within a thread only   *)
(* one fiber runs, and it runs until it yields, suspends or terminates.    *)
(*                                                                         *)
(* The number of CPUs is a parameter here; Application's constructor       *)
(* passes 1.  Io and thread-pool messages are left out of this module.     *)
(***************************************************************************)
EXTENDS Integers, Sequences, FiniteSets

CONSTANTS
    CPUs,         \* cpu_num() of Smp
    Tasks,        \* bound: the messages ever created, CPUs of them stop messages
    App,          \* the message of Application::run
    Main,         \* the context of the thread, which runs the event loop
    Dispatcher,   \* the scheduler's dispatcher context
    NoTask,
    Capacity      \* slots of each inbox: 1024 of every one in the code

Reactors == 0 .. CPUs - 1

ASSUME ReactorAssumption ==
    /\ CPUs \in Nat \ {0}
    /\ App \in Tasks
    /\ Main \notin Tasks /\ Dispatcher \notin Tasks /\ NoTask \notin Tasks
    /\ Main # Dispatcher
    /\ Capacity \in [Reactors -> Nat \ {0}]

Elements(s) == {s[i] : i \in 1 .. Len(s)}

VARIABLES
    inbox,       \* inboxes_ of Smp
    running,     \* running_
    exited,      \* the reactors that have left their event loop
    active,      \* context::active() of each thread
    ready,       \* ready_queue_ of each scheduler
    waiting,     \* wait_queue_ of each scheduler: suspended in run_at
    terminated,  \* terminated_queue_ of each scheduler
    stage,       \* how far each task is
    msg,         \* kind, target CPU and sending fiber of each message
    aborted      \* std::terminate was called

vars == <<inbox, running, exited, active, ready, waiting, terminated, stage, msg,
          aborted>>

\* unsent -> created -> queued in an inbox -> the stages of the fiber it becomes
FiberStages == {"body", "sending", "calling", "waiting", "stopping", "finish", "dead"}
Stages == {"unsent", "created", "queued", "gone"} \cup FiberStages

Contexts == Tasks \cup {Main, Dispatcher}

TypeOK ==
    /\ inbox \in [Reactors -> Seq(Tasks)]
    /\ \A r \in Reactors : Len(inbox[r]) <= Capacity[r]
    /\ running \in [Reactors -> BOOLEAN]
    /\ exited \in [Reactors -> BOOLEAN]
    /\ active \in [Reactors -> Contexts]
    /\ ready \in [Reactors -> Seq(Contexts)]
    /\ waiting \in [Reactors -> SUBSET Tasks]
    /\ terminated \in [Reactors -> SUBSET Tasks]
    /\ stage \in [Tasks -> Stages]
    /\ msg \in [Tasks -> [kind : {"none", "app", "call", "async", "stop"},
                          to : Reactors, from : Tasks \cup {NoTask}]]
    /\ aborted \in BOOLEAN

\* The fibers that exist on a reactor: contexts() - DEFAULT_CONTEXTS.
Fibers(r) == {t \in Tasks : stage[t] \in FiberStages /\ msg[t].to = r}

Init ==
    /\ inbox = [r \in Reactors |-> IF r = 0 THEN <<App>> ELSE <<>>]
    /\ running = [r \in Reactors |-> TRUE]
    /\ exited = [r \in Reactors |-> FALSE]
    /\ active = [r \in Reactors |-> Main]
    /\ ready = [r \in Reactors |-> <<Dispatcher>>]
    /\ waiting = [r \in Reactors |-> {}]
    /\ terminated = [r \in Reactors |-> {}]
    /\ stage = [t \in Tasks |-> IF t = App THEN "queued" ELSE "unsent"]
    /\ msg = [t \in Tasks |-> [kind |-> IF t = App THEN "app" ELSE "none",
                               to |-> 0, from |-> NoTask]]
    /\ aborted = FALSE

--------------------------------------------------------------------------------
(* Switching fibers *)

\* pick_next() takes the front of the ready queue, to which the context that is
\* left has been appended if it stays ready.
Switch(r, queue) ==
    /\ active' = [active EXCEPT ![r] = Head(queue)]
    /\ ready' = [ready EXCEPT ![r] = Tail(queue)]

SwitchTo(r, back) == Switch(r, ready[r] \o back)

Released(r) == terminated[r]

Requeued == <<Dispatcher>>

\* dispatch(): releases what has terminated, resumes the next ready context.
Dispatch(r) ==
    /\ active[r] = Dispatcher
    /\ stage' = [t \in Tasks |-> IF t \in Released(r) THEN "gone" ELSE stage[t]]
    /\ terminated' = [terminated EXCEPT ![r] = @ \ Released(r)]
    /\ IF ready[r] = <<>> THEN UNCHANGED <<active, ready>> ELSE SwitchTo(r, Requeued)
    /\ UNCHANGED <<inbox, running, exited, waiting, msg, aborted>>

--------------------------------------------------------------------------------
(* The event loop *)

RunningOnly(r) == running[r]        \* mutant
KeepsLooping(r) == running[r] \/ Fibers(r) # {}

\* process_fn posts a fiber for a request and resumes the caller of an answer.
IsReturn(t) == stage[t] # "queued"
ToResume(t) == IF IsReturn(t) THEN msg[t].from ELSE t

Requests(batch) == SelectSeq(batch, LAMBDA t : ~ IsReturn(t))       \* mutant
Readied(batch) == [i \in 1 .. Len(batch) |-> ToResume(batch[i])]

\* One turn: the loop's condition, receive_all() and yield().  All of it but the
\* batch is this thread's own, and the slots of the batch are given back at once.
LoopTurn(r) ==
    /\ active[r] = Main /\ ~ exited[r]
    /\ KeepsLooping(r)
    /\ LET batch == inbox[r]
           woken == {ToResume(t) : t \in Elements(batch)}
       IN /\ Switch(r, ready[r] \o Readied(batch) \o <<Main>>)
          /\ stage' = [t \in Tasks |-> IF t \in woken THEN "body" ELSE stage[t]]
          /\ waiting' = [waiting EXCEPT ![r] = @ \ woken]
    /\ inbox' = [inbox EXCEPT ![r] = <<>>]
    /\ UNCHANGED <<running, exited, terminated, msg, aborted>>

LeaveLoop(r) ==
    /\ active[r] = Main /\ ~ exited[r]
    /\ ~ KeepsLooping(r)
    /\ exited' = [exited EXCEPT ![r] = TRUE]
    /\ UNCHANGED <<inbox, running, active, ready, waiting, terminated, stage, msg, aborted>>

--------------------------------------------------------------------------------
(* Fibers *)

Runs(r, t) == t \in Tasks /\ active[r] = t

HasRoom(to) == Len(inbox[to]) < Capacity[to]

\* submit_to: the thread spins until the target's inbox has a free slot.
Submit(to, t) ==
    /\ HasRoom(to)
    /\ inbox' = [inbox EXCEPT ![to] = Append(@, t)]

\* Messages differ in nothing but what is done with them: any unused one will do.
Unsent == {u \in Tasks : stage[u] = "unsent"}
New == CHOOSE u \in Unsent : TRUE

\* run_at, run_at_async and shutdown() allocate the message they will send.
Create(r, t, kind, to) ==
    /\ Runs(r, t)
    /\ msg[t].kind # "stop"
    /\ Unsent # {}
    /\ msg' = [msg EXCEPT ![New] = [kind |-> kind, to |-> to, from |-> t]]
    /\ stage' = [stage EXCEPT ![New] = "created", ![t] = "sending"]
    /\ UNCHANGED <<inbox, running, exited, active, ready, waiting, terminated, aborted>>

\* Bound: one shutdown(), for which CPUs of the Tasks are set aside.
Stops == {u \in Tasks : msg[u].kind = "stop"}
SpareTask == Cardinality(Unsent) > CPUs - Cardinality(Stops)

RunAt(r, t, to) == stage[t] = "body" /\ SpareTask /\ Create(r, t, "call", to)

RunAtAsync(r, t, to) == stage[t] = "body" /\ SpareTask /\ Create(r, t, "async", to)

\* Application::shutdown() sends one stop message to every reactor, in order.
Shutdown(r, t) ==
    /\ stage[t] = "stopping" \/ (stage[t] = "body" /\ Stops = {})
    /\ Create(r, t, "stop", Cardinality(Stops))

YieldsAfterSend(r, t) == SwitchTo(r, <<t>>)        \* mutant
KeepsRunning(r, t) == UNCHANGED <<active, ready>>

Send(r, t) ==
    /\ Runs(r, t)
    /\ stage[t] = "sending"
    /\ \E new \in Tasks :
          /\ stage[new] = "created" /\ msg[new].from = t
          /\ Submit(msg[new].to, new)
          /\ stage' = [stage EXCEPT
                 ![new] = "queued",
                 ![t] = CASE msg[new].kind = "call" -> "calling"
                          [] msg[new].kind = "stop" /\ Cardinality(Stops) < CPUs -> "stopping"
                          [] OTHER -> "body"]
    /\ KeepsRunning(r, t)
    /\ UNCHANGED <<running, exited, waiting, terminated, msg, aborted>>

\* scheduler_->suspend(ctx); run_at() returns when ReceiveAll has resumed it.
Suspend(r, t) ==
    /\ Runs(r, t) /\ stage[t] = "calling"
    /\ waiting' = [waiting EXCEPT ![r] = @ \cup {t}]
    /\ stage' = [stage EXCEPT ![t] = "waiting"]
    /\ SwitchTo(r, <<>>)
    /\ UNCHANGED <<inbox, running, exited, terminated, msg, aborted>>

Yield(r, t) ==
    /\ Runs(r, t) /\ stage[t] = "body" /\ msg[t].kind # "stop"
    /\ SwitchTo(r, <<t>>)
    /\ UNCHANGED <<inbox, running, exited, waiting, terminated, stage, msg, aborted>>

\* The fiber ends.
Terminate(r, t) ==
    /\ stage' = [stage EXCEPT ![t] = "dead"]
    /\ terminated' = [terminated EXCEPT ![r] = @ \cup {t}]
    /\ SwitchTo(r, <<>>)
    /\ UNCHANGED <<exited, waiting, msg>>

\* The end of a call's process().  What it throws is its result, for the body of
\* the caller.
EndCall(r, t) ==
    /\ Runs(r, t) /\ stage[t] = "body" /\ msg[t].kind = "call"
    /\ stage' = [stage EXCEPT ![t] = "finish"]
    /\ UNCHANGED <<inbox, running, exited, active, ready, waiting, terminated, msg, aborted>>

ReplyToSelf(t) == msg[t].to         \* mutant
ReplyTo(t) == msg[msg[t].from].to

\* The message goes back to msg->cpu(), the caller's.
SendReply(r, t) ==
    /\ Runs(r, t) /\ stage[t] = "finish"
    /\ Submit(ReplyTo(t), t)
    /\ Terminate(r, t)
    /\ UNCHANGED <<running, aborted>>

\* The end of process() and of finish() of a one-way message: the shutdown hook has
\* called engine().stop(); an exception of an asynchronous task ends the process.
\* The application's own message keeps its exception for result().
EndOneWay(r, t) ==
    /\ Runs(r, t) /\ stage[t] = "body" /\ msg[t].kind # "call"
    /\ running' = [running EXCEPT ![r] = IF msg[t].kind = "stop" THEN FALSE ELSE @]
    /\ aborted' \in IF msg[t].kind = "async" THEN BOOLEAN ELSE {FALSE}
    /\ Terminate(r, t)
    /\ UNCHANGED inbox

--------------------------------------------------------------------------------
EventLoop(r) == LoopTurn(r) \/ LeaveLoop(r)

UserStep(r, t) ==
    \/ \E to \in Reactors : RunAt(r, t, to) \/ RunAtAsync(r, t, to)
    \/ Shutdown(r, t)
    \/ Yield(r, t)

EndBody(r, t) == EndCall(r, t) \/ EndOneWay(r, t)

FiberStep(r, t) ==
    \/ UserStep(r, t)
    \/ Send(r, t) \/ Suspend(r, t) \/ EndBody(r, t) \/ SendReply(r, t)

Step(r) ==
    /\ ~ aborted
    /\ Dispatch(r) \/ EventLoop(r) \/ \E t \in Tasks : FiberStep(r, t)

Next == \E r \in Reactors : Step(r)

\* Every thread is scheduled; a body that runs again and again ends.
Spec ==
    /\ Init /\ [][Next]_vars
    /\ \A r \in Reactors : WF_vars(Step(r))
    /\ \A r \in Reactors : SF_vars(~ aborted /\ \E t \in Tasks : EndBody(r, t))

--------------------------------------------------------------------------------
(* Properties *)

\* Scheduler::resume asserts wait_is_linked(): an answer never overtakes the
\* suspend() of the fiber that asked, although the callee may have sent it from
\* another thread before the caller suspended.
ResumeFindsWaiting ==
    \A r \in Reactors : active[r] = Main /\ ~ exited[r] =>
        \A t \in Elements(inbox[r]) : IsReturn(t) => msg[t].from \in waiting[r]

\* A context is active, ready once, suspended or terminated, and only one of
\* these; the dispatcher is always active or ready, so that whoever gives up the
\* thread has a context to resume ("so that ready-queue never becomes empty").
ContextsAccountedFor ==
    /\ TypeOK
    /\ \A r \in Reactors :
         LET scheduled == Elements(ready[r]) \cup {active[r]}
         IN /\ Cardinality(scheduled) = Len(ready[r]) + 1
            /\ {Main, Dispatcher} \subseteq scheduled
            /\ Fibers(r) = (scheduled \cup waiting[r] \cup terminated[r]) \ {Main, Dispatcher}
            /\ scheduled \cap waiting[r] = {}
            /\ (scheduled \cup waiting[r]) \cap terminated[r] = {}

\* The call a suspended fiber waits for exists exactly once: as a request in the
\* target's inbox, as a fiber there, or as the answer in the caller's own inbox.
CallsAccountedFor ==
    \A r \in Reactors : \A t \in waiting[r] :
        Cardinality({u \in Tasks :
            /\ msg[u].kind = "call" /\ msg[u].from = t
            /\ \/ stage[u] = "queued" /\ u \in Elements(inbox[msg[u].to])
               \/ stage[u] \in FiberStages \ {"dead"} /\ u \in Fibers(msg[u].to)
               \/ stage[u] \in {"dead", "gone"} /\ u \in Elements(inbox[r])}) = 1

\* No fiber is lost or run twice, and no call of one that waits.
FibersAccountedFor == ContextsAccountedFor /\ CallsAccountedFor

\* An event loop ends only when no fiber is left, and what it leaves unprocessed
\* in its inbox is no answer and no call of its own fibers.
CleanExit ==
    \A r \in Reactors : exited[r] =>
        /\ Fibers(r) = {}
        /\ \A t \in Elements(inbox[r]) :
              ~ IsReturn(t) /\ (msg[t].kind = "call" => msg[msg[t].from].to # r)

\* The full inboxes on which the fiber that runs on r spins.
SpinsOn(r) ==
    {to \in Reactors : ~ HasRoom(to) /\ \E t \in Tasks : Runs(r, t) /\
        \/ /\ stage[t] = "sending"
           /\ \E new \in Tasks : stage[new] = "created" /\ msg[new].from = t /\ msg[new].to = to
        \/ stage[t] = "finish" /\ ReplyTo(t) = to}

\* The reactors that spin in submit_to() for ever: on the full inbox of one of them,
\* be it their own, which nobody empties, or of a reactor that has left its loop.
Jammed ==
    UNION {S \in SUBSET Reactors :
              \A r \in S : \E to \in SpinsOn(r) : to \in S \/ exited[to]}

\* A suspended caller runs again, unless a one-way task has brought the process
\* down, a reactor has left its loop (never so with one CPU, where CleanExit keeps
\* the loop running), or a reactor is jammed.  And a reactor told to stop leaves its
\* loop, or it is jammed, or one of its fibers waits while another is gone or jammed.
CallsAndLoopsEnd ==
    /\ \A t \in Tasks : stage[t] = "waiting" ~>
          \E r \in Reactors : active[r] = t \/ aborted \/ exited[r] \/ r \in Jammed
    /\ \A r \in Reactors : ~ running[r] ~>
          \/ exited[r] \/ aborted \/ r \in Jammed
          \/ waiting[r] # {} /\ \E s \in Reactors \ {r} : exited[s] \/ s \in Jammed
================================================================================
