------------------------------ MODULE ThreadPool -------------------------------
(***************************************************************************)
(* The pool of threads a reactor owns for blocking work.  Its own thread,  *)
(* the pool's owner, hands messages to workers, gets them back through its *)
(* inbox, releases their workers and finally stops them; each worker is a  *)
(* thread that waits on its condition variable and processes one message   *)
(* at a time, holding its mutex until it waits again.                      *)
(*                                                                         *)
(* Nothing under src/ calls try_run() or release() yet: the owner calls    *)
(* them here in every order their assertions allow.                        *)
(***************************************************************************)
EXTENDS Naturals, Sequences, FiniteSets, SequencesExt

CONSTANTS
    Tasks,      \* bound: messages ever handed to the pool
    Workers,    \* bound: Worker objects alive at once
    NoTask, NoWorker,
    MinSize, MaxSize

PoolAssumption ==
    /\ NoTask \notin Tasks /\ NoWorker \notin Workers
    /\ MinSize \in Nat /\ MaxSize \in Nat /\ MinSize <= MaxSize
    /\ Cardinality(Workers) > MaxSize + MinSize

VARIABLES
    free,       \* free_workers_
    busy,       \* busy_workers_
    owner,      \* what the owner's thread does, to which worker, with which message
    thread,     \* where each worker's thread is
    joined,     \* workers whose thread_ is no longer joinable
    task,       \* task_ of each worker
    isReady,    \* ready_ of each worker
    isStopped,  \* stop_ of each worker
    state,      \* how far each message is
    data        \* data_ of each message

vars == <<free, busy, owner, thread, joined, task, isReady, isStopped, state, data>>
workerVars == <<thread, joined, task, isReady, isStopped>>

Idle == [at |-> "idle", worker |-> NoWorker, task |-> NoTask]

\* none: not constructed; started: the thread has not locked its mutex yet
Stages == {"none", "started", "waits", "processes", "submits", "loops", "finished"}

TypeOK ==
    /\ free \in Seq(Workers) /\ busy \subseteq Workers
    /\ owner \in [at : {"idle", "hands", "stops", "joins", "closes", "closed"},
                  worker : Workers \cup {NoWorker}, task : Tasks \cup {NoTask}]
    /\ thread \in [Workers -> Stages]
    /\ joined \subseteq Workers
    /\ task \in [Workers -> Tasks \cup {NoTask}]
    /\ isReady \in [Workers -> BOOLEAN] /\ isStopped \in [Workers -> BOOLEAN]
    /\ state \in [Tasks -> {"new", "given", "replied", "released"}]
    /\ data \in [Tasks -> Workers \cup {NoWorker}]

\* The constructor starts MinSize workers.
Init ==
    /\ free \in {s \in [1..MinSize -> Workers] : IsInjective(s)}
    /\ thread = [w \in Workers |-> IF w \in ToSet(free) THEN "started" ELSE "none"]
    /\ busy = {}
    /\ owner = Idle
    /\ joined = {}
    /\ task = [w \in Workers |-> NoTask]
    /\ isReady = [w \in Workers |-> FALSE]
    /\ isStopped = [w \in Workers |-> FALSE]
    /\ state = [m \in Tasks |-> "new"]
    /\ data = [m \in Tasks |-> NoWorker]

\* mutex_ is held from the wake-up to the next wait.
MutexIsFree(w) == thread[w] \in {"started", "waits", "finished"}

--------------------------------------------------------------------------------
(* The worker's thread *)

\* The first lock, and ready_ = false: whatever run() or stop() has set is lost.
Start(w) ==
    /\ thread[w] = "started"
    /\ isReady' = [isReady EXCEPT ![w] = FALSE]
    /\ thread' = [thread EXCEPT ![w] = "waits"]
    /\ UNCHANGED <<free, busy, owner, joined, task, isStopped, state, data>>

Wake(w) ==
    /\ thread[w] = "waits"
    /\ isReady[w]
    /\ thread' = [thread EXCEPT ![w] = IF isStopped[w] THEN "finished" ELSE "processes"]
    /\ UNCHANGED <<free, busy, owner, joined, task, isReady, isStopped, state, data>>

SetData(w) == [data EXCEPT ![task[w]] = w]

\* process() and set_data(this)
Process(w) ==
    /\ thread[w] = "processes"
    /\ data' = SetData(w)
    /\ thread' = [thread EXCEPT ![w] = "submits"]
    /\ UNCHANGED <<free, busy, owner, joined, task, isReady, isStopped, state>>

\* submit_to(): from here on the owner may release the message.
SubmitTo(w) ==
    /\ thread[w] = "submits"
    /\ state' = [state EXCEPT ![task[w]] = "replied"]
    /\ thread' = [thread EXCEPT ![w] = "loops"]
    /\ UNCHANGED <<free, busy, owner, joined, task, isReady, isStopped, data>>

WaitAgain(w) ==
    /\ thread[w] = "loops"
    /\ isReady' = [isReady EXCEPT ![w] = FALSE]
    /\ thread' = [thread EXCEPT ![w] = "waits"]
    /\ UNCHANGED <<free, busy, owner, joined, task, isStopped, state, data>>

Worker(w) == Start(w) \/ Wake(w) \/ Process(w) \/ SubmitTo(w) \/ WaitAgain(w)

--------------------------------------------------------------------------------
(* The owner *)

Owner(at, w, m) == owner' = [at |-> at, worker |-> w, task |-> m]

FreeButLast == Front(free)

\* acquire_worker(): the last free worker, or a new one.
AcquireFree(m) ==
    /\ free # <<>>
    /\ free' = FreeButLast
    /\ busy' = busy \cup {Last(free)}
    /\ Owner("hands", Last(free), m)
    /\ UNCHANGED workerVars

AcquireNew(m, w) ==
    /\ free = <<>>
    /\ thread[w] = "none"
    /\ thread' = [thread EXCEPT ![w] = "started"]
    /\ busy' = busy \cup {w}
    /\ Owner("hands", w, m)
    /\ UNCHANGED <<free, joined, task, isReady, isStopped>>

\* try_run(), which returns false and changes nothing when the pool is full
TryRun(m) ==
    /\ owner = Idle
    /\ state[m] = "new"
    /\ Cardinality(busy) < MaxSize
    /\ AcquireFree(m) \/ \E w \in Workers : AcquireNew(m, w)
    /\ state' = [state EXCEPT ![m] = "given"]
    /\ UNCHANGED data

\* Worker::run()
Run ==
    /\ owner.at = "hands"
    /\ MutexIsFree(owner.worker)
    /\ task' = [task EXCEPT ![owner.worker] = owner.task]
    /\ isReady' = [isReady EXCEPT ![owner.worker] = TRUE]
    /\ owner' = Idle
    /\ UNCHANGED <<free, busy, thread, joined, isStopped, state, data>>

AssociatedWith(m) == data[m] # NoWorker            \* mutant
Returned(m) == state[m] = "replied"

KeepsWorker == Len(free) < MinSize

\* release(): keep the worker, or stop and delete it.
Release(m) ==
    /\ owner = Idle
    /\ Returned(m)
    /\ state' = [state EXCEPT ![m] = "released"]
    /\ busy' = busy \ {data[m]}
    /\ IF KeepsWorker
       THEN free' = Append(free, data[m]) /\ UNCHANGED owner
       ELSE Owner("stops", data[m], m) /\ UNCHANGED free
    /\ UNCHANGED <<workerVars, data>>

\* Worker::stop() up to join()
Stop ==
    /\ owner.at = "stops"
    /\ MutexIsFree(owner.worker)
    /\ isStopped' = [isStopped EXCEPT ![owner.worker] = TRUE]
    /\ isReady' = [isReady EXCEPT ![owner.worker] = TRUE]
    /\ task' = [task EXCEPT ![owner.worker] = NoTask]
    /\ owner' = [owner EXCEPT !.at = "joins"]
    /\ UNCHANGED <<free, busy, thread, joined, state, data>>

\* The join() of a worker that release() then deletes.
JoinAndDelete ==
    /\ owner.at = "joins" /\ owner.task # NoTask
    /\ thread[owner.worker] = "finished"
    /\ thread' = [thread EXCEPT ![owner.worker] = "none"]
    /\ isStopped' = [isStopped EXCEPT ![owner.worker] = FALSE]
    /\ isReady' = [isReady EXCEPT ![owner.worker] = FALSE]
    /\ owner' = Idle
    /\ UNCHANGED <<free, busy, joined, task, state, data>>

\* The join() of stop_workers().
Join ==
    /\ owner.at = "joins" /\ owner.task = NoTask
    /\ thread[owner.worker] = "finished"
    /\ joined' = joined \cup {owner.worker}
    /\ Owner("closes", NoWorker, NoTask)
    /\ UNCHANGED <<free, busy, thread, task, isReady, isStopped, state, data>>

\* stop_workers() stops the free workers one after the other.
StopWorkers ==
    /\ owner = Idle \/ owner.at = "closes"
    /\ \/ ToSet(free) \subseteq joined /\ Owner("closed", NoWorker, NoTask)
       \/ \E i \in DOMAIN free :
             /\ free[i] \notin joined /\ \A j \in 1..(i - 1) : free[j] \in joined
             /\ Owner("stops", free[i], NoTask)
    /\ UNCHANGED <<free, busy, workerVars, state, data>>

OwnerStep ==
    \/ \E m \in Tasks : TryRun(m) \/ Release(m)
    \/ Run \/ Stop \/ JoinAndDelete \/ Join \/ StopWorkers

--------------------------------------------------------------------------------
Next == OwnerStep \/ \E w \in Workers : Worker(w)

Finishes == Run \/ Stop \/ JoinAndDelete \/ Join \/ (owner.at = "closes" /\ StopWorkers)

\* The threads run, process() returns, and the owner finishes what it has begun.
Spec ==
    /\ Init /\ [][Next]_vars
    /\ \A w \in Workers : WF_vars(Worker(w))
    /\ WF_vars(Finishes)

--------------------------------------------------------------------------------
(* Properties *)

\* A worker is free, busy or being stopped by release(); the pool never exceeds
\* its two sizes, and only a worker the pool has let go of has no thread.
\* release() stops or reuses only a worker that is done with the message, and
\* a worker that clears its flag to wait again has neither a message nor a stop
\* order that came since.
WorkersAccountedFor ==
    LET leaving == IF owner.at \in {"stops", "joins"} /\ owner.task # NoTask
                   THEN {owner.worker} ELSE {}
    IN /\ TypeOK
       /\ Len(free) = Cardinality(ToSet(free)) /\ Len(free) <= MinSize
       /\ Cardinality(busy) <= MaxSize
       /\ ToSet(free) \cap busy = {} /\ (ToSet(free) \cup busy) \cap leaving = {}
       /\ ToSet(free) \cup busy \cup leaving = {w \in Workers : thread[w] # "none"}
       /\ \A w \in Workers \ busy : thread[w] \notin {"processes", "submits"}
       /\ \A w \in Workers : thread[w] = "loops" =>
             ~ isStopped[w] /\ state[task[w]] \in {"replied", "released"}

\* Once a worker's thread has locked its mutex for the first time, a message
\* handed to it is to be processed and sent back, and stop() is to return.
\* (Before that, Start may forget the message or leave a stopped worker waiting.)
NothingIsOwed ==
    \A w \in Workers : thread[w] \notin {"none", "started"} =>
        /\ isReady[w] /\ task[w] # NoTask => state[task[w]] \in {"replied", "released"}
        /\ owner.worker = w => owner.at # "stops" /\ ~ (owner.at = "joins" /\ isReady[w])
================================================================================
