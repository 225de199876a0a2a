---------------------------- MODULE ContextMPSCQueue ----------------------------
(***************************************************************************)
(* detail::context_mpsc_queue: threads push ready fibers, linked through   *)
(* remote_nxt_, and their scheduler's thread pops them.  A push swaps      *)
(* head_ and then links the context behind the one that was there; in      *)
(* between the list is in two pieces.  The scheduler of this library has   *)
(* no remote queue: nothing includes the header.                           *)
(*                                                                         *)
(* Each access to a shared word is a step.                                 *)
(***************************************************************************)
EXTENDS Naturals, Sequences, SequencesExt

CONSTANTS
    Pushers,        \* the threads that push
    Contexts, Dummy, NoContext,
    MaxPushes       \* bound: pushes in all

ContextQueueAssumption ==
    /\ Dummy \notin Contexts /\ NoContext \notin Contexts \cup {Dummy}
    /\ MaxPushes \in Nat

VARIABLES
    head_, tail_,
    remote_nxt_,
    prev, pushed,   \* locals of each thread's push(): what it swapped, and for what
    pc,             \* where pop() is
    tail, next,     \* its locals
    order,          \* the contexts in the queue, in the order of their swaps
    pushes

contextQueueVars == <<head_, tail_, remote_nxt_, prev, pushed, pc, tail, next, order, pushes>>

Nodes == Contexts \cup {Dummy}

ContextQueueTypeOK ==
    /\ head_ \in Nodes /\ tail_ \in Nodes
    /\ remote_nxt_ \in [Nodes -> Nodes \cup {NoContext}]
    /\ prev \in [Pushers -> Nodes \cup {NoContext}]
    /\ pushed \in [Pushers -> Contexts \cup {NoContext}]
    /\ pc \in {"out", "skip", "look", "swap", "link", "reload", "take"}
    /\ tail \in Nodes \cup {NoContext} /\ next \in Nodes \cup {NoContext}
    /\ order \in Seq(Contexts)
    /\ pushes \in 0..MaxPushes

Init ==
    /\ head_ = Dummy /\ tail_ = Dummy
    /\ remote_nxt_ = [n \in Nodes |-> NoContext]
    /\ prev = [t \in Pushers |-> NoContext]
    /\ pushed = [t \in Pushers |-> NoContext]
    /\ pc = "out" /\ tail = NoContext /\ next = NoContext
    /\ order = <<>> /\ pushes = 0

\* A context that is in no queue; what pop() is about to return still is.
Fresh(c) == c \notin ToSet(order)

\* push(): nobody else sees the context before the swap.
Swap(t, c) ==
    /\ pushed[t] = NoContext /\ Fresh(c) /\ pushes < MaxPushes
    /\ remote_nxt_' = [remote_nxt_ EXCEPT ![c] = NoContext]
    /\ head_' = c
    /\ prev' = [prev EXCEPT ![t] = head_]
    /\ pushed' = [pushed EXCEPT ![t] = c]
    /\ order' = Append(order, c)
    /\ pushes' = pushes + 1
    /\ UNCHANGED <<tail_, pc, tail, next>>

Link(t) ==
    /\ pushed[t] # NoContext
    /\ remote_nxt_' = [remote_nxt_ EXCEPT ![prev[t]] = pushed[t]]
    /\ prev' = [prev EXCEPT ![t] = NoContext]
    /\ pushed' = [pushed EXCEPT ![t] = NoContext]
    /\ UNCHANGED <<head_, tail_, pc, tail, next, order, pushes>>

\* pop() goes on at place.
Locals(place, last, following) == pc' = place /\ tail' = last /\ next' = following

ReturnsNothing == Locals("out", NoContext, NoContext)

LoadNext ==
    /\ pc = "out"
    /\ \/ tail_ # Dummy /\ Locals("look", tail_, remote_nxt_[tail_])
       \/ tail_ = Dummy /\ remote_nxt_[Dummy] # NoContext
            /\ Locals("skip", tail_, remote_nxt_[Dummy])
       \/ tail_ = Dummy /\ remote_nxt_[Dummy] = NoContext /\ ReturnsNothing
    /\ UNCHANGED <<head_, tail_, remote_nxt_, prev, pushed, order, pushes>>

SkipDummy ==
    /\ pc = "skip"
    /\ tail_' = next
    /\ Locals("look", next, remote_nxt_[next])
    /\ UNCHANGED <<head_, remote_nxt_, prev, pushed, order, pushes>>

\* With no successor, the last context can only be taken once dummy_ is behind it.
LoadHead ==
    /\ pc = "look" /\ next = NoContext
    /\ IF tail # head_ THEN ReturnsNothing ELSE Locals("swap", tail, next)
    /\ UNCHANGED <<head_, tail_, remote_nxt_, prev, pushed, order, pushes>>

SwapDummy ==
    /\ pc = "swap"
    /\ remote_nxt_' = [remote_nxt_ EXCEPT ![Dummy] = NoContext]
    /\ head_' = Dummy
    /\ Locals("link", tail, head_)
    /\ UNCHANGED <<tail_, prev, pushed, order, pushes>>

LinkDummy ==
    /\ pc = "link"
    /\ remote_nxt_' = [remote_nxt_ EXCEPT ![next] = Dummy]
    /\ Locals("reload", tail, NoContext)
    /\ UNCHANGED <<head_, tail_, prev, pushed, order, pushes>>

Reload ==
    /\ pc = "reload"
    /\ IF remote_nxt_[tail] = NoContext THEN ReturnsNothing
       ELSE Locals("take", tail, remote_nxt_[tail])
    /\ UNCHANGED <<head_, tail_, remote_nxt_, prev, pushed, order, pushes>>

\* pop() returns tail, by PopsInOrder the first.
Take ==
    /\ pc = "take" \/ (pc = "look" /\ next # NoContext)
    /\ tail_' = next
    /\ order' = Tail(order)
    /\ ReturnsNothing
    /\ UNCHANGED <<head_, remote_nxt_, prev, pushed, pushes>>

ContextQueueNext ==
    \/ \E t \in Pushers : Link(t) \/ \E c \in Contexts : Swap(t, c)
    \/ LoadNext \/ SkipDummy \/ LoadHead \/ SwapDummy \/ LinkDummy \/ Reload \/ Take

---------------------------------------------------------------------------------

\* The context that n leads to, past dummy_.
Following(n) == IF n = Dummy THEN remote_nxt_[Dummy] ELSE n

\* From tail_ on, the links lead through all contexts of the queue, in order.
IsLinkedInOrder ==
    IF order = <<>> THEN Following(tail_) = NoContext
    ELSE /\ Following(tail_) = Head(order)
         /\ \A i \in 1 .. Len(order) - 1 : Following(remote_nxt_[order[i]]) = order[i + 1]
         /\ Following(remote_nxt_[order[Len(order)]]) = NoContext

\* Contexts are popped in the order of their swaps, each once, also when a push
\* swaps between the consumer's look at head_ and its own push of dummy_; and when
\* every push has linked its context, the consumer can reach all that are there.
PopsInOrder ==
    /\ ContextQueueTypeOK
    /\ pc = "take" \/ (pc = "look" /\ next # NoContext) => order # <<>> /\ tail = Head(order)
    /\ pc = "out" /\ (\A t \in Pushers : pushed[t] = NoContext) => IsLinkedInOrder
=================================================================================
