----------------------------- MODULE ChaseLevQueue -----------------------------
(***************************************************************************)
(* The work-stealing deque of fiber/algo/detail, which no algorithm under  *)
(* src/ uses yet: its owner pushes and pops at the bottom, other threads   *)
(* steal at the top.  Interleaving of the loads and stores is assumed; the *)
(* fences are those of the algorithm of Le, Pop, Cohen and Zappa Nardelli. *)
(***************************************************************************)
EXTENDS Integers, FiniteSets

CONSTANTS
    Threads, Owner,
    Contexts,           \* bound: each is pushed once
    NoContext,
    Size                \* of the first buffer

DequeAssumption ==
    Owner \in Threads /\ NoContext \notin Contexts /\ Size \in Nat \ {0}

VARIABLES
    top_, bottom_,
    buffer_,            \* its slots; size() is their number
    pc,                 \* where each thread is: a thief outside steal() is idle
    top, ctx,           \* locals of pop() and steal()
    unpushed,
    taken,              \* how often pop() and steal() have returned each context
    raced,              \* a pop() has lost the last element, and no push() came since
    buried              \* what such a push() stored below top_

locals == <<pc, top, ctx>>
losses == <<raced, buried>>
vars == <<top_, bottom_, buffer_, locals, unpushed, taken, losses>>

TypeOK ==
    /\ top_ \in Nat /\ bottom_ \in Int
    /\ \A i \in DOMAIN buffer_ : buffer_[i] \in Contexts \cup {NoContext}
    /\ pc \in [Threads -> {"idle", "publish", "top", "restore", "last", "bottom", "read", "cas"}]
    /\ top \in [Threads -> Nat] /\ ctx \in [Threads -> Contexts \cup {NoContext}]
    /\ unpushed \subseteq Contexts /\ taken \in [Contexts -> Nat]
    /\ raced \in BOOLEAN /\ buried \subseteq Contexts

Init ==
    /\ top_ = 0 /\ bottom_ = 0
    /\ buffer_ = [i \in 0 .. Size - 1 |-> NoContext]
    /\ pc = [t \in Threads |-> "idle"]
    /\ top = [t \in Threads |-> 0] /\ ctx = [t \in Threads |-> NoContext]
    /\ unpushed = Contexts /\ taken = [c \in Contexts |-> 0]
    /\ raced = FALSE /\ buried = {}

Goes(t, stage) == pc' = [pc EXCEPT ![t] = stage]
Get(buffer, i) == buffer[i % Cardinality(DOMAIN buffer)]
Takes(c) == taken' = [taken EXCEPT ![c] = @ + 1]
Returns(t) == ctx' = [ctx EXCEPT ![t] = NoContext] /\ top' = [top EXCEPT ![t] = 0]

--------------------------------------------------------------------------------
(* push() *)

\* grow(): twice the slots, what lies between top and bottom copied.
Grown ==
    LET size == Cardinality(DOMAIN buffer_)
        kept == top_ .. bottom_ - 1
    IN  IF bottom_ - top_ <= size - 1 THEN buffer_
        ELSE [i \in 0 .. 2 * size - 1 |->
                IF \E j \in kept : j % (2 * size) = i
                  THEN Get(buffer_, CHOOSE j \in kept : j % (2 * size) = i) ELSE NoContext]

Put(c) ==
    /\ pc[Owner] = "idle"
    /\ c \in unpushed
    /\ unpushed' = unpushed \ {c}
    /\ buffer_' = [Grown EXCEPT ![bottom_ % Cardinality(DOMAIN Grown)] = c]
    /\ Goes(Owner, "publish")
    /\ UNCHANGED <<top_, bottom_, top, ctx, taken, losses>>

PublishBottom ==
    /\ pc[Owner] = "publish"
    /\ bottom_' = bottom_ + 1
    /\ raced' = FALSE
    /\ buried' = IF raced THEN buried \cup {Get(buffer_, bottom_)} ELSE buried
    /\ Goes(Owner, "idle")
    /\ UNCHANGED <<top_, buffer_, top, ctx, unpushed, taken>>

--------------------------------------------------------------------------------
(* pop() *)

LowerBottom ==
    /\ pc[Owner] = "idle"
    /\ bottom_' = bottom_ - 1
    /\ Goes(Owner, "top")
    /\ UNCHANGED <<top_, buffer_, top, ctx, unpushed, taken, losses>>

NeverLast(i) == FALSE                   \* mutant: the last element is not raced for
IsLast(i) == i = bottom_

LoadTop ==
    /\ pc[Owner] = "top"
    /\ \/ /\ top_ > bottom_
          /\ Goes(Owner, "restore")
          /\ UNCHANGED <<top, ctx, taken>>
       \/ /\ top_ <= bottom_ /\ IsLast(top_)
          /\ ctx' = [ctx EXCEPT ![Owner] = Get(buffer_, bottom_)]
          /\ top' = [top EXCEPT ![Owner] = top_]
          /\ Goes(Owner, "last")
          /\ UNCHANGED taken
       \/ /\ top_ <= bottom_ /\ ~ IsLast(top_)
          /\ Takes(Get(buffer_, bottom_))
          /\ Goes(Owner, "idle")
          /\ UNCHANGED <<top, ctx>>
    /\ UNCHANGED <<top_, bottom_, buffer_, unpushed, losses>>

\* The race for the last element.  If it is lost, pop() returns without restoring
\* bottom_, which stays one below top_: the next push() brings them level, and
\* what it has stored lies below top_, where nobody looks.
TakeLast ==
    /\ pc[Owner] = "last"
    /\ Returns(Owner)
    /\ \/ /\ top_ = top[Owner]
          /\ top_' = top_ + 1
          /\ Takes(ctx[Owner])
          /\ Goes(Owner, "restore")
          /\ UNCHANGED raced
       \/ /\ top_ # top[Owner]
          /\ raced' = TRUE
          /\ Goes(Owner, "idle")
          /\ UNCHANGED <<top_, taken>>
    /\ UNCHANGED <<bottom_, buffer_, unpushed, buried>>

RestoreBottom ==
    /\ pc[Owner] = "restore"
    /\ bottom_' = bottom_ + 1
    /\ Goes(Owner, "idle")
    /\ UNCHANGED <<top_, buffer_, top, ctx, unpushed, taken, losses>>

--------------------------------------------------------------------------------
(* steal() *)

Steal(t) ==
    /\ t # Owner /\ pc[t] = "idle"
    /\ top' = [top EXCEPT ![t] = top_]
    /\ Goes(t, "bottom")
    /\ UNCHANGED <<top_, bottom_, buffer_, ctx, unpushed, taken, losses>>

LoadBottom(t) ==
    /\ pc[t] = "bottom"
    /\ \/ top[t] < bottom_ /\ Goes(t, "read") /\ UNCHANGED <<top, ctx>>
       \/ top[t] >= bottom_ /\ Goes(t, "idle") /\ Returns(t)
    /\ UNCHANGED <<top_, bottom_, buffer_, unpushed, taken, losses>>

ReadSlot(t) ==
    /\ pc[t] = "read"
    /\ ctx' = [ctx EXCEPT ![t] = Get(buffer_, top[t])]
    /\ Goes(t, "cas")
    /\ UNCHANGED <<top_, bottom_, buffer_, top, unpushed, taken, losses>>

Cas(t) ==
    /\ pc[t] = "cas"
    /\ Goes(t, "idle")
    /\ Returns(t)
    /\ \/ /\ top_ = top[t]
          /\ top_' = top_ + 1
          /\ Takes(ctx[t])
       \/ top_ # top[t] /\ UNCHANGED <<top_, taken>>
    /\ UNCHANGED <<bottom_, buffer_, unpushed, losses>>

Next ==
    \/ \E c \in Contexts : Put(c)
    \/ PublishBottom \/ LowerBottom \/ LoadTop \/ TakeLast \/ RestoreBottom
    \/ \E t \in Threads : Steal(t) \/ LoadBottom(t) \/ ReadSlot(t) \/ Cas(t)

Spec == Init /\ [][Next]_vars

--------------------------------------------------------------------------------

Queued == {Get(buffer_, i) : i \in top_ .. bottom_ - 1}
\* What the owner is about to publish, and what its pop() has not given back yet.
InPush == IF pc[Owner] = "publish" THEN {Get(buffer_, bottom_)} ELSE {}
InPop == IF pc[Owner] \in {"top", "last"} /\ top_ <= bottom_ THEN {Get(buffer_, bottom_)} ELSE {}

\* Whatever was pushed is in the deque, under way, or was taken.
Taken == {c \in Contexts : taken[c] > 0}
Lost == Contexts \ (unpushed \cup Queued \cup InPush \cup InPop \cup Taken)

\* No context is handed out twice, nor handed out while it is still in the deque;
\* and none is lost but the first that is pushed after a pop() has lost the last
\* element to a thief (chase_lev_queue.hpp:139-141).
HandedOutOnce ==
    /\ \A c \in Contexts : taken[c] <= 1
    /\ (Queued \cup InPush \cup InPop) \cap Taken = {}
    /\ Lost \subseteq buried

\* "queue is empty" (chase_lev_queue.hpp:146): when pop() finds top_ above the
\* bottom it has stored, whatever was pushed has been taken.
EmptyWhenTaken ==
    pc[Owner] = "top" /\ top_ > bottom_ => Contexts \ unpushed = Taken
================================================================================
