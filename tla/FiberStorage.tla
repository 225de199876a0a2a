----------------------------- MODULE FiberStorage ------------------------------
(***************************************************************************)
(* fiber_specific_ptr: each context keeps a map from the address of such a *)
(* pointer to the value it has stored there and the cleanup function of    *)
(* the pointer that stored it.  A fiber's values are cleaned up when its   *)
(* function has returned; those of a main context are not.                 *)
(*                                                                         *)
(* The contexts share a thread: a call is one step, and any of them may    *)
(* make the next one.  A pointer may be destroyed while other contexts     *)
(* have values of it, and another may be made at its address.              *)
(***************************************************************************)
EXTENDS Naturals, FiniteSets

CONSTANTS
    Fibers, Main,
    Addresses,      \* where fiber_specific_ptr objects may live
    Values, NoValue,
    MaxPointers,    \* bound: pointers ever made
    Careful         \* clients store nothing on top of what a context has stored

Contexts == Fibers \cup {Main}

StorageAssumption ==
    /\ Main \notin Fibers /\ NoValue \notin Values
    /\ MaxPointers \in Nat /\ Careful \in BOOLEAN

VARIABLES
    cleanup_fn_,    \* the pointer at each address, by its cleanup function; 0: none
    fss_data_,      \* fss_data_[c][a]: what c has stored at a
    ended,          \* the contexts that are gone
    given,          \* the pointer that each value was given to; 0: it is the client's
    cleaned,        \* how often each value was cleaned up
    last,           \* what each context has given last to the pointer at each address
    pointers        \* how many pointers were made

storage == <<cleanup_fn_, fss_data_, ended, given, cleaned, last, pointers>>

Pointers == 1..MaxPointers
NoEntry == [vp |-> NoValue, cleanup_function |-> 0]

StorageTypeOK ==
    /\ cleanup_fn_ \in [Addresses -> Pointers \cup {0}]
    /\ fss_data_ \in [Contexts -> [Addresses ->
                        [vp : Values \cup {NoValue}, cleanup_function : Pointers \cup {0}]]]
    /\ ended \subseteq Contexts
    /\ given \in [Values -> Pointers \cup {0}]
    /\ cleaned \in [Values -> Nat]
    /\ last \in [Contexts -> [Addresses -> Values \cup {NoValue}]]
    /\ pointers \in 0..MaxPointers

Init ==
    /\ cleanup_fn_ = [a \in Addresses |-> 0]
    /\ fss_data_ = [c \in Contexts |-> [a \in Addresses |-> NoEntry]]
    /\ ended = {}
    /\ given = [v \in Values |-> 0]
    /\ cleaned = [v \in Values |-> 0]
    /\ last = [c \in Contexts |-> [a \in Addresses |-> NoValue]]
    /\ pointers = 0

Lives(a) == cleanup_fn_[a] # 0
HasEntry(c, a) == fss_data_[c][a] # NoEntry

get_fss_data(c, a) == fss_data_[c][a].vp

\* do_cleanup() of the entries of c at some addresses; it leaves nullptr alone.
CleanUp(c, addresses) ==
    cleaned' = [v \in Values |->
                  cleaned[v] + Cardinality({a \in addresses : get_fss_data(c, a) = v})]

\* mutant: release() cleans up as well
AlwaysCleans(cleanup_existing) == TRUE
Cleans(cleanup_existing) == cleanup_existing

\* insert() leaves an entry that a map has as it is.
set_fss_data(c, a, data, cleanup_existing) ==
    /\ fss_data_' = [fss_data_ EXCEPT ![c][a] =
          IF ~HasEntry(c, a) THEN [vp |-> data, cleanup_function |-> cleanup_fn_[a]]
          ELSE IF data # NoValue THEN @
          ELSE NoEntry]
    /\ CleanUp(c, IF Cleans(cleanup_existing) THEN {a} ELSE {})

\* fiber_specific_ptr()
Construct(a) ==
    /\ ~Lives(a) /\ pointers < MaxPointers
    /\ pointers' = pointers + 1
    /\ cleanup_fn_' = [cleanup_fn_ EXCEPT ![a] = pointers + 1]
    /\ last' = [c \in Contexts |-> [last[c] EXCEPT ![a] = NoValue]]
    /\ UNCHANGED <<fss_data_, ended, given, cleaned>>

\* ~fiber_specific_ptr(), by c: only its own value is cleaned up; where it has
\* none it gets an entry that holds nullptr.
Destroy(c, a) ==
    /\ Lives(a)
    /\ set_fss_data(c, a, NoValue, TRUE)
    /\ cleanup_fn_' = [cleanup_fn_ EXCEPT ![a] = 0]
    /\ UNCHANGED <<ended, given, last, pointers>>

\* reset(); with what get() returns already it does nothing.
Reset(c, a, t) ==
    /\ Lives(a) /\ get_fss_data(c, a) # t
    /\ t \in Values => given[t] = 0
    /\ Careful /\ t \in Values => ~HasEntry(c, a)
    /\ set_fss_data(c, a, t, TRUE)
    /\ given' = [v \in Values |-> IF v = t THEN cleanup_fn_[a] ELSE given[v]]
    /\ last' = [last EXCEPT ![c][a] = t]
    /\ UNCHANGED <<cleanup_fn_, ended, pointers>>

\* release() hands the value back.
Release(c, a) ==
    /\ Lives(a)
    /\ set_fss_data(c, a, NoValue, FALSE)
    /\ given' = [v \in Values |-> IF v = get_fss_data(c, a) THEN 0 ELSE given[v]]
    /\ last' = [last EXCEPT ![c][a] = NoValue]
    /\ UNCHANGED <<cleanup_fn_, ended, pointers>>

\* The function of a fiber has returned.
Terminate(f) ==
    /\ CleanUp(f, Addresses)
    /\ fss_data_' = [fss_data_ EXCEPT ![f] = [a \in Addresses |-> NoEntry]]
    /\ ended' = ended \cup {f}
    /\ UNCHANGED <<cleanup_fn_, given, last, pointers>>

\* The thread ends: ~context() drops what main has stored.
EndThread ==
    /\ Fibers \subseteq ended
    /\ ended' = ended \cup {Main}
    /\ UNCHANGED <<cleanup_fn_, fss_data_, given, cleaned, last, pointers>>

StorageNext ==
    \E c \in Contexts \ ended :
        \/ \E a \in Addresses :
              \/ Construct(a) \/ Destroy(c, a) \/ Release(c, a)
              \/ \E t \in Values \cup {NoValue} : Reset(c, a, t)
        \/ c \in Fibers /\ Terminate(c)
        \/ c = Main /\ EndThread

StorageSpec == Init /\ [][StorageNext]_storage

--------------------------------------------------------------------------------

\* A value that was given to a fiber_specific_ptr is in the map of one context,
\* with the cleanup function of that very pointer although the pointer may be gone
\* and another live at its address, or it was cleaned up once; never both, and not
\* after release().  No fiber takes a value with it that nobody cleans up.
ValuesHaveOneOwner ==
    /\ StorageTypeOK
    /\ \A v \in Values :
        LET Entries == {e \in Contexts \X Addresses : get_fss_data(e[1], e[2]) = v} IN
        /\ cleaned[v] + Cardinality(Entries) = IF given[v] = 0 THEN 0 ELSE 1
        /\ \A e \in Entries :
              /\ fss_data_[e[1]][e[2]].cleanup_function = given[v]
              /\ e[1] \in ended => e[1] = Main

\* get() returns what the context has given last to that pointer.
GetReturnsLast ==
    \A c \in Contexts \ ended, a \in Addresses : Lives(a) => get_fss_data(c, a) = last[c][a]
================================================================================
