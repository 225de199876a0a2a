------------------------------- MODULE IOProofs -------------------------------
(***************************************************************************)
(* Safety of the poller in both builds, each by an inductive invariant:    *)
(* for any fibers, batches and sizes of the ring.  On Linux for clients    *)
(* that send only what is asked for, and one connection: what the others   *)
(* do to a fiber that waits for something else is a defect of the code.    *)
(***************************************************************************)
EXTENDS MCIOPoller, FiniteSetTheorems, SequenceTheorems, TLAPS

(***************************************************************************)
(* The invariants.                                                         *)
(***************************************************************************)

Contexts == Fibers \cup {Main}

\* x is in the queue, and y behind it.
IsBefore(x, y, queue) == \E i, j \in DOMAIN queue : i < j /\ queue[i] = x /\ queue[j] = y

\* A context runs, or is ready, or waits.
Links ==
    /\ active \in Contexts
    /\ ready \in Seq(Contexts) /\ IsInjective(ready) /\ active \notin ToSet(ready)
    /\ active # Main => Main \in ToSet(ready)
    /\ wait_queue_ \subseteq Fibers /\ active \notin wait_queue_
    /\ wait_queue_ \cap ToSet(ready) = {}

\* The ring holds messages only between poll() and the end of the loop's turn.
Turn ==
    /\ ring_buffer_ \in Seq(Message) /\ Len(ring_buffer_) <= Capacity
    /\ polled \in BOOLEAN
    /\ polled => active = Main
    /\ ring_buffer_ # <<>> => polled

\* How many events f waits for.
Awaited(f) ==
    IF f \notin wait_queue_ THEN 0
    ELSE CASE op[f] = "single" -> 1
           [] op[f] = "batch" -> remaining_[f]
           [] OTHER -> 0

\* Whose message is registered for the listening socket, once a client has come.
WaitsForClient(f) == op[f] = "accept" /\ f \in wait_queue_ /\ count_["accept"][f] = 1

\* It has been resumed, and runs before the loop polls again.
IsNotified(f) ==
    /\ op[f] = "accept" /\ f \notin wait_queue_
    /\ \/ active = f
       \/ active = Main /\ polled /\ f \in ToSet(ready)
       \/ active # Main /\ IsBefore(f, Main, ready)

Files ==
    \A f \in Fibers :
        /\ Outstanding(f) = Awaited(f)
        /\ f \in wait_queue_ /\ op[f] = "batch" => remaining_[f] > 0

Listening ==
    /\ backlog <= clients
    /\ clients = 0 /\ watched # NoFiber => WaitsForClient(watched)
    /\ backlog > 0 /\ watched # NoFiber => WaitsForClient(watched) \/ IsNotified(watched)
    /\ \A f \in connected : op[f] # "accept"

Connections ==
    /\ \A f \in readable : op[f] = "read"
    /\ \A f \in Fibers : op[f] \in {"read", "write"} /\ count_["connection"][f] = 1
                            => f = active \/ f \in wait_queue_

SocketMessages ==
    /\ \A i \in DOMAIN ring_buffer_ :
        /\ ring_buffer_[i].kind = "accept" => clients > 0 /\ WaitsForClient(ring_buffer_[i].fiber)
        /\ ring_buffer_[i].kind = "connection" => op[ring_buffer_[i].fiber] = "read"
    /\ \A i, j \in DOMAIN ring_buffer_ :
        ring_buffer_[i].kind = "accept" /\ ring_buffer_[j].kind = "accept" => i = j

PollerInv == TypeOK /\ Links /\ Turn /\ Files /\ Listening /\ Connections /\ SocketMessages

\* What suffices for the ring, in either build and whatever the clients do.
RingInv ==
    /\ ring_buffer_ \in Seq(Message) /\ RingHasRoom
    /\ completed \in Seq(Fibers)
    /\ connected \subseteq Fibers /\ readable \subseteq Fibers
    /\ watched \in Fibers \cup {NoFiber}

PortTyped ==
    /\ PortTypeOK
    /\ op \in [Fibers -> {"none", "single", "batch", "accept", "read", "write"}]
    /\ left \in [Fibers -> 0 .. MaxBlocks]
    /\ inflight \in [Fibers -> Nat] /\ completed \in Seq(Fibers)
    /\ \A i \in DOMAIN ring_buffer_ : ring_buffer_[i].kind = "file"
    /\ asleep \subseteq wait_queue_

\* One operation is to be started, waited for, or done.
SingleCall(f) ==
    /\ wait_num[f] = 0
    /\ \/ /\ left[f] = 1 /\ op[f] # "accept" /\ aio_count[f] = 1 /\ Outstanding(f) = 0
          /\ f = active \/ f \in asleep
       \/ left[f] = 0 /\ aio_count[f] = 1 /\ Outstanding(f) = 1 /\ f \in wait_queue_ \ asleep
       \/ left[f] = 0 /\ aio_count[f] = 0 /\ Outstanding(f) = 0 /\ f \notin wait_queue_

\* A batch that is submitted counts down from 1, since it does not wait for its events
\* yet; f sleeps for resources only.
IsSubmitting(f) ==
    /\ left[f] + wait_num[f] \in 0 .. MaxBlocks
    /\ left[f] + wait_num[f] > 0 \/ f = active
    /\ f \in wait_queue_ => f \in asleep
    /\ \/ /\ aio_count[f] = 1 /\ Outstanding(f) = wait_num[f]
          /\ f = active \/ f \in asleep
       \/ aio_count[f] \in {0, Huge} /\ Outstanding(f) < wait_num[f]

IsAwaited(f) ==
    /\ left[f] = 0 /\ wait_num[f] = 0
    /\ \/ /\ f \in wait_queue_ \ asleep
          /\ aio_count[f] <= MaxBlocks /\ Outstanding(f) <= aio_count[f]
       \/ f \notin wait_queue_ /\ aio_count[f] = 0 /\ Outstanding(f) = 0

NoCall(f) ==
    /\ left[f] = 0 /\ wait_num[f] = 0 /\ aio_count[f] = 0
    /\ Outstanding(f) = 0 /\ f \notin wait_queue_

Call(f) ==
    CASE op[f] = "none" -> NoCall(f)
      [] op[f] = "batch" -> IsSubmitting(f) \/ IsAwaited(f)
      [] OTHER -> SingleCall(f)

PortInv == Links /\ Turn /\ PortTyped /\ \A f \in Fibers : Call(f)

(***************************************************************************)
(* The ready queue, and how many events of a fiber a queue holds.          *)
(***************************************************************************)

LEMMA LinkLast ==
    ASSUME NEW S, NEW q \in Seq(S), NEW e \in S, IsInjective(q), e \notin ToSet(q)
    PROVE  /\ Append(q, e) \in Seq(S) /\ IsInjective(Append(q, e)) /\ Append(q, e) # <<>>
           /\ ToSet(Append(q, e)) = ToSet(q) \cup {e}
<1> DEFINE r == Append(q, e)
<1>1. /\ r \in Seq(S) /\ Len(r) = Len(q) + 1 /\ r[Len(q) + 1] = e
      /\ \A i \in 1..Len(q) : r[i] = q[i]
  OBVIOUS
<1>2. DOMAIN r = 1..(Len(q) + 1) /\ DOMAIN q = 1..Len(q) /\ Len(q) \in Nat
  BY <1>1
<1> HIDE DEF r
<1>3. ToSet(r) = ToSet(q) \cup {e}
  BY <1>1, <1>2 DEF ToSet
<1>4. IsInjective(r)
  BY <1>1, <1>2 DEF ToSet, IsInjective
<1>5. r # <<>>
  BY <1>1, <1>2
<1> QED BY <1>1, <1>3, <1>4, <1>5 DEF r

LEMMA UnlinkFirst ==
    ASSUME NEW S, NEW q \in Seq(S), IsInjective(q), q # <<>>
    PROVE  /\ Head(q) \in S /\ Head(q) \in ToSet(q)
           /\ Tail(q) \in Seq(S) /\ IsInjective(Tail(q))
           /\ ToSet(Tail(q)) = ToSet(q) \ {Head(q)}
<1> DEFINE r == Tail(q)
<1>1. /\ r \in Seq(S) /\ Len(r) = Len(q) - 1 /\ Head(q) = q[1] /\ Head(q) \in S
      /\ \A i \in 1..Len(r) : r[i] = q[i + 1]
  OBVIOUS
<1>2. DOMAIN r = 1..(Len(q) - 1) /\ DOMAIN q = 1..Len(q) /\ Len(q) \in Nat /\ Len(q) >= 1
  BY <1>1
<1> HIDE DEF r
<1>3. \A i \in DOMAIN r : i + 1 \in DOMAIN q /\ r[i] = q[i + 1] /\ i + 1 # 1
  BY <1>1, <1>2
<1>4. IsInjective(r)
  <2> SUFFICES ASSUME NEW i \in DOMAIN r, NEW j \in DOMAIN r, r[i] = r[j] PROVE i = j
    BY DEF IsInjective
  <2>1. i + 1 = j + 1
    BY <1>3 DEF IsInjective
  <2> QED BY <1>2, <2>1
<1>5. \A i \in DOMAIN q : q[i] = q[1] => i = 1
  BY <1>2 DEF IsInjective
<1>6. \A i \in DOMAIN r : r[i] \in ToSet(q) \ {q[1]}
  BY <1>3, <1>5 DEF ToSet
<1>7. ASSUME NEW i \in DOMAIN q, q[i] # q[1] PROVE q[i] \in ToSet(r)
  <2>1. i - 1 \in DOMAIN r /\ r[i - 1] = q[i]
    BY <1>1, <1>2, <1>7
  <2> QED BY <2>1 DEF ToSet
<1>8. ToSet(r) = ToSet(q) \ {q[1]}
  BY <1>6, <1>7 DEF ToSet
<1>9. q[1] \in ToSet(q)
  BY <1>2 DEF ToSet
<1> QED BY <1>1, <1>4, <1>8, <1>9 DEF r

\* Who is before y in a queue, and so not y, is before it in the rest or the first.
LEMMA FirstIsBefore ==
    ASSUME NEW S, NEW q \in Seq(S), IsInjective(q), NEW x, NEW y, IsBefore(x, y, q)
    PROVE  Head(q) # y /\ (Head(q) = x \/ IsBefore(x, y, Tail(q)))
<1>1. PICK i \in DOMAIN q, j \in DOMAIN q : i < j /\ q[i] = x /\ q[j] = y
  BY DEF IsBefore
<1>2. DOMAIN q = 1..Len(q) /\ Len(q) \in Nat /\ q # <<>>
  BY <1>1
<1>3. /\ Head(q) = q[1] /\ DOMAIN Tail(q) = 1..(Len(q) - 1)
      /\ \A k \in 1..(Len(q) - 1) : Tail(q)[k] = q[k + 1]
  BY <1>2
<1>4. q[1] # y
  BY <1>1, <1>2 DEF IsInjective
<1>5. CASE i = 1
  BY <1>1, <1>3, <1>4, <1>5
<1>6. CASE i # 1
  <2>1. i - 1 \in DOMAIN Tail(q) /\ j - 1 \in DOMAIN Tail(q) /\ i - 1 < j - 1
    BY <1>1, <1>2, <1>3, <1>6
  <2>2. Tail(q)[i - 1] = x /\ Tail(q)[j - 1] = y
    BY <1>1, <1>2, <1>3, <2>1
  <2> QED BY <1>3, <1>4, <2>1, <2>2 DEF IsBefore
<1> QED BY <1>5, <1>6

LEMMA LastIsBehind ==
    ASSUME NEW S, NEW q \in Seq(S), NEW y \in S
    PROVE  /\ \A x \in ToSet(q) : IsBefore(x, y, Append(q, y))
           /\ \A e \in S : \A x : IsBefore(x, y, q) => IsBefore(x, y, Append(q, e))
<1>1. \A e \in S : /\ DOMAIN Append(q, e) = 1..(Len(q) + 1) /\ Append(q, e)[Len(q) + 1] = e
                   /\ \A i \in 1..Len(q) : Append(q, e)[i] = q[i]
  OBVIOUS
<1>2. DOMAIN q = 1..Len(q) /\ Len(q) \in Nat
  OBVIOUS
<1>3. ASSUME NEW x \in ToSet(q) PROVE IsBefore(x, y, Append(q, y))
  <2>1. PICK i \in DOMAIN q : q[i] = x
    BY DEF ToSet
  <2> QED BY <1>1, <1>2, <2>1 DEF IsBefore
<1>4. ASSUME NEW e \in S, NEW x, IsBefore(x, y, q) PROVE IsBefore(x, y, Append(q, e))
  BY <1>1, <1>2, <1>4 DEF IsBefore
<1> QED BY <1>3, <1>4

Tally(s, x) == Cardinality({i \in DOMAIN s : s[i] = x})

LEMMA TallyIsFinite ==
    ASSUME NEW S, NEW s \in Seq(S), NEW x
    PROVE  /\ IsFiniteSet({i \in DOMAIN s : s[i] = x})
           /\ Tally(s, x) \in Nat
           /\ Tally(s, x) > 0 <=> \E i \in DOMAIN s : s[i] = x
<1>1. {i \in DOMAIN s : s[i] = x} \subseteq 1..Len(s) /\ Len(s) \in Nat
  OBVIOUS
<1>2. IsFiniteSet({i \in DOMAIN s : s[i] = x})
  BY <1>1, FS_Interval, FS_Subset
<1> QED BY <1>2, FS_CardinalityType, FS_EmptySet DEF Tally

LEMMA TallyOfBoth ==
    ASSUME NEW S, NEW s \in Seq(S), NEW t \in Seq(S), NEW x
    PROVE  Tally(s \o t, x) = Tally(s, x) + Tally(t, x)
<1> DEFINE A == {i \in DOMAIN s : s[i] = x}
           B == {i \in DOMAIN t : t[i] = x}
           C == {i \in DOMAIN (s \o t) : (s \o t)[i] = x}
           D == {i + Len(s) : i \in B}
<1>1. /\ DOMAIN (s \o t) = 1..(Len(s) + Len(t)) /\ DOMAIN s = 1..Len(s) /\ DOMAIN t = 1..Len(t)
      /\ Len(s) \in Nat /\ Len(t) \in Nat
      /\ \A i \in 1..Len(s) : (s \o t)[i] = s[i]
      /\ \A i \in 1..Len(t) : (s \o t)[i + Len(s)] = t[i]
  OBVIOUS
<1>2. IsFiniteSet(A) /\ IsFiniteSet(B)
  BY TallyIsFinite
<1>3. ExistsBijection(B, D)
  <2> DEFINE shift == [i \in B |-> i + Len(s)]
  <2>1. B \subseteq Int
    BY <1>1
  <2>2. shift \in Injection(B, D)
    BY <1>1, <2>1 DEF Injection, IsInjective
  <2>3. shift \in Surjection(B, D)
    BY DEF Surjection
  <2> QED BY <2>2, <2>3 DEF ExistsBijection, Bijection
<1>4. IsFiniteSet(D) /\ Cardinality(D) = Cardinality(B)
  BY <1>2, <1>3, FS_Bijection
<1>5. C = A \cup D
  <2>1. ASSUME NEW i \in C PROVE i \in A \cup D
    <3>1. CASE i <= Len(s)
      BY <1>1, <3>1
    <3>2. CASE i > Len(s)
      <4>1. i - Len(s) \in 1..Len(t) /\ (i - Len(s)) + Len(s) = i
        BY <1>1, <3>2
      <4>2. i - Len(s) \in B
        BY <1>1, <4>1
      <4> QED BY <4>1, <4>2
    <3> QED BY <1>1, <3>1, <3>2
  <2>2. ASSUME NEW i \in D PROVE i \in C
    <3>1. PICK j \in B : i = j + Len(s)
      OBVIOUS
    <3>2. j \in 1..Len(t) /\ i \in 1..(Len(s) + Len(t))
      BY <1>1, <3>1
    <3> QED BY <1>1, <3>1, <3>2
  <2>3. A \subseteq C
    BY <1>1
  <2> QED BY <2>1, <2>2, <2>3
<1>6. A \cap D = {}
  BY <1>1
<1> HIDE DEF A, B, C, D
<1>7. Cardinality(C) = Cardinality(A) + Cardinality(D) - Cardinality(A \cap D)
  BY <1>2, <1>4, <1>5, FS_Union
<1>8. Cardinality(A \cap D) = 0 /\ Cardinality(A) \in Nat /\ Cardinality(D) \in Nat
  BY <1>2, <1>4, <1>6, FS_EmptySet, FS_CardinalityType
<1>9. Cardinality(C) = Cardinality(A) + Cardinality(B)
  BY <1>4, <1>7, <1>8
<1>10. Tally(s \o t, x) = Cardinality(C) /\ Tally(s, x) = Cardinality(A) /\ Tally(t, x) = Cardinality(B)
  BY DEF Tally, A, B, C
<1> QED BY <1>9, <1>10

LEMMA TallyOfOne ==
    ASSUME NEW x, NEW e
    PROVE  Tally(<<e>>, x) = IF e = x THEN 1 ELSE 0
<1>1. {i \in DOMAIN <<e>> : <<e>>[i] = x} = IF e = x THEN {1} ELSE {}
  OBVIOUS
<1> QED BY <1>1, FS_EmptySet, FS_Singleton DEF Tally

LEMMA TallyMoves ==
    ASSUME NEW S, NEW s \in Seq(S), NEW x
    PROVE  /\ \A e \in S : Tally(Append(s, e), x) = Tally(s, x) + (IF e = x THEN 1 ELSE 0)
           /\ s # <<>> => Tally(s, x) = Tally(Tail(s), x) + (IF Head(s) = x THEN 1 ELSE 0)
<1>1. \A e \in S : Append(s, e) = s \o <<e>> /\ <<e>> \in Seq(S)
  OBVIOUS
<1>2. ASSUME s # <<>> PROVE s = <<Head(s)>> \o Tail(s) /\ <<Head(s)>> \in Seq(S) /\ Tail(s) \in Seq(S)
  BY <1>2
<1>3. ASSUME s # <<>> PROVE Tally(s, x) = Tally(<<Head(s)>>, x) + Tally(Tail(s), x)
  <2>1. <<Head(s)>> \in Seq(S) /\ Tail(s) \in Seq(S)
    BY <1>2, <1>3
  <2>2. Tally(<<Head(s)>> \o Tail(s), x) = Tally(<<Head(s)>>, x) + Tally(Tail(s), x)
    BY <2>1, TallyOfBoth
  <2> QED BY <1>2, <1>3, <2>2
<1>4. s # <<>> => Tally(Tail(s), x) \in Nat
  BY <1>2, TallyIsFinite
<1>5. ASSUME NEW e \in S PROVE Tally(Append(s, e), x) = Tally(s, x) + Tally(<<e>>, x)
  <2> DEFINE t == <<e>>
  <2>1. t \in Seq(S) /\ Append(s, e) = s \o t
    BY <1>1
  <2> HIDE DEF t
  <2>2. Tally(s \o t, x) = Tally(s, x) + Tally(t, x)
    BY <2>1, TallyOfBoth
  <2>3. Tally(Append(s, e), x) = Tally(s, x) + Tally(t, x)
    BY <2>1, <2>2
  <2> QED BY <2>3 DEF t
<1>6. ASSUME NEW e \in S
      PROVE  Tally(Append(s, e), x) = Tally(s, x) + (IF e = x THEN 1 ELSE 0)
  <2>1. Tally(<<e>>, x) = IF e = x THEN 1 ELSE 0
    BY TallyOfOne
  <2> QED BY <1>5, <2>1
<1>7. ASSUME s # <<>> PROVE Tally(s, x) = Tally(Tail(s), x) + (IF Head(s) = x THEN 1 ELSE 0)
  <2>1. Tally(<<Head(s)>>, x) = IF Head(s) = x THEN 1 ELSE 0
    BY TallyOfOne
  <2> QED BY <1>3, <1>4, <1>7, <2>1
<1> QED BY <1>6, <1>7

\* The first n events go from the kernel to the ring.
FetchedFirst(n) == [i \in 1..n |-> Msg("file", completed[i])]

LEMMA TallyOfFetched ==
    ASSUME completed \in Seq(Fibers), NEW n \in 0..Len(completed), NEW f \in Fibers
    PROVE  /\ FetchedFirst(n) \in Seq(Message) /\ Len(FetchedFirst(n)) = n
           /\ SubSeq(completed, n + 1, Len(completed)) \in Seq(Fibers)
           /\ Tally(completed, f) = Tally(FetchedFirst(n), Msg("file", f))
                                      + Tally(SubSeq(completed, n + 1, Len(completed)), f)
<1> DEFINE a == SubSeq(completed, 1, n)
           b == SubSeq(completed, n + 1, Len(completed))
<1>1. n \in Nat /\ n <= Len(completed) /\ Len(completed) \in Nat
  OBVIOUS
<1>2. /\ a \in Seq(Fibers) /\ Len(a) = n /\ \A i \in 1..n : a[i] = completed[i]
      /\ b \in Seq(Fibers)
  BY <1>1
<1>3. completed = a \o b
  <2>1. a \o b = SubSeq(completed, 1, Len(completed))
    <3>1. 1 \in 1..(Len(completed) + 1) /\ n \in (1 - 1)..Len(completed) /\ Len(completed) \in n..Len(completed)
      BY <1>1
    <3> QED BY <3>1, ConcatAdjacentSubSeq
  <2> QED BY <2>1, SubSeqFull
<1>4. Tally(completed, f) = Tally(a, f) + Tally(b, f)
  <2>1. Tally(a \o b, f) = Tally(a, f) + Tally(b, f)
    <3> HIDE DEF a, b
    <3> QED BY <1>2, TallyOfBoth
  <2> QED BY <1>3, <2>1
<1>5. \A i \in 1..n : completed[i] \in Fibers
  BY <1>1
<1>6. FetchedFirst(n) \in Seq(Message) /\ Len(FetchedFirst(n)) = n
  BY <1>1, <1>5, IsASeq DEF FetchedFirst, Msg, Message
<1>7. {i \in DOMAIN a : a[i] = f} = {i \in DOMAIN FetchedFirst(n) : FetchedFirst(n)[i] = Msg("file", f)}
  <2>1. DOMAIN a = 1..n /\ DOMAIN FetchedFirst(n) = 1..n
    BY <1>1, <1>2 DEF FetchedFirst
  <2>2. \A i \in 1..n : a[i] = f <=> FetchedFirst(n)[i] = Msg("file", f)
    BY <1>2 DEF FetchedFirst, Msg
  <2> QED BY <2>1, <2>2
<1> QED BY <1>2, <1>4, <1>6, <1>7 DEF Tally

\* The sequence of the elements of a set, in some order.
LEMMA EveryElementOnce ==
    ASSUME NEW S, NEW T, S \subseteq T, IsFiniteSet(S)
    PROVE  /\ SetToSeq(S) \in Seq(T) /\ Len(SetToSeq(S)) = Cardinality(S)
           /\ ToSet(SetToSeq(S)) \subseteq S /\ IsInjective(SetToSeq(S))
<1>1. Cardinality(S) \in Nat /\ \E f \in [1..Cardinality(S) -> S] : IsInjective(f)
  <2>1. Cardinality(S) \in Nat /\ ExistsBijection(1..Cardinality(S), S)
    BY FS_CardinalityType
  <2> QED BY <2>1 DEF ExistsBijection, Bijection, Injection
<1> DEFINE q == SetToSeq(S)
<1>2. q \in [1..Cardinality(S) -> S] /\ IsInjective(q)
  BY <1>1 DEF SetToSeq
<1> HIDE DEF q
<1>3. q \in [1..Cardinality(S) -> T]
  BY <1>2
<1>4. q \in Seq(T) /\ Len(q) = Cardinality(S)
  BY <1>1, <1>3
<1> QED BY <1>2, <1>4 DEF ToSet, q

(***************************************************************************)
(* Who runs next, and the events that are on their way.                    *)
(***************************************************************************)

\* f runs before the loop does.
RunsNext(f) == active' = f \/ (active' # Main /\ IsBefore(f, Main, ready'))

LEMMA NextIsFirst ==
    ASSUME NEW queue \in Seq(Contexts), IsInjective(queue), Main \in ToSet(queue),
           active' = Head(queue), ready' = Tail(queue),
           wait_queue_' \subseteq Fibers, wait_queue_' \cap ToSet(queue) = {}
    PROVE  Links' /\ \A f : IsBefore(f, Main, queue) => RunsNext(f)
<1>1. queue # <<>>
  BY DEF ToSet
<1>2. /\ Head(queue) \in Contexts /\ Head(queue) \in ToSet(queue)
      /\ Tail(queue) \in Seq(Contexts) /\ IsInjective(Tail(queue))
      /\ ToSet(Tail(queue)) = ToSet(queue) \ {Head(queue)}
  BY <1>1, UnlinkFirst
<1>3. Links'
  BY <1>2 DEF Links
<1> QED BY <1>3, FirstIsBefore DEF RunsNext

LEMMA YieldLinks ==
    ASSUME Links, SwitchFrom(<<active>>), wait_queue_' = wait_queue_
    PROVE  /\ Links'
           /\ \A f : IsBefore(f, Main, ready) => RunsNext(f)
           /\ active = Main => \A f \in ToSet(ready) : RunsNext(f)
<1> DEFINE queue == Append(ready, active)
<1>1. /\ queue \in Seq(Contexts) /\ IsInjective(queue)
      /\ ToSet(queue) = ToSet(ready) \cup {active}
  BY LinkLast DEF Links
<1>2. ready \o <<active>> = queue
  BY DEF Links
<1>3. active' = Head(queue) /\ ready' = Tail(queue)
  BY <1>2 DEF SwitchFrom
<1>4. /\ \A f : IsBefore(f, Main, ready) => IsBefore(f, Main, queue)
      /\ active = Main => \A f \in ToSet(ready) : IsBefore(f, Main, queue)
  BY LastIsBehind DEF Links, Contexts
<1>5. Main \in ToSet(queue) /\ wait_queue_' \subseteq Fibers /\ wait_queue_' \cap ToSet(queue) = {}
  BY <1>1 DEF Links
<1> HIDE DEF queue
<1>6. Links' /\ \A f : IsBefore(f, Main, queue) => RunsNext(f)
  BY <1>1, <1>3, <1>5, NextIsFirst
<1> QED BY <1>4, <1>6

LEMMA SuspendLinks ==
    ASSUME Links, NEW f \in Fibers, active = f, Suspend(f)
    PROVE  /\ Links' /\ wait_queue_' = wait_queue_ \cup {f}
           /\ \A g : IsBefore(g, Main, ready) => RunsNext(g)
<1>1. ready \o <<>> = ready
  BY ConcatEmptySeq DEF Links
<1>2. active' = Head(ready) /\ ready' = Tail(ready) /\ wait_queue_' = wait_queue_ \cup {f}
  BY <1>1 DEF Suspend, SwitchFrom
<1>3. active # Main
  BY PollerAssumption
<1>4. Main \in ToSet(ready) /\ wait_queue_' \subseteq Fibers /\ wait_queue_' \cap ToSet(ready) = {}
  BY <1>2, <1>3 DEF Links
<1> QED BY <1>2, <1>4, NextIsFirst DEF Links

LEMMA ResumeLinks ==
    ASSUME Links, active = Main, NEW f \in wait_queue_, Resume(f)
    PROVE  /\ Links' /\ wait_queue_' = wait_queue_ \ {f} /\ active' = Main
           /\ ToSet(ready') = ToSet(ready) \cup {f}
<1>1. f \in Fibers /\ f \notin ToSet(ready)
  BY DEF Links
<1>2. ready' = Append(ready, f) /\ wait_queue_' = wait_queue_ \ {f} /\ active' = Main
  BY <1>1 DEF Resume, Without
<1>3. /\ Append(ready, f) \in Seq(Contexts) /\ IsInjective(Append(ready, f))
      /\ ToSet(Append(ready, f)) = ToSet(ready) \cup {f}
  BY <1>1, LinkLast DEF Links, Contexts
<1>4. f # Main
  BY <1>1, PollerAssumption
<1> QED BY <1>1, <1>2, <1>3, <1>4 DEF Links

\* While a fiber runs the ring is empty.
LEMMA FiberRuns ==
    ASSUME Turn, active \in Fibers
    PROVE  ring_buffer_ = <<>> /\ polled = FALSE
BY PollerAssumption DEF Turn

LEMMA EventsAreCounted ==
    ASSUME completed \in Seq(Fibers), ring_buffer_ \in Seq(Message),
           inflight \in [Fibers -> Nat], NEW f \in Fibers
    PROVE  /\ Outstanding(f) = inflight[f] + Tally(completed, f) + Tally(ring_buffer_, Msg("file", f))
           /\ Outstanding(f) \in Nat
           /\ inflight[f] <= Outstanding(f)
           /\ \A i \in DOMAIN ring_buffer_ : ring_buffer_[i] = Msg("file", f) => Outstanding(f) > 0
<1>1. Tally(completed, f) \in Nat
  BY TallyIsFinite
<1>2. /\ Tally(ring_buffer_, Msg("file", f)) \in Nat
      /\ \A i \in DOMAIN ring_buffer_ :
            ring_buffer_[i] = Msg("file", f) => Tally(ring_buffer_, Msg("file", f)) > 0
  BY TallyIsFinite
<1>3. Outstanding(f) = inflight[f] + Tally(completed, f) + Tally(ring_buffer_, Msg("file", f))
  BY DEF Outstanding, Tally
<1> QED BY <1>1, <1>2, <1>3

LEMMA EventsStay ==
    ASSUME UNCHANGED <<completed, ring_buffer_>>, NEW f \in Fibers, inflight'[f] = inflight[f]
    PROVE  Outstanding(f)' = Outstanding(f)
BY DEF Outstanding

\* What the kernel accepts for f is what f waits for besides.
LEMMA EventsAdded ==
    ASSUME completed \in Seq(Fibers), ring_buffer_ \in Seq(Message),
           inflight \in [Fibers -> Nat], UNCHANGED <<completed, ring_buffer_>>,
           NEW f \in Fibers, NEW n \in Nat, inflight' = [inflight EXCEPT ![f] = @ + n]
    PROVE  /\ inflight' \in [Fibers -> Nat]
           /\ \A g \in Fibers : Outstanding(g)' = Outstanding(g) + (IF g = f THEN n ELSE 0)
<1>1. inflight' \in [Fibers -> Nat]
  OBVIOUS
<1>2. ASSUME NEW g \in Fibers
      PROVE  Outstanding(g)' = Outstanding(g) + (IF g = f THEN n ELSE 0)
  <2>1. Tally(completed, g) \in Nat /\ Tally(ring_buffer_, Msg("file", g)) \in Nat
    BY TallyIsFinite
  <2>2. inflight'[g] = inflight[g] + (IF g = f THEN n ELSE 0)
    OBVIOUS
  <2>3. /\ Outstanding(g) = inflight[g] + Tally(completed, g) + Tally(ring_buffer_, Msg("file", g))
        /\ Outstanding(g)' = inflight'[g] + Tally(completed, g) + Tally(ring_buffer_, Msg("file", g))
    BY DEF Outstanding, Tally
  <2> QED BY <2>1, <2>2, <2>3
<1> QED BY <1>1, <1>2

\* An operation that completes is queued by the kernel.
LEMMA EventsComplete ==
    ASSUME completed \in Seq(Fibers), ring_buffer_ \in Seq(Message),
           inflight \in [Fibers -> Nat], UNCHANGED ring_buffer_,
           NEW f \in Fibers, inflight[f] > 0,
           inflight' = [inflight EXCEPT ![f] = @ - 1], completed' = Append(completed, f)
    PROVE  /\ inflight' \in [Fibers -> Nat] /\ completed' \in Seq(Fibers)
           /\ \A g \in Fibers : Outstanding(g)' = Outstanding(g)
<1>1. inflight' \in [Fibers -> Nat] /\ completed' \in Seq(Fibers)
  OBVIOUS
<1>2. ASSUME NEW g \in Fibers PROVE Outstanding(g)' = Outstanding(g)
  <2>1. Tally(completed, g) \in Nat /\ Tally(ring_buffer_, Msg("file", g)) \in Nat
    BY TallyIsFinite
  <2>2. inflight'[g] = inflight[g] - (IF g = f THEN 1 ELSE 0)
    OBVIOUS
  <2>3. Tally(completed', g) = Tally(completed, g) + (IF f = g THEN 1 ELSE 0)
    BY TallyMoves
  <2>4. /\ Outstanding(g) = inflight[g] + Tally(completed, g) + Tally(ring_buffer_, Msg("file", g))
        /\ Outstanding(g)' = inflight'[g] + Tally(completed', g) + Tally(ring_buffer_, Msg("file", g))
    BY DEF Outstanding, Tally
  <2> QED BY <2>1, <2>2, <2>3, <2>4
<1> QED BY <1>1, <1>2

\* The loop takes the next message out of the ring.
LEMMA EventFinished ==
    ASSUME completed \in Seq(Fibers), ring_buffer_ \in Seq(Message), inflight \in [Fibers -> Nat],
           UNCHANGED <<inflight, completed>>, ring_buffer_ # <<>>,
           ring_buffer_' = Tail(ring_buffer_)
    PROVE  /\ Head(ring_buffer_) \in Message /\ ring_buffer_' \in Seq(Message)
           /\ Len(ring_buffer_') = Len(ring_buffer_) - 1
           /\ \A i \in DOMAIN ring_buffer_' :
                 i + 1 \in DOMAIN ring_buffer_ /\ ring_buffer_'[i] = ring_buffer_[i + 1]
           /\ 1 \in DOMAIN ring_buffer_ /\ Head(ring_buffer_) = ring_buffer_[1]
           /\ \A g \in Fibers :
                /\ Head(ring_buffer_) = Msg("file", g) =>
                      Outstanding(g)' = Outstanding(g) - 1 /\ Outstanding(g) > 0
                /\ Head(ring_buffer_) # Msg("file", g) => Outstanding(g)' = Outstanding(g)
<1>1. /\ Head(ring_buffer_) \in Message /\ ring_buffer_' \in Seq(Message)
      /\ Len(ring_buffer_') = Len(ring_buffer_) - 1
      /\ \A i \in DOMAIN ring_buffer_' :
            i + 1 \in DOMAIN ring_buffer_ /\ ring_buffer_'[i] = ring_buffer_[i + 1]
      /\ 1 \in DOMAIN ring_buffer_ /\ Head(ring_buffer_) = ring_buffer_[1]
  OBVIOUS
<1>2. ASSUME NEW g \in Fibers
      PROVE  Outstanding(g) = Outstanding(g)' + (IF Head(ring_buffer_) = Msg("file", g) THEN 1 ELSE 0)
  <2>1. Tally(completed, g) \in Nat /\ Tally(ring_buffer_', Msg("file", g)) \in Nat
    BY <1>1, TallyIsFinite
  <2>2. Tally(ring_buffer_, Msg("file", g)) =
          Tally(ring_buffer_', Msg("file", g)) + (IF Head(ring_buffer_) = Msg("file", g) THEN 1 ELSE 0)
    BY TallyMoves
  <2>3. /\ Outstanding(g) = inflight[g] + Tally(completed, g) + Tally(ring_buffer_, Msg("file", g))
        /\ Outstanding(g)' = inflight[g] + Tally(completed, g) + Tally(ring_buffer_', Msg("file", g))
    BY DEF Outstanding, Tally
  <2> QED BY <2>1, <2>2, <2>3
<1>3. ASSUME NEW g \in Fibers PROVE Outstanding(g)' \in Nat
  <2>1. Tally(completed, g) \in Nat /\ Tally(ring_buffer_', Msg("file", g)) \in Nat
    BY <1>1, TallyIsFinite
  <2>2. Outstanding(g)' = inflight[g] + Tally(completed, g) + Tally(ring_buffer_', Msg("file", g))
    BY DEF Outstanding, Tally
  <2> QED BY <2>1, <2>2
<1>4. ASSUME NEW g \in Fibers
      PROVE  /\ Head(ring_buffer_) = Msg("file", g) =>
                   Outstanding(g)' = Outstanding(g) - 1 /\ Outstanding(g) > 0
             /\ Head(ring_buffer_) # Msg("file", g) => Outstanding(g)' = Outstanding(g)
  <2> PICK n \in Nat : n = Outstanding(g)'
    BY <1>3
  <2>1. \A k : (k = n + 1 => n = k - 1 /\ k > 0) /\ (k = n + 0 => n = k)
    OBVIOUS
  <2>2. CASE Head(ring_buffer_) = Msg("file", g)
    <3>1. Outstanding(g) = n + 1
      BY <1>2, <2>2
    <3> QED BY <2>1, <2>2, <3>1
  <2>3. CASE Head(ring_buffer_) # Msg("file", g)
    <3>1. Outstanding(g) = n + 0
      BY <1>2, <2>3
    <3> QED BY <2>1, <2>3, <3>1
  <2> QED BY <2>2, <2>3
<1> QED BY <1>1, <1>4

\* The first n events go to the ring, among messages that are none of files.
LEMMA EventsPolled ==
    ASSUME completed \in Seq(Fibers), ring_buffer_ \in Seq(Message), inflight \in [Fibers -> Nat],
           UNCHANGED inflight, NEW n \in 0..Len(completed),
           NEW front \in Seq(Message), NEW back \in Seq(Message),
           \A i \in DOMAIN front : front[i].kind # "file",
           \A i \in DOMAIN back : back[i].kind # "file",
           completed' = SubSeq(completed, n + 1, Len(completed)),
           ring_buffer_' = ring_buffer_ \o front \o FetchedFirst(n) \o back
    PROVE  /\ completed' \in Seq(Fibers) /\ ring_buffer_' \in Seq(Message)
           /\ Len(ring_buffer_') = Len(ring_buffer_) + Len(front) + n + Len(back)
           /\ \A g \in Fibers : Outstanding(g)' = Outstanding(g)
<1>1. /\ FetchedFirst(n) \in Seq(Message) /\ Len(FetchedFirst(n)) = n
      /\ completed' \in Seq(Fibers)
  <2>1. n \in Nat /\ n <= Len(completed) /\ \A i \in 1..n : completed[i] \in Fibers
    OBVIOUS
  <2> QED BY <2>1, IsASeq DEF FetchedFirst, Msg, Message
<1> DEFINE a == ring_buffer_ \o front
           b == a \o FetchedFirst(n)
<1>2. a \in Seq(Message) /\ Len(a) = Len(ring_buffer_) + Len(front)
  OBVIOUS
<1> HIDE DEF a
<1>3. b \in Seq(Message) /\ Len(b) = Len(a) + n
  <2>1. ASSUME NEW c \in Seq(Message) PROVE a \o c \in Seq(Message) /\ Len(a \o c) = Len(a) + Len(c)
    BY <1>2, ConcatProperties
  <2> QED BY <1>1, <2>1
<1>4. ring_buffer_' = b \o back
  BY DEF a, b
<1> HIDE DEF b
<1>5. ring_buffer_' \in Seq(Message) /\ Len(ring_buffer_') = Len(b) + Len(back)
  <2>1. b \o back \in Seq(Message) /\ Len(b \o back) = Len(b) + Len(back)
    BY <1>3, ConcatProperties
  <2> QED BY <1>4, <2>1
<1>6. ASSUME NEW g \in Fibers PROVE Outstanding(g)' = Outstanding(g)
  <2> DEFINE m == Msg("file", g)
  <2>1. Tally(front, m) = 0 /\ Tally(back, m) = 0
    <3>1. m.kind = "file"
      BY DEF Msg
    <3>2. /\ \A i \in DOMAIN front : front[i] # m
          /\ \A i \in DOMAIN back : back[i] # m
      BY <3>1
    <3> HIDE DEF m
    <3>3. /\ Tally(front, m) \in Nat /\ Tally(back, m) \in Nat
          /\ ~(Tally(front, m) > 0) /\ ~(Tally(back, m) > 0)
      BY <3>2, TallyIsFinite
    <3> QED BY <3>3
  <2>2. Tally(completed, g) = Tally(FetchedFirst(n), m) + Tally(completed', g)
    BY TallyOfFetched
  <2> HIDE DEF m
  <2>3. Tally(a, m) = Tally(ring_buffer_, m) + Tally(front, m)
    BY TallyOfBoth DEF a
  <2>4. Tally(b, m) = Tally(a, m) + Tally(FetchedFirst(n), m)
    BY <1>1, <1>2, TallyOfBoth DEF b
  <2>5. Tally(ring_buffer_', m) = Tally(b, m) + Tally(back, m)
    BY <1>3, <1>4, TallyOfBoth
  <2>6. /\ Tally(ring_buffer_, m) \in Nat /\ Tally(FetchedFirst(n), m) \in Nat
        /\ Tally(completed', g) \in Nat
    BY <1>1, TallyIsFinite
  <2>7. /\ Outstanding(g) = inflight[g] + Tally(completed, g) + Tally(ring_buffer_, m)
        /\ Outstanding(g)' = inflight[g] + Tally(completed', g) + Tally(ring_buffer_', m)
    BY DEF Outstanding, Tally, m
  <2> QED BY <2>1, <2>2, <2>3, <2>4, <2>5, <2>6, <2>7
<1> QED BY <1>1, <1>2, <1>3, <1>5, <1>6

LEMMA CountChanges ==
    ASSUME count_ \in [{"accept", "connection"} -> [Fibers -> 0 .. Wrapped]],
           NEW kind \in {"accept", "connection"}, NEW f \in Fibers, NEW n \in 0 .. Wrapped,
           count_' = [count_ EXCEPT ![kind][f] = n]
    PROVE  /\ count_' \in [{"accept", "connection"} -> [Fibers -> 0 .. Wrapped]]
           /\ count_'[kind][f] = n
           /\ \A k \in {"accept", "connection"}, g \in Fibers :
                <<k, g>> # <<kind, f>> => count_'[k][g] = count_[k][g]
OBVIOUS

(***************************************************************************)
(* Linux: the calls of fibers.                                             *)
(***************************************************************************)

LEMMA AfterFiber ==
    ASSUME PollerInv, active \in Fibers, UNCHANGED loop,
           TypeOK', Links', Files', Listening', Connections'
    PROVE  PollerInv'
<1>1. ring_buffer_' = <<>> /\ polled' = FALSE
  BY FiberRuns DEF PollerInv, loop
<1>2. Turn'
  BY <1>1 DEF Turn, loop, PollerInv
<1>3. SocketMessages'
  BY <1>1 DEF SocketMessages
<1> QED BY <1>2, <1>3 DEF PollerInv

\* The types that events and loops rely on.
LEMMA TypedEvents ==
    ASSUME PollerInv
    PROVE  /\ completed \in Seq(Fibers) /\ ring_buffer_ \in Seq(Message)
           /\ inflight \in [Fibers -> Nat]
BY PollerAssumption DEF PollerInv, TypeOK

\* While others run, who was resumed stays before the loop.
LEMMA NotifiedStays ==
    ASSUME NEW w, active # Main, w # active, IsNotified(w), op'[w] = op[w], w \notin wait_queue_',
           \A f : IsBefore(f, Main, ready) => RunsNext(f)
    PROVE  IsNotified(w)'
BY DEF IsNotified, RunsNext

LEMMA YieldStep ==
    ASSUME PollerInv, NEW f \in Fibers, Yield(f)
    PROVE  PollerInv'
<1>1. active = f /\ op[f] = "none" /\ f # Main
  BY PollerAssumption DEF Yield, Runs
<1>2. UNCHANGED <<wait_queue_, loop, op, fileVars, socketVars>>
  BY DEF Yield
<1>3. Links' /\ \A g : IsBefore(g, Main, ready) => RunsNext(g)
  BY <1>1, YieldLinks DEF Yield, PollerInv
<1>4. TypeOK'
  BY <1>2, <1>3 DEF PollerInv, TypeOK, Links, Contexts, loop, fileVars, socketVars
<1>5. Files'
  BY <1>2, EventsStay DEF PollerInv, Files, Awaited, loop, fileVars
<1>6. Listening'
  <2>1. \A w : WaitsForClient(w) => WaitsForClient(w)'
    BY <1>2 DEF WaitsForClient, socketVars
  <2>2. ASSUME NEW w, IsNotified(w) PROVE IsNotified(w)'
    BY <1>1, <1>2, <1>3, <2>2, NotifiedStays DEF IsNotified
  <2> QED BY <1>2, <2>1, <2>2 DEF PollerInv, Listening, socketVars
<1>7. Connections'
  BY <1>1, <1>2 DEF PollerInv, Connections, socketVars
<1> QED BY <1>1, <1>2, <1>4, <1>5, <1>6, <1>7, <1>3, AfterFiber

\* f begins to wait for n events of a file.
LEMMA FileWaits ==
    ASSUME PollerInv, NEW f \in Fibers, active = f, op[f] \in {"none", "batch"},
           NEW n \in Nat \ {0}, inflight' = [inflight EXCEPT ![f] = @ + n],
           NEW o \in {"single", "batch"}, op' = [op EXCEPT ![f] = o],
           o = "single" => n = 1, o = "batch" => remaining_'[f] = n,
           \A g \in Fibers \ {f} : remaining_'[g] = remaining_[g],
           Suspend(f), UNCHANGED <<loop, completed, socketVars>>
    PROVE  /\ Links' /\ inflight' \in [Fibers -> Nat]
           /\ inflight'[f] = n
           /\ Files' /\ Listening' /\ Connections'
<1>1. f # Main
  BY PollerAssumption
<1>2. /\ Links' /\ wait_queue_' = wait_queue_ \cup {f} /\ f \notin wait_queue_
      /\ \A g : IsBefore(g, Main, ready) => RunsNext(g)
  BY SuspendLinks DEF PollerInv, Links
<1>3. op' \in [Fibers -> {"none", "single", "batch", "accept", "read", "write"}] /\ op'[f] = o
      /\ \A g \in Fibers \ {f} : op'[g] = op[g]
  BY DEF PollerInv, TypeOK
<1>4. UNCHANGED <<completed, ring_buffer_>>
  BY DEF loop
<1>5. inflight' \in [Fibers -> Nat]
      /\ \A g \in Fibers : Outstanding(g)' = Outstanding(g) + (IF g = f THEN n ELSE 0)
  BY <1>4, TypedEvents, EventsAdded
<1>6. \A g \in Fibers : Outstanding(g) \in Nat
  BY TypedEvents, EventsAreCounted
<1>7. Outstanding(f) = 0 /\ inflight[f] = 0
  <2>1. Outstanding(f) = 0
    BY <1>2 DEF PollerInv, Files, Awaited
  <2> QED BY <2>1, TypedEvents, EventsAreCounted
<1>8. Files'
  <2>1. Outstanding(f)' = Awaited(f)' /\ (o = "batch" => remaining_'[f] > 0)
    BY <1>2, <1>3, <1>5, <1>7 DEF Awaited
  <2>2. ASSUME NEW g \in Fibers \ {f} PROVE Outstanding(g)' = Awaited(g)' /\ Awaited(g)' = Awaited(g)
    <3>1. Awaited(g)' = Awaited(g)
      BY <1>2, <1>3 DEF Awaited
    <3>2. Outstanding(g)' = Outstanding(g)
      BY <1>5, <1>6
    <3> QED BY <3>1, <3>2 DEF PollerInv, Files
  <2> QED BY <1>2, <1>3, <2>1, <2>2 DEF PollerInv, Files
<1>9. Listening'
  <2>1. ASSUME NEW w \in Fibers, WaitsForClient(w) PROVE WaitsForClient(w)'
    BY <1>2, <1>3, <2>1 DEF WaitsForClient, socketVars
  <2>2. ASSUME NEW w \in Fibers, IsNotified(w) PROVE IsNotified(w)'
    <3>1. w # f /\ w \notin wait_queue_'
      BY <1>2, <2>2 DEF IsNotified
    <3> QED BY <1>1, <1>2, <1>3, <2>2, <3>1, NotifiedStays
  <2>3. \A g \in connected' : op'[g] # "accept"
    BY <1>3 DEF PollerInv, Listening, TypeOK, socketVars
  <2> QED BY <2>1, <2>2, <2>3 DEF PollerInv, Listening, TypeOK, socketVars
<1>10. Connections'
  <2>1. ASSUME NEW g \in readable' PROVE op'[g] = "read"
    <3>1. g \in Fibers /\ op[g] = "read" /\ g # f
      <4>1. g \in Fibers /\ op[g] = "read"
        BY DEF PollerInv, Connections, TypeOK, socketVars
      <4>2. CASE g = f
        BY <4>1, <4>2 DEF PollerInv
      <4> QED BY <4>1, <4>2
    <3> QED BY <1>3, <3>1
  <2> QED BY <1>2, <1>3, <2>1 DEF PollerInv, Connections, socketVars
<1> QED BY <1>2, <1>5, <1>7, <1>8, <1>9, <1>10

LEMMA StartSingleStep ==
    ASSUME PollerInv, NEW f \in Fibers, StartSingle(f)
    PROVE  PollerInv'
<1>1. /\ active = f /\ op[f] = "none"
      /\ inflight' = [inflight EXCEPT ![f] = @ + 1] /\ completed' = completed
      /\ op' = [op EXCEPT ![f] = "single"] /\ Suspend(f)
      /\ UNCHANGED <<loop, left, remaining_, socketVars>>
  BY DEF StartSingle, Runs, Accepts
<1>2. /\ Links' /\ inflight' \in [Fibers -> Nat] /\ inflight'[f] = 1
      /\ Files' /\ Listening' /\ Connections'
  <2> DEFINE n == 1
             o == "single"
  <2>1. n \in Nat \ {0} /\ o \in {"single", "batch"} /\ o = "single" /\ n = 1 /\ o # "batch"
    OBVIOUS
  <2>2. /\ inflight' = [inflight EXCEPT ![f] = @ + n] /\ op' = [op EXCEPT ![f] = o]
        /\ \A g \in Fibers \ {f} : remaining_'[g] = remaining_[g]
        /\ UNCHANGED <<loop, completed, socketVars>>
    BY <1>1
  <2> HIDE DEF n, o
  <2>3. /\ Links' /\ inflight' \in [Fibers -> Nat] /\ inflight'[f] = n
        /\ Files' /\ Listening' /\ Connections'
    BY <1>1, <2>1, <2>2, FileWaits
  <2> QED BY <2>1, <2>3
<1>3. \A g \in Fibers \ {f} : inflight'[g] = inflight[g]
  BY <1>1 DEF PollerInv, TypeOK
<1>4. inflight' \in [Fibers -> 0 .. MaxBlocks]
  <2>1. 1 \in 0 .. MaxBlocks
    BY PollerAssumption
  <2>2. inflight \in [Fibers -> 0 .. MaxBlocks]
    BY DEF PollerInv, TypeOK
  <2> QED BY <1>1, <2>1, <2>2, <1>2, <1>3
<1>5. TypeOK'
  BY <1>1, <1>2, <1>4 DEF PollerInv, TypeOK, Links, Contexts, loop, socketVars
<1> QED BY <1>1, <1>2, <1>5, AfterFiber

LEMMA SubmitSomeStep ==
    ASSUME PollerInv, NEW f \in Fibers, NEW n \in 1 .. MaxBlocks, SubmitSome(f, n)
    PROVE  PollerInv'
<1>1. /\ active = f /\ op[f] = "batch" /\ n \in 1 .. left[f]
      /\ inflight' = [inflight EXCEPT ![f] = @ + n] /\ completed' = completed
      /\ left' = [left EXCEPT ![f] = @ - n] /\ remaining_' = [remaining_ EXCEPT ![f] = n]
      /\ Suspend(f) /\ UNCHANGED <<loop, op, socketVars>>
  BY DEF SubmitSome, Accepts, Submitted
<1>2. op' = [op EXCEPT ![f] = "batch"]
  BY <1>1 DEF PollerInv, TypeOK
<1>3. n \in Nat \ {0} /\ n \in 0 .. MaxBlocks /\ left[f] \in 0 .. MaxBlocks
  BY PollerAssumption DEF PollerInv, TypeOK
<1>4. remaining_' \in [Fibers -> 0 .. MaxBlocks] /\ left' \in [Fibers -> 0 .. MaxBlocks]
      /\ remaining_'[f] = n /\ \A g \in Fibers \ {f} : remaining_'[g] = remaining_[g]
  BY <1>1, <1>3, PollerAssumption DEF PollerInv, TypeOK
<1>5. /\ Links' /\ inflight' \in [Fibers -> Nat] /\ inflight'[f] = n
      /\ Files' /\ Listening' /\ Connections'
  BY <1>1, <1>2, <1>3, <1>4, FileWaits
<1>6. \A g \in Fibers \ {f} : inflight'[g] = inflight[g]
  BY <1>1 DEF PollerInv, TypeOK
<1>7. inflight' \in [Fibers -> 0 .. MaxBlocks]
  BY <1>3, <1>5, <1>6 DEF PollerInv, TypeOK
<1>8. TypeOK'
  BY <1>1, <1>4, <1>5, <1>7 DEF PollerInv, TypeOK, Links, Contexts, loop, socketVars
<1> QED BY <1>1, <1>5, <1>8, AfterFiber

\* f goes on with another operation, or with none.
LEMMA GoesOn ==
    ASSUME PollerInv, NEW f \in Fibers, active = f,
           NEW o \in {"none", "batch", "read", "write"}, op' = [op EXCEPT ![f] = o],
           \A g \in Fibers \ {f} : remaining_'[g] = remaining_[g],
           UNCHANGED <<scheduling, loop, inflight, completed>>
    PROVE  /\ Links' /\ Files'
           /\ op' \in [Fibers -> {"none", "single", "batch", "accept", "read", "write"}]
           /\ op'[f] = o /\ \A g \in Fibers \ {f} : op'[g] = op[g]
           /\ \A w \in Fibers : UNCHANGED count_ /\ WaitsForClient(w) => WaitsForClient(w)'
           /\ \A w \in Fibers : IsNotified(w) => w = f \/ IsNotified(w)'
<1>1. op' \in [Fibers -> {"none", "single", "batch", "accept", "read", "write"}]
      /\ op'[f] = o /\ \A g \in Fibers \ {f} : op'[g] = op[g]
  BY DEF PollerInv, TypeOK
<1>2. Links' /\ f \notin wait_queue_ /\ wait_queue_' = wait_queue_
  BY DEF PollerInv, Links, scheduling
<1>3. ASSUME NEW g \in Fibers
      PROVE  Outstanding(g)' = Outstanding(g) /\ Awaited(g)' = Awaited(g)
  <2>1. Outstanding(g)' = Outstanding(g)
    BY EventsStay DEF loop
  <2>2. CASE g = f
    BY <1>2, <2>1, <2>2 DEF Awaited
  <2>3. CASE g # f
    BY <1>1, <1>2, <2>1, <2>3 DEF Awaited
  <2> QED BY <2>2, <2>3
<1>4. Files'
  BY <1>1, <1>2, <1>3 DEF PollerInv, Files
<1>5. ASSUME NEW w \in Fibers
      PROVE  /\ UNCHANGED count_ /\ WaitsForClient(w) => WaitsForClient(w)'
             /\ IsNotified(w) => w = f \/ IsNotified(w)'
  BY <1>1, <1>2 DEF WaitsForClient, IsNotified, scheduling, loop
<1> QED BY <1>1, <1>2, <1>4, <1>5

\* As does one of whom neither the listening socket nor the connections take notice.
LEMMA GoesOnWithFile ==
    ASSUME PollerInv, NEW f \in Fibers, active = f, op[f] \in {"none", "single", "batch"},
           NEW o \in {"none", "batch"}, op' = [op EXCEPT ![f] = o],
           left' \in [Fibers -> 0 .. MaxBlocks], remaining_' \in [Fibers -> 0 .. MaxBlocks],
           \A g \in Fibers \ {f} : remaining_'[g] = remaining_[g],
           UNCHANGED <<scheduling, loop, inflight, completed, socketVars>>
    PROVE  PollerInv'
<1>1. /\ Links' /\ Files'
      /\ op' \in [Fibers -> {"none", "single", "batch", "accept", "read", "write"}]
      /\ op'[f] = o /\ \A g \in Fibers \ {f} : op'[g] = op[g]
      /\ \A w \in Fibers : UNCHANGED count_ /\ WaitsForClient(w) => WaitsForClient(w)'
      /\ \A w \in Fibers : IsNotified(w) => w = f \/ IsNotified(w)'
  BY GoesOn
<1>2. TypeOK'
  BY <1>1 DEF PollerInv, TypeOK, scheduling, loop, socketVars
<1>3. Listening'
  <2>1. \A w \in Fibers : WaitsForClient(w) => WaitsForClient(w)'
    BY <1>1 DEF socketVars
  <2>2. \A w \in Fibers : IsNotified(w) => IsNotified(w)'
    BY <1>1 DEF IsNotified
  <2>3. \A g \in connected' : op'[g] # "accept"
    BY <1>1 DEF PollerInv, Listening, TypeOK, socketVars
  <2> QED BY <2>1, <2>2, <2>3 DEF PollerInv, Listening, TypeOK, socketVars
<1>4. Connections'
  <2>1. ASSUME NEW g \in readable' PROVE op'[g] = "read"
    <3>1. g \in Fibers /\ op[g] = "read"
      BY DEF PollerInv, Connections, TypeOK, socketVars
    <3>2. g # f
      BY <3>1
    <3> QED BY <1>1, <3>1, <3>2
  <2> QED BY <1>1, <2>1 DEF PollerInv, Connections, socketVars, scheduling
<1> QED BY <1>1, <1>2, <1>3, <1>4, AfterFiber

LEMMA OtherFileSteps ==
    ASSUME PollerInv, NEW f \in Fibers,
           \/ EndSingle(f) \/ EndBatch(f) \/ \E n \in 1 .. MaxBlocks : StartBatch(f, n)
    PROVE  PollerInv'
<1>1. left \in [Fibers -> 0 .. MaxBlocks] /\ remaining_ \in [Fibers -> 0 .. MaxBlocks]
      /\ 0 \in 0 .. MaxBlocks
  <2>1. TypeOK
    BY DEF PollerInv
  <2>2. MaxBlocks \in Nat
    BY PollerAssumption
  <2>3. left \in [Fibers -> 0 .. MaxBlocks] /\ remaining_ \in [Fibers -> 0 .. MaxBlocks]
    BY <2>1 DEF TypeOK
  <2>4. 0 \in 0 .. MaxBlocks
    BY <2>2
  <2> QED BY <2>3, <2>4
<1>2. CASE EndSingle(f)
  BY <1>1, <1>2, GoesOnWithFile DEF EndSingle, fileVars
<1>3. CASE EndBatch(f)
  <2>1. left' = [left EXCEPT ![f] = 0] /\ remaining_' = [remaining_ EXCEPT ![f] = 0]
    BY <1>3 DEF EndBatch
  <2>2. left' \in [Fibers -> 0 .. MaxBlocks] /\ remaining_' \in [Fibers -> 0 .. MaxBlocks]
        /\ \A g \in Fibers \ {f} : remaining_'[g] = remaining_[g]
    BY <1>1, <2>1
  <2> QED BY <1>3, <2>2, GoesOnWithFile DEF EndBatch
<1>4. ASSUME NEW n \in 1 .. MaxBlocks, StartBatch(f, n) PROVE PollerInv'
  <2>1. left' = [left EXCEPT ![f] = n] /\ remaining_' = [remaining_ EXCEPT ![f] = n]
    BY <1>4 DEF StartBatch
  <2>2. left' \in [Fibers -> 0 .. MaxBlocks] /\ remaining_' \in [Fibers -> 0 .. MaxBlocks]
        /\ \A g \in Fibers \ {f} : remaining_'[g] = remaining_[g]
    BY <1>1, <2>1
  <2> QED BY <1>4, <2>2, GoesOnWithFile DEF StartBatch, Runs
<1> QED BY <1>2, <1>3, <1>4

\* Clients send what they are asked for, and there is one at most.
OneModestClient == ~Eager /\ MaxClients <= 1

\* f begins to wait in an operation of a socket.
LEMMA SocketWaits ==
    ASSUME PollerInv, NEW f \in Fibers, active = f,
           NEW o \in {"accept", "read", "write"}, op' = [op EXCEPT ![f] = o],
           Suspend(f), UNCHANGED <<loop, fileVars>>
    PROVE  /\ Links' /\ Files' /\ wait_queue_' = wait_queue_ \cup {f}
           /\ op' \in [Fibers -> {"none", "single", "batch", "accept", "read", "write"}]
           /\ op'[f] = o /\ \A g \in Fibers \ {f} : op'[g] = op[g]
           /\ \A w \in Fibers : IsNotified(w) => w = f \/ IsNotified(w)'
<1>1. f # Main
  BY PollerAssumption
<1>2. /\ Links' /\ wait_queue_' = wait_queue_ \cup {f} /\ f \notin wait_queue_
      /\ \A g : IsBefore(g, Main, ready) => RunsNext(g)
  BY SuspendLinks DEF PollerInv, Links
<1>3. op' \in [Fibers -> {"none", "single", "batch", "accept", "read", "write"}] /\ op'[f] = o
      /\ \A g \in Fibers \ {f} : op'[g] = op[g]
  BY DEF PollerInv, TypeOK
<1>4. ASSUME NEW g \in Fibers
      PROVE  Outstanding(g)' = Outstanding(g) /\ Awaited(g)' = Awaited(g)
  <2>1. Outstanding(g)' = Outstanding(g)
    BY EventsStay DEF loop, fileVars
  <2>2. CASE g = f
    <3>1. Awaited(g) = 0
      BY <1>2, <2>2 DEF Awaited
    <3>2. Awaited(g)' = 0
      BY <1>3, <2>2 DEF Awaited
    <3> QED BY <2>1, <3>1, <3>2
  <2>3. CASE g # f
    BY <1>2, <1>3, <2>1, <2>3 DEF Awaited, fileVars
  <2> QED BY <2>2, <2>3
<1>5. Files'
  BY <1>2, <1>3, <1>4 DEF PollerInv, Files, fileVars
<1>6. ASSUME NEW w \in Fibers, IsNotified(w), w # f PROVE IsNotified(w)'
  BY <1>1, <1>2, <1>3, <1>6, NotifiedStays DEF IsNotified
<1> QED BY <1>2, <1>3, <1>5, <1>6

LEMMA AcceptStep ==
    ASSUME OneModestClient, PollerInv, NEW f \in Fibers, Accept(f)
    PROVE  PollerInv'
<1>1. /\ active = f /\ op[f] \in {"none", "accept"} /\ f \notin connected
      /\ backlog > 0 /\ backlog' = backlog - 1 /\ connected' = connected \cup {f}
      /\ count_' = [count_ EXCEPT !["connection"][f] = 1] /\ op' = [op EXCEPT ![f] = "none"]
      /\ UNCHANGED <<scheduling, loop, fileVars, watched, clients, readable>>
  BY DEF Accept
<1>2. /\ Links' /\ Files'
      /\ op' \in [Fibers -> {"none", "single", "batch", "accept", "read", "write"}]
      /\ op'[f] = "none" /\ \A g \in Fibers \ {f} : op'[g] = op[g]
  BY <1>1, GoesOn DEF fileVars
<1>3. 1 \in 0 .. Wrapped
  BY DEF Wrapped
<1>4. /\ count_' \in [{"accept", "connection"} -> [Fibers -> 0 .. Wrapped]]
      /\ \A k \in {"accept", "connection"}, g \in Fibers :
            <<k, g>> # <<"connection", f>> => count_'[k][g] = count_[k][g]
  BY <1>1, <1>3, CountChanges DEF PollerInv, TypeOK
<1>5. backlog' = 0 /\ clients > 0 /\ backlog' \in 0 .. MaxClients
  BY <1>1, PollerAssumption DEF PollerInv, TypeOK, Listening, OneModestClient
<1>6. TypeOK'
  BY <1>1, <1>2, <1>4, <1>5 DEF PollerInv, TypeOK, scheduling, loop, fileVars
<1>7. Listening'
  BY <1>1, <1>2, <1>5 DEF PollerInv, Listening, TypeOK
<1>8. Connections'
  <2>1. ASSUME NEW g \in readable' PROVE op'[g] = "read"
    <3>1. g \in Fibers /\ op[g] = "read" /\ g # f
      BY <1>1 DEF PollerInv, Connections, TypeOK
    <3> QED BY <1>2, <3>1
  <2>2. ASSUME NEW g \in Fibers, op'[g] \in {"read", "write"}, count_'["connection"][g] = 1
        PROVE  g = active' \/ g \in wait_queue_'
    <3>1. g # f /\ op[g] \in {"read", "write"} /\ count_["connection"][g] = 1
      BY <1>2, <1>4, <2>2
    <3> QED BY <1>1, <3>1 DEF PollerInv, Connections, scheduling
  <2> QED BY <2>1, <2>2 DEF Connections
<1> QED BY <1>1, <1>2, <1>6, <1>7, <1>8, AfterFiber

LEMMA AcceptWaitsStep ==
    ASSUME PollerInv, NEW f \in Fibers, AcceptWaits(f)
    PROVE  PollerInv'
<1>1. /\ active = f /\ op[f] \in {"none", "accept"} /\ f \notin connected
      /\ backlog = 0 /\ watched' = f
      /\ count_' = [count_ EXCEPT !["accept"][f] = 1] /\ op' = [op EXCEPT ![f] = "accept"]
      /\ Suspend(f) /\ UNCHANGED <<loop, fileVars, backlog, clients, connected, readable>>
  BY DEF AcceptWaits
<1>2. /\ Links' /\ Files' /\ wait_queue_' = wait_queue_ \cup {f}
      /\ op' \in [Fibers -> {"none", "single", "batch", "accept", "read", "write"}]
      /\ op'[f] = "accept" /\ \A g \in Fibers \ {f} : op'[g] = op[g]
  BY <1>1, SocketWaits
<1>3. 1 \in 0 .. Wrapped
  BY DEF Wrapped
<1>4. /\ count_' \in [{"accept", "connection"} -> [Fibers -> 0 .. Wrapped]]
      /\ count_'["accept"][f] = 1
      /\ \A k \in {"accept", "connection"}, g \in Fibers :
            <<k, g>> # <<"accept", f>> => count_'[k][g] = count_[k][g]
  BY <1>1, <1>3, CountChanges DEF PollerInv, TypeOK
<1>5. TypeOK'
  BY <1>1, <1>2, <1>4 DEF PollerInv, TypeOK, Links, Contexts, loop, fileVars
<1>6. Listening'
  <2>1. WaitsForClient(f)'
    BY <1>2, <1>4 DEF WaitsForClient
  <2>2. \A g \in connected' : op'[g] # "accept"
    BY <1>1, <1>2 DEF PollerInv, Listening, TypeOK
  <2> QED BY <1>1, <2>1, <2>2 DEF PollerInv, Listening
<1>7. Connections'
  <2>1. ASSUME NEW g \in readable' PROVE op'[g] = "read"
    <3>1. g \in Fibers /\ op[g] = "read" /\ g # f
      BY <1>1 DEF PollerInv, Connections, TypeOK
    <3> QED BY <1>2, <3>1
  <2>2. ASSUME NEW g \in Fibers, op'[g] \in {"read", "write"}, count_'["connection"][g] = 1
        PROVE  g = active' \/ g \in wait_queue_'
    <3>1. g # f /\ op[g] \in {"read", "write"} /\ count_["connection"][g] = 1
      BY <1>2, <1>4, <2>2
    <3> QED BY <1>1, <1>2, <3>1 DEF PollerInv, Connections
  <2> QED BY <2>1, <2>2 DEF Connections
<1> QED BY <1>1, <1>2, <1>5, <1>6, <1>7, AfterFiber

LEMMA AcceptThrowsStep ==
    ASSUME PollerInv, NEW f \in Fibers, AcceptThrows(f)
    PROVE  PollerInv'
<1>1. /\ active = f /\ op[f] = "accept" /\ backlog = 0 /\ op' = [op EXCEPT ![f] = "none"]
      /\ UNCHANGED <<scheduling, loop, fileVars, socketVars>>
  BY DEF AcceptThrows
<1>2. /\ Links' /\ Files'
      /\ op' \in [Fibers -> {"none", "single", "batch", "accept", "read", "write"}]
      /\ op'[f] = "none" /\ \A g \in Fibers \ {f} : op'[g] = op[g]
  BY <1>1, GoesOn DEF fileVars
<1>3. TypeOK'
  BY <1>1, <1>2 DEF PollerInv, TypeOK, scheduling, loop, fileVars, socketVars
<1>4. Listening'
  <2>1. ASSUME clients = 0, watched # NoFiber PROVE WaitsForClient(watched)'
    <3>1. WaitsForClient(watched) /\ watched # f /\ watched \in Fibers
      BY <1>1, <2>1 DEF PollerInv, Listening, Links, WaitsForClient, TypeOK
    <3> QED BY <1>1, <1>2, <3>1 DEF WaitsForClient, scheduling, socketVars
  <2>2. \A g \in connected' : op'[g] # "accept"
    BY <1>1, <1>2 DEF PollerInv, Listening, TypeOK, socketVars
  <2> QED BY <1>1, <2>1, <2>2 DEF PollerInv, Listening, socketVars
<1>5. Connections'
  <2>1. ASSUME NEW g \in readable' PROVE op'[g] = "read"
    <3>1. g \in Fibers /\ op[g] = "read" /\ g # f
      BY <1>1 DEF PollerInv, Connections, TypeOK, socketVars
    <3> QED BY <1>2, <3>1
  <2> QED BY <1>1, <1>2, <2>1 DEF PollerInv, Connections, scheduling, socketVars
<1> QED BY <1>1, <1>2, <1>3, <1>4, <1>5, AfterFiber

LEMMA StartTransferStep ==
    ASSUME PollerInv, NEW f \in Fibers, NEW o \in {"read", "write"}, StartTransfer(f, o)
    PROVE  PollerInv'
<1>1. /\ active = f /\ op[f] = "none" /\ op' = [op EXCEPT ![f] = o]
      /\ UNCHANGED <<scheduling, loop, fileVars, socketVars>>
  BY DEF StartTransfer, Runs
<1>2. /\ Links' /\ Files'
      /\ op' \in [Fibers -> {"none", "single", "batch", "accept", "read", "write"}]
      /\ op'[f] = o /\ \A g \in Fibers \ {f} : op'[g] = op[g]
      /\ \A w \in Fibers : UNCHANGED count_ /\ WaitsForClient(w) => WaitsForClient(w)'
      /\ \A w \in Fibers : IsNotified(w) => w = f \/ IsNotified(w)'
  BY <1>1, GoesOn DEF fileVars
<1>3. TypeOK'
  BY <1>1, <1>2 DEF PollerInv, TypeOK, scheduling, loop, fileVars, socketVars
<1>4. Listening'
  <2>1. \A w \in Fibers : WaitsForClient(w) => WaitsForClient(w)'
    BY <1>1, <1>2 DEF socketVars
  <2>2. \A w \in Fibers : IsNotified(w) => IsNotified(w)'
    BY <1>1, <1>2 DEF IsNotified
  <2>3. \A g \in connected' : op'[g] # "accept"
    BY <1>1, <1>2 DEF PollerInv, Listening, TypeOK, socketVars
  <2> QED BY <1>1, <2>1, <2>2, <2>3 DEF PollerInv, Listening, TypeOK, socketVars
<1>5. Connections'
  <2>1. ASSUME NEW g \in readable' PROVE op'[g] = "read"
    <3>1. g \in Fibers /\ op[g] = "read"
      BY <1>1 DEF PollerInv, Connections, TypeOK, socketVars
    <3>2. g # f
      BY <1>1, <3>1
    <3> QED BY <1>2, <3>1, <3>2
  <2> QED BY <1>1, <1>2, <2>1 DEF PollerInv, Connections, scheduling, socketVars
<1> QED BY <1>1, <1>2, <1>3, <1>4, <1>5, AfterFiber

LEMMA TransferStep ==
    ASSUME OneModestClient, PollerInv, NEW f \in Fibers, Transfer(f)
    PROVE  PollerInv'
<1>1. /\ active = f /\ op[f] \in {"read", "write"}
      /\ readable' = readable \ {f}
      /\ UNCHANGED <<loop, fileVars, watched, backlog, clients, connected, count_>>
  <2>1. op[f] # "read" => f \notin readable
    BY DEF PollerInv, Connections
  <2>2. \/ op[f] = "read" /\ readable' = readable \ {f}
        \/ op[f] = "write" /\ readable' = readable
    BY DEF Transfer, OneModestClient
  <2> QED BY <2>1, <2>2 DEF Transfer
<1>2. /\ Links' /\ Files'
      /\ op' \in [Fibers -> {"none", "single", "batch", "accept", "read", "write"}]
      /\ op'[f] = "none" \/ (op'[f] = op[f] /\ f \in wait_queue_')
      /\ \A g \in Fibers \ {f} : op'[g] = op[g]
      /\ \A g \in Fibers \ {f} : g \in wait_queue_' <=> g \in wait_queue_
      /\ \A w \in Fibers : WaitsForClient(w) => WaitsForClient(w)'
      /\ \A w \in Fibers : IsNotified(w) => w = f \/ IsNotified(w)'
  <2>1. CASE op' = [op EXCEPT ![f] = "none"] /\ UNCHANGED scheduling
    <3>1. UNCHANGED wait_queue_
      BY <2>1 DEF scheduling
    <3>2. UNCHANGED <<scheduling, loop, inflight, completed>> /\ UNCHANGED count_
          /\ \A g \in Fibers \ {f} : remaining_'[g] = remaining_[g]
      BY <1>1, <2>1 DEF fileVars
    <3>3. /\ Links' /\ Files'
          /\ op' \in [Fibers -> {"none", "single", "batch", "accept", "read", "write"}]
          /\ op'[f] = "none" /\ \A g \in Fibers \ {f} : op'[g] = op[g]
          /\ \A w \in Fibers : UNCHANGED count_ /\ WaitsForClient(w) => WaitsForClient(w)'
          /\ \A w \in Fibers : IsNotified(w) => w = f \/ IsNotified(w)'
      BY <1>1, <2>1, <3>2, GoesOn
    <3> QED BY <3>1, <3>2, <3>3
  <2>2. CASE Suspend(f) /\ UNCHANGED op
    <3>1. op' = [op EXCEPT ![f] = op[f]] /\ op[f] \in {"accept", "read", "write"}
      BY <1>1, <2>2 DEF PollerInv, TypeOK
    <3>2. /\ Links' /\ Files' /\ wait_queue_' = wait_queue_ \cup {f}
          /\ \A w \in Fibers : IsNotified(w) => w = f \/ IsNotified(w)'
      BY <1>1, <2>2, <3>1, SocketWaits
    <3>3. op' \in [Fibers -> {"none", "single", "batch", "accept", "read", "write"}]
      BY <2>2 DEF PollerInv, TypeOK
    <3>4. \A w \in Fibers : WaitsForClient(w) => WaitsForClient(w)'
      BY <1>1, <2>2, <3>2 DEF WaitsForClient
    <3> QED BY <2>2, <3>2, <3>3, <3>4
  <2> QED BY <2>1, <2>2 DEF Transfer
<1>3. TypeOK'
  BY <1>1, <1>2 DEF PollerInv, TypeOK, Links, Contexts, loop, fileVars
<1>4. Listening'
  <2>1. \A w \in Fibers : IsNotified(w) => IsNotified(w)'
    BY <1>1, <1>2 DEF IsNotified
  <2>2. \A g \in connected' : op'[g] # "accept"
    BY <1>1, <1>2 DEF PollerInv, Listening, TypeOK
  <2> QED BY <1>1, <1>2, <2>1, <2>2 DEF PollerInv, Listening, TypeOK
<1>5. Connections'
  <2>1. ASSUME NEW g \in readable' PROVE op'[g] = "read"
    <3>1. g \in Fibers /\ op[g] = "read" /\ g # f
      BY <1>1 DEF PollerInv, Connections, TypeOK
    <3> QED BY <1>2, <3>1
  <2>2. ASSUME NEW g \in Fibers, op'[g] \in {"read", "write"}, count_'["connection"][g] = 1
        PROVE  g = active' \/ g \in wait_queue_'
    <3>1. CASE g = f
      BY <1>2, <2>2, <3>1
    <3>2. CASE g # f
      BY <1>1, <1>2, <2>2, <3>2 DEF PollerInv, Connections
    <3> QED BY <3>1, <3>2
  <2> QED BY <2>1, <2>2 DEF Connections
<1> QED BY <1>1, <1>2, <1>3, <1>4, <1>5, AfterFiber

LEMMA CloseStep ==
    ASSUME PollerInv, NEW f \in Fibers, Close(f)
    PROVE  PollerInv'
<1>1. /\ active = f /\ op[f] = "none"
      /\ connected' = connected \ {f} /\ readable' = readable \ {f}
      /\ UNCHANGED <<scheduling, loop, op, fileVars, watched, backlog, clients, count_>>
  BY DEF Close, Runs
<1>2. \A g \in Fibers : Outstanding(g)' = Outstanding(g)
  BY <1>1, EventsStay DEF loop, fileVars
<1>3. Links' /\ TypeOK' /\ Connections'
  BY <1>1 DEF PollerInv, Links, TypeOK, Connections, scheduling, loop, fileVars
<1>4. Files'
  BY <1>1, <1>2 DEF PollerInv, Files, Awaited, scheduling, fileVars
<1>5. Listening'
  BY <1>1 DEF PollerInv, Listening, WaitsForClient, IsNotified, scheduling, loop
<1> QED BY <1>1, <1>3, <1>4, <1>5, AfterFiber

(***************************************************************************)
(* Linux: the kernel, the clients and the event loop.                      *)
(***************************************************************************)

LEMMA CompleteStep ==
    ASSUME PollerInv, NEW f \in Fibers, Complete(f)
    PROVE  PollerInv'
<1>1. /\ inflight[f] > 0 /\ inflight' = [inflight EXCEPT ![f] = @ - 1]
      /\ completed' = Append(completed, f)
      /\ UNCHANGED <<scheduling, loop, op, left, remaining_, socketVars>>
  BY DEF Complete
<1>2. /\ completed' \in Seq(Fibers)
      /\ \A g \in Fibers : Outstanding(g)' = Outstanding(g)
  BY <1>1, TypedEvents, EventsComplete DEF loop
<1>3. inflight' \in [Fibers -> 0 .. MaxBlocks]
  <2>1. inflight \in [Fibers -> 0 .. MaxBlocks] /\ MaxBlocks \in Nat
    BY PollerAssumption DEF PollerInv, TypeOK
  <2>2. inflight[f] - 1 \in 0 .. MaxBlocks
    BY <1>1, <2>1
  <2> QED BY <1>1, <2>1, <2>2
<1>4. TypeOK'
  BY <1>1, <1>2, <1>3 DEF PollerInv, TypeOK, scheduling, loop, socketVars
<1>5. Files'
  BY <1>1, <1>2 DEF PollerInv, Files, Awaited, scheduling
<1>6. Links' /\ Turn' /\ Listening' /\ Connections' /\ SocketMessages'
  BY <1>1 DEF PollerInv, Links, Turn, Listening, Connections, SocketMessages, WaitsForClient,
              IsNotified, scheduling, loop, socketVars
<1> QED BY <1>4, <1>5, <1>6 DEF PollerInv

LEMMA ConnectStep ==
    ASSUME OneModestClient, PollerInv, Connect
    PROVE  PollerInv'
<1>1. /\ clients < MaxClients /\ clients' = clients + 1 /\ backlog' = backlog + 1
      /\ UNCHANGED <<scheduling, loop, op, fileVars, watched, connected, readable, count_>>
  BY DEF Connect
<1>2. clients = 0 /\ backlog = 0 /\ MaxClients = 1
  BY <1>1, PollerAssumption DEF PollerInv, TypeOK, Listening, OneModestClient
<1>3. TypeOK'
  BY <1>1, <1>2 DEF PollerInv, TypeOK, scheduling, loop, fileVars
<1>4. Files'
  BY <1>1, EventsStay DEF PollerInv, Files, Awaited, scheduling, loop, fileVars
<1>5. Links' /\ Turn' /\ Connections' /\ SocketMessages'
  BY <1>1, <1>2 DEF PollerInv, Links, Turn, Connections, SocketMessages, WaitsForClient,
                    scheduling, loop
<1>6. Listening'
  BY <1>1, <1>2 DEF PollerInv, Listening, WaitsForClient, scheduling
<1> QED BY <1>3, <1>4, <1>5, <1>6 DEF PollerInv

LEMMA ArriveStep ==
    ASSUME OneModestClient, PollerInv, NEW f \in Fibers, Arrive(f)
    PROVE  PollerInv'
<1>1. /\ f \in connected /\ op[f] = "read" /\ readable' = readable \cup {f}
      /\ UNCHANGED <<scheduling, loop, op, fileVars, watched, backlog, clients, connected, count_>>
  BY DEF Arrive, OneModestClient
<1>2. TypeOK'
  BY <1>1 DEF PollerInv, TypeOK, scheduling, loop, fileVars
<1>3. Files'
  BY <1>1, EventsStay DEF PollerInv, Files, Awaited, scheduling, loop, fileVars
<1>4. Links' /\ Turn' /\ Listening' /\ Connections' /\ SocketMessages'
  BY <1>1 DEF PollerInv, Links, Turn, Listening, Connections, SocketMessages, WaitsForClient,
              IsNotified, scheduling, loop
<1> QED BY <1>2, <1>3, <1>4 DEF PollerInv

LEMMA EndTurnStep ==
    ASSUME PollerInv, EndTurn
    PROVE  PollerInv'
<1>1. /\ active = Main /\ ring_buffer_ = <<>> /\ SwitchFrom(<<active>>)
      /\ polled' = FALSE
      /\ UNCHANGED <<wait_queue_, ring_buffer_, op, fileVars, socketVars>>
  BY DEF EndTurn
<1>2. Links' /\ \A g \in ToSet(ready) : RunsNext(g)
  BY <1>1, YieldLinks DEF PollerInv
<1>3. TypeOK'
  BY <1>1, <1>2 DEF PollerInv, TypeOK, Links, Contexts, fileVars, socketVars
<1>4. Turn' /\ SocketMessages'
  <2>1. ring_buffer_' = <<>> /\ UNCHANGED ring_buffer_ /\ polled' = FALSE
    BY <1>1
  <2>2. Turn'
    BY <2>1 DEF PollerInv, Turn
  <2>3. SocketMessages'
    BY <2>1 DEF SocketMessages
  <2> QED BY <2>2, <2>3
<1>5. Files'
  BY <1>1, EventsStay DEF PollerInv, Files, Awaited, fileVars
<1>6. Listening'
  <2>1. ASSUME NEW w \in Fibers, IsNotified(w) PROVE IsNotified(w)'
    BY <1>1, <1>2, <2>1, PollerAssumption DEF IsNotified, RunsNext
  <2>2. \A w : WaitsForClient(w) => WaitsForClient(w)'
    BY <1>1 DEF WaitsForClient, socketVars
  <2> QED BY <1>1, <2>1, <2>2 DEF PollerInv, Listening, TypeOK, socketVars
<1>7. Connections'
  <2>1. ASSUME NEW g \in Fibers, op[g] \in {"read", "write"}, count_["connection"][g] = 1
        PROVE  g \in wait_queue_
    BY <1>1, <2>1, PollerAssumption DEF PollerInv, Connections
  <2> QED BY <1>1, <2>1 DEF PollerInv, Connections, socketVars
<1> QED BY <1>2, <1>3, <1>4, <1>5, <1>6, <1>7 DEF PollerInv

LEMMA LeastOfTwo ==
    ASSUME NEW a \in Int, NEW b \in Int
    PROVE  Min({a, b}) \in {a, b} /\ Min({a, b}) <= a /\ Min({a, b}) <= b
<1>1. \E x \in {a, b} : \A y \in {a, b} : x =< y
  OBVIOUS
<1> QED BY <1>1 DEF Min

LEMMA LeastOfThree ==
    ASSUME NEW a \in Int, NEW b \in Int, NEW c \in Int
    PROVE  Min({a, b, c}) \in {a, b, c} /\ \A y \in {a, b, c} : Min({a, b, c}) <= y
<1>1. \E x \in {a, b, c} : \A y \in {a, b, c} : x =< y
  <2>1. CASE a <= b /\ a <= c
    BY <2>1
  <2>2. CASE b <= a /\ b <= c
    BY <2>2
  <2>3. CASE c <= a /\ c <= b
    BY <2>3
  <2> QED BY <2>1, <2>2, <2>3
<1>2. Min({a, b, c}) = CHOOSE x \in {a, b, c} : \A y \in {a, b, c} : x =< y
  BY DEF Min
<1> QED BY <1>1, <1>2

LEMMA FewSocketEvents ==
    ASSUME RingInv
    PROVE  SocketEvents \subseteq Message /\ IsFiniteSet(SocketEvents)
<1> DEFINE ofConnections == {Msg("connection", f) : f \in Fibers}
           ofSockets == {Msg("accept", f) : f \in Fibers}
<1>1. readable \subseteq Fibers /\ (watched # NoFiber => watched \in Fibers)
  BY DEF RingInv
<1>2. SocketEvents \subseteq ofConnections \cup ofSockets
  BY <1>1 DEF SocketEvents
<1>3. IsFiniteSet(Fibers)
  BY PollerAssumption
<1>4. [f \in Fibers |-> Msg("connection", f)] \in Surjection(Fibers, ofConnections)
  BY DEF Surjection
<1>5. [f \in Fibers |-> Msg("accept", f)] \in Surjection(Fibers, ofSockets)
  BY DEF Surjection
<1>6. ofConnections \cup ofSockets \subseteq Message
  BY DEF Msg, Message
<1> HIDE DEF ofConnections, ofSockets
<1>7. IsFiniteSet(ofConnections) /\ IsFiniteSet(ofSockets)
  BY <1>3, <1>4, <1>5, FS_Surjection
<1>8. IsFiniteSet(ofConnections \cup ofSockets)
  BY <1>7, FS_Union
<1> QED BY <1>2, <1>6, <1>8, FS_Subset

LEMMA InThreeParts ==
    ASSUME NEW a \in Seq(Message), NEW b \in Seq(Message), NEW c \in Seq(Message),
           NEW i \in DOMAIN (a \o b \o c)
    PROVE  \/ i \in DOMAIN a /\ (a \o b \o c)[i] = a[i]
           \/ i - Len(a) \in DOMAIN b /\ (a \o b \o c)[i] = b[i - Len(a)]
           \/ i - (Len(a) + Len(b)) \in DOMAIN c /\ (a \o b \o c)[i] = c[i - (Len(a) + Len(b))]
<1>1. \A s, t \in Seq(Message) :
        /\ s \o t \in Seq(Message) /\ DOMAIN (s \o t) = 1..(Len(s) + Len(t))
        /\ Len(s \o t) = Len(s) + Len(t)
        /\ \A k \in 1..Len(s) : (s \o t)[k] = s[k]
        /\ \A k \in 1..(Len(s) + Len(t)) : k > Len(s) => (s \o t)[k] = t[k - Len(s)]
  OBVIOUS
<1>2. \A s \in Seq(Message) : DOMAIN s = 1..Len(s) /\ Len(s) \in Nat
  OBVIOUS
<1> DEFINE d == a \o b
<1>3. d \in Seq(Message) /\ Len(d) = Len(a) + Len(b)
  BY <1>1
<1>4. i \in 1..(Len(d) + Len(c))
  BY <1>1, <1>3
<1>5. CASE i > Len(d)
  <2>1. (d \o c)[i] = c[i - Len(d)]
    BY <1>1, <1>3, <1>4, <1>5
  <2> QED BY <1>2, <1>3, <1>4, <1>5, <2>1
<1>6. CASE i <= Len(d)
  <2>1. (d \o c)[i] = d[i] /\ i \in 1..(Len(a) + Len(b))
    BY <1>1, <1>2, <1>3, <1>4, <1>6
  <2>2. CASE i > Len(a)
    BY <1>1, <1>2, <2>1, <2>2
  <2>3. CASE i <= Len(a)
    BY <1>1, <1>2, <2>1, <2>3
  <2> QED BY <1>2, <2>1, <2>2, <2>3
<1> QED BY <1>2, <1>3, <1>4, <1>5, <1>6

\* What poll() adds to the ring: the messages of some sockets, those of as many file
\* events as there is room for, and the messages of other sockets.
Polls(front, files, back) ==
    /\ front \in Seq(Message) /\ back \in Seq(Message) /\ IsInjective(front) /\ IsInjective(back)
    /\ ToSet(front) \subseteq SocketEvents /\ ToSet(back) \subseteq SocketEvents
    /\ ToSet(front) \cap ToSet(back) = {}
    /\ files \in 0 .. Len(completed) /\ Len(front) + files + Len(back) <= FreeSlots
    /\ ring_buffer_' = ring_buffer_ \o front \o FetchedFirst(files) \o back
    /\ completed' = SubSeq(completed, files + 1, Len(completed))

LEMMA PollFillsTheRing ==
    ASSUME RingInv, Poll
    PROVE  \E front, files, back : Polls(front, files, back)
<1> DEFINE max == Min({FreeSlots, BatchSize})
<1>1. PICK reported \in SUBSET SocketEvents, eventfd \in BOOLEAN :
        /\ Cardinality(reported) + (IF eventfd THEN 1 ELSE 0)
             = Min({Cardinality(SocketEvents) + 1, max})
        /\ LET files == IF eventfd
                          THEN Min({Len(completed), BatchSize, FreeForFiles(Cardinality(reported))})
                          ELSE 0
               fileMessages == [i \in 1 .. files |-> Msg("file", completed[i])]
           IN /\ completed' = SubSeq(completed, files + 1, Len(completed))
              /\ \E before \in SUBSET reported :
                   ring_buffer_' = ring_buffer_ \o SetToSeq(before) \o fileMessages
                                                \o SetToSeq(reported \ before)
  BY DEF Poll
<1> DEFINE files == IF eventfd
                      THEN Min({Len(completed), BatchSize, FreeForFiles(Cardinality(reported))})
                      ELSE 0
<1>2. PICK before \in SUBSET reported :
        ring_buffer_' = ring_buffer_ \o SetToSeq(before) \o FetchedFirst(files)
                                     \o SetToSeq(reported \ before)
  BY <1>1 DEF FetchedFirst
<1>3. FreeSlots \in Nat /\ BatchSize \in Nat /\ Len(completed) \in Nat
  <2>1. Len(ring_buffer_) \in Nat /\ Len(completed) \in Nat
    BY DEF RingInv
  <2> QED BY <2>1, PollerAssumption DEF RingInv, RingHasRoom, FreeSlots
<1>4. reported \subseteq SocketEvents /\ IsFiniteSet(reported) /\ reported \subseteq Message
      /\ Cardinality(reported) \in Nat /\ Cardinality(SocketEvents) \in Nat
  <2>1. IsFiniteSet(reported)
    BY FewSocketEvents, FS_Subset
  <2> QED BY <2>1, FewSocketEvents, FS_CardinalityType
<1>5. Cardinality(reported) + (IF eventfd THEN 1 ELSE 0) <= FreeSlots
  <2>1. max \in Int /\ max <= FreeSlots
    <3>1. FreeSlots \in Int /\ BatchSize \in Int
      BY <1>3
    <3>2. Min({FreeSlots, BatchSize}) \in {FreeSlots, BatchSize}
          /\ Min({FreeSlots, BatchSize}) <= FreeSlots
      BY <3>1, LeastOfTwo
    <3> QED BY <3>1, <3>2
  <2> DEFINE some == Cardinality(SocketEvents) + 1
  <2>2. some \in Int
    BY <1>4
  <2> HIDE DEF max, some
  <2>3. Min({some, max}) \in {some, max} /\ Min({some, max}) <= max
    BY <2>1, <2>2, LeastOfTwo
  <2>4. Cardinality(reported) + (IF eventfd THEN 1 ELSE 0) = Min({some, max})
    BY <1>1 DEF some, max
  <2>5. Min({some, max}) \in Int
    BY <2>1, <2>2, <2>3
  <2> QED BY <1>3, <2>1, <2>3, <2>4, <2>5
<1>6. files \in 0 .. Len(completed) /\ Cardinality(reported) + files <= FreeSlots
  <2>1. CASE eventfd
    <3>1. FreeForFiles(Cardinality(reported)) = FreeSlots - Cardinality(reported)
          /\ FreeSlots - Cardinality(reported) \in Nat
      BY <1>3, <1>4, <1>5, <2>1 DEF FreeForFiles
    <3>2. /\ files \in {Len(completed), BatchSize, FreeSlots - Cardinality(reported)}
          /\ files <= Len(completed) /\ files <= FreeSlots - Cardinality(reported)
      <4> DEFINE a == Len(completed)
                 b == FreeSlots - Cardinality(reported)
      <4>1. a \in Int /\ b \in Int /\ BatchSize \in Int
        BY <1>3, <3>1
      <4>2. files = Min({a, BatchSize, b})
        BY <2>1, <3>1
      <4> HIDE DEF a, b, files
      <4>3. Min({a, BatchSize, b}) \in {a, BatchSize, b}
            /\ Min({a, BatchSize, b}) <= a /\ Min({a, BatchSize, b}) <= b
        BY <4>1, LeastOfThree
      <4> QED BY <4>2, <4>3 DEF a, b
    <3> HIDE DEF files
    <3> QED BY <1>3, <1>4, <3>1, <3>2
  <2>2. CASE ~eventfd
    BY <1>3, <1>4, <1>5, <2>2
  <2> QED BY <2>1, <2>2
<1> DEFINE front == SetToSeq(before)
           back == SetToSeq(reported \ before)
<1>7. /\ front \in Seq(Message) /\ back \in Seq(Message)
      /\ Len(front) + Len(back) = Cardinality(reported)
      /\ ToSet(front) \subseteq before /\ ToSet(back) \subseteq reported \ before
      /\ IsInjective(front) /\ IsInjective(back)
  <2>1. IsFiniteSet(before) /\ IsFiniteSet(reported \ before)
        /\ before \subseteq Message /\ reported \ before \subseteq Message
    BY <1>4, FS_Subset
  <2>2. /\ front \in Seq(Message) /\ Len(front) = Cardinality(before)
        /\ ToSet(front) \subseteq before /\ IsInjective(front)
    BY <2>1, EveryElementOnce
  <2>3. /\ back \in Seq(Message) /\ Len(back) = Cardinality(reported \ before)
        /\ ToSet(back) \subseteq reported \ before /\ IsInjective(back)
    BY <2>1, EveryElementOnce
  <2>4. Cardinality(reported \ before) = Cardinality(reported) - Cardinality(before)
    <3>1. Cardinality(reported \ before) = Cardinality(reported) - Cardinality(reported \cap before)
      BY <1>4, FS_Difference
    <3>2. reported \cap before = before
      OBVIOUS
    <3> QED BY <3>1, <3>2
  <2>5. Cardinality(before) \in Nat
    BY <2>1, FS_CardinalityType
  <2>6. Len(front) + Len(back) = Cardinality(reported)
    <3> HIDE DEF front, back
    <3> QED BY <1>4, <2>2, <2>3, <2>4, <2>5
  <2> QED BY <2>2, <2>3, <2>6
<1>8. ring_buffer_' = ring_buffer_ \o front \o FetchedFirst(files) \o back
      /\ completed' = SubSeq(completed, files + 1, Len(completed))
  BY <1>1, <1>2
<1>9. Len(front) + files + Len(back) <= FreeSlots
  <2>1. Len(front) \in Nat /\ Len(back) \in Nat /\ files \in Nat
    <3>1. \A q \in Seq(Message) : Len(q) \in Nat
      OBVIOUS
    <3> QED BY <1>3, <1>6, <1>7, <3>1
  <2> HIDE DEF files, front, back
  <2> QED BY <1>3, <1>4, <1>6, <1>7, <2>1
<1> HIDE DEF files, front, back
<1> QED BY <1>4, <1>6, <1>7, <1>8, <1>9 DEF Polls

\* The ring as long as the poller fills it, in either build.
LEMMA RingFilled ==
    ASSUME RingInv, NEW front \in Seq(Message), NEW files \in 0 .. Len(completed),
           NEW back \in Seq(Message), Len(front) + files + Len(back) <= FreeSlots,
           ring_buffer_' = ring_buffer_ \o front \o FetchedFirst(files) \o back,
           completed' = SubSeq(completed, files + 1, Len(completed))
    PROVE  /\ ring_buffer_' \in Seq(Message) /\ RingHasRoom' /\ completed' \in Seq(Fibers)
           /\ Len(ring_buffer_') = Len(ring_buffer_) + Len(front) + files + Len(back)
<1>1. /\ ring_buffer_ \in Seq(Message) /\ completed \in Seq(Fibers)
      /\ Len(ring_buffer_) \in Nat /\ Len(completed) \in Nat
  BY DEF RingInv
<1>2. FetchedFirst(files) \in Seq(Message) /\ Len(FetchedFirst(files)) = files
  <2>1. files \in Nat /\ \A i \in 1 .. files : completed[i] \in Fibers
    BY <1>1
  <2> QED BY <2>1, IsASeq DEF FetchedFirst, Msg, Message
<1>3. \A q, t \in Seq(Message) : q \o t \in Seq(Message) /\ Len(q \o t) = Len(q) + Len(t)
  OBVIOUS
<1>4. /\ ring_buffer_' \in Seq(Message)
      /\ Len(ring_buffer_') = Len(ring_buffer_) + Len(front) + files + Len(back)
  <2> DEFINE fetched == FetchedFirst(files)
             some == ring_buffer_ \o front
  <2>1. fetched \in Seq(Message) /\ Len(fetched) = files
    BY <1>2
  <2>2. some \in Seq(Message) /\ Len(some) = Len(ring_buffer_) + Len(front)
    BY <1>1, <1>3
  <2> HIDE DEF fetched, some
  <2>3. some \o fetched \in Seq(Message) /\ Len(some \o fetched) = Len(some) + files
    BY <1>3, <2>1, <2>2
  <2> DEFINE most == some \o fetched
  <2> HIDE DEF most
  <2>4. most \o back \in Seq(Message) /\ Len(most \o back) = Len(most) + Len(back)
    BY <1>3, <2>3 DEF most
  <2>5. ring_buffer_' = most \o back
    BY DEF most, some, fetched
  <2> QED BY <2>2, <2>3, <2>4, <2>5 DEF most
<1>5. completed' \in Seq(Fibers)
  BY <1>1
<1>6. RingHasRoom'
  <2>1. Len(front) \in Nat /\ Len(back) \in Nat /\ files \in Nat
    BY <1>1
  <2>2. Capacity \in Nat
    BY PollerAssumption
  <2>3. Len(ring_buffer_') <= Capacity
    BY <1>1, <1>4, <2>1, <2>2 DEF FreeSlots
  <2> QED BY <2>3 DEF RingHasRoom
<1> QED BY <1>4, <1>5, <1>6

LEMMA PollStep ==
    ASSUME PollerInv, Poll
    PROVE  PollerInv'
<1>1. RingInv
  BY DEF PollerInv, TypeOK, Turn, RingInv, RingHasRoom
<1>2. /\ active = Main /\ ~polled /\ polled' = TRUE
      /\ UNCHANGED <<scheduling, op, left, remaining_, inflight, socketVars>>
  BY DEF Poll
<1>3. PICK front, files, back : Polls(front, files, back)
  BY <1>1, PollFillsTheRing
<1>4. ring_buffer_ = <<>> /\ FreeSlots = Capacity /\ Capacity \in Nat
  BY <1>2, PollerAssumption DEF PollerInv, Turn, FreeSlots
<1>7. files \in 0 .. Len(completed) /\ Len(front) + files + Len(back) <= Capacity
  BY <1>3, <1>4 DEF Polls
<1>8. /\ front \in Seq(Message) /\ back \in Seq(Message)
      /\ IsInjective(front) /\ IsInjective(back)
      /\ ToSet(front) \subseteq SocketEvents /\ ToSet(back) \subseteq SocketEvents
      /\ ToSet(front) \cap ToSet(back) = {}
  BY <1>3 DEF Polls
<1>9. ring_buffer_' = ring_buffer_ \o front \o FetchedFirst(files) \o back
      /\ completed' = SubSeq(completed, files + 1, Len(completed))
  BY <1>3 DEF Polls
<1>10. /\ \A m \in SocketEvents : m.kind \in {"accept", "connection"}
       /\ \A m \in SocketEvents : m.kind = "accept" =>
             m = Msg("accept", watched) /\ backlog > 0 /\ watched # NoFiber
       /\ \A m \in SocketEvents : m.kind = "connection" => m.fiber \in readable
  BY DEF SocketEvents, Msg
<1>11. /\ \A i \in DOMAIN front : front[i] \in SocketEvents
       /\ \A i \in DOMAIN back : back[i] \in SocketEvents
       /\ \A i \in DOMAIN front, j \in DOMAIN back : front[i] # back[j]
  BY <1>8 DEF ToSet
<1>12. /\ completed' \in Seq(Fibers) /\ ring_buffer_' \in Seq(Message)
       /\ Len(ring_buffer_') = Len(ring_buffer_) + Len(front) + files + Len(back)
       /\ \A g \in Fibers : Outstanding(g)' = Outstanding(g)
  <2>1. /\ \A i \in DOMAIN front : front[i].kind # "file"
        /\ \A i \in DOMAIN back : back[i].kind # "file"
    BY <1>10, <1>11
  <2> QED BY <1>2, <1>7, <1>8, <1>9, <2>1, TypedEvents, EventsPolled
<1>13. Turn'
  <2>1. Len(ring_buffer_) = 0 /\ Len(front) \in Nat /\ Len(back) \in Nat
    BY <1>4, <1>8
  <2>2. Len(ring_buffer_') <= Capacity
    BY <1>4, <1>7, <1>12, <2>1
  <2> QED BY <1>2, <1>12, <2>2 DEF Turn, scheduling
<1>14. Links'
  BY <1>2 DEF PollerInv, Links, scheduling
<1>15. TypeOK'
  BY <1>2, <1>12 DEF PollerInv, TypeOK, scheduling, socketVars
<1>16. Files'
  BY <1>2, <1>12 DEF PollerInv, Files, Awaited, scheduling
<1>17. backlog > 0 /\ watched # NoFiber => WaitsForClient(watched)
  BY <1>2, PollerAssumption DEF PollerInv, Listening, IsNotified, TypeOK
<1>18. Listening'
  <2>1. \A w : WaitsForClient(w) => WaitsForClient(w)'
    BY <1>2 DEF WaitsForClient, scheduling, socketVars
  <2> QED BY <1>2, <1>17, <2>1 DEF PollerInv, Listening, socketVars
<1>19. Connections'
  BY <1>2 DEF PollerInv, Connections, scheduling, socketVars
<1>20. SocketMessages'
  <2> DEFINE n == Len(front)
             k == Len(front) + files
  <2>1. FetchedFirst(files) \in Seq(Message) /\ Len(FetchedFirst(files)) = files
        /\ \A i \in DOMAIN FetchedFirst(files) : FetchedFirst(files)[i].kind = "file"
    <3>1. files \in Nat /\ \A i \in 1..files : completed[i] \in Fibers
      BY <1>7, TypedEvents
    <3> QED BY <3>1, IsASeq DEF FetchedFirst, Msg, Message
  <2>2. ring_buffer_' = front \o FetchedFirst(files) \o back
    <3>1. ring_buffer_ \o front = front
      BY <1>4, <1>8, ConcatEmptySeq
    <3> QED BY <1>9, <3>1
  <2>3. \A i \in DOMAIN ring_buffer_' :
          \/ i \in DOMAIN front /\ ring_buffer_'[i] = front[i]
          \/ ring_buffer_'[i].kind = "file"
          \/ i - k \in DOMAIN back /\ ring_buffer_'[i] = back[i - k] /\ i \in Int
    <3> TAKE i \in DOMAIN ring_buffer_'
    <3>1. i \in Int
      BY <1>12
    <3>2. \/ i \in DOMAIN front /\ ring_buffer_'[i] = front[i]
          \/ /\ i - Len(front) \in DOMAIN FetchedFirst(files)
             /\ ring_buffer_'[i] = FetchedFirst(files)[i - Len(front)]
          \/ i - k \in DOMAIN back /\ ring_buffer_'[i] = back[i - k]
      <4> DEFINE b == FetchedFirst(files)
      <4>1. b \in Seq(Message) /\ Len(b) = files /\ ring_buffer_' = front \o b \o back
        BY <2>1, <2>2
      <4> HIDE DEF b
      <4>2. i \in DOMAIN (front \o b \o back)
        BY <4>1
      <4>3. LET r == front \o b \o back IN
            \/ i \in DOMAIN front /\ r[i] = front[i]
            \/ i - Len(front) \in DOMAIN b /\ r[i] = b[i - Len(front)]
            \/ i - (Len(front) + Len(b)) \in DOMAIN back /\ r[i] = back[i - (Len(front) + Len(b))]
        BY <1>8, <4>1, <4>2, InThreeParts
      <4> QED BY <4>1, <4>3 DEF b
    <3> QED BY <2>1, <3>1, <3>2
  <2>4. k \in Int
    BY <1>7, <1>8
  <2> HIDE DEF k
  <2>5. \A i \in DOMAIN ring_buffer_' : ring_buffer_'[i].kind = "file" \/ ring_buffer_'[i] \in SocketEvents
    BY <1>11, <2>3
  <2>6. ASSUME NEW i \in DOMAIN ring_buffer_', ring_buffer_'[i].kind = "accept"
        PROVE  /\ clients' > 0
               /\ op'[ring_buffer_'[i].fiber] = "accept"
               /\ ring_buffer_'[i].fiber \in wait_queue_'
               /\ count_'["accept"][ring_buffer_'[i].fiber] = 1
    <3>1. ring_buffer_'[i] = Msg("accept", watched) /\ backlog > 0 /\ watched # NoFiber
      BY <1>10, <2>5, <2>6
    <3>2. ring_buffer_'[i].fiber = watched
      BY <3>1 DEF Msg
    <3>3. op'[watched] = "accept" /\ watched \in wait_queue_' /\ count_'["accept"][watched] = 1
      BY <1>2, <1>17, <3>1 DEF WaitsForClient, scheduling, socketVars
    <3>4. clients' > 0
      BY <1>2, <3>1, PollerAssumption DEF PollerInv, Listening, TypeOK, socketVars
    <3> QED BY <3>2, <3>3, <3>4
  <2>7. ASSUME NEW i \in DOMAIN ring_buffer_', ring_buffer_'[i].kind = "connection"
        PROVE  op'[ring_buffer_'[i].fiber] = "read"
    <3>1. ring_buffer_'[i].fiber \in readable
      BY <1>10, <2>5, <2>7
    <3> QED BY <1>2, <3>1 DEF PollerInv, Connections
  <2>8. ASSUME NEW i \in DOMAIN ring_buffer_', NEW j \in DOMAIN ring_buffer_',
               ring_buffer_'[i].kind = "accept", ring_buffer_'[j].kind = "accept"
        PROVE  i = j
    <3>1. ring_buffer_'[i] = ring_buffer_'[j]
      BY <1>10, <2>5, <2>8
    <3>2. \/ i \in DOMAIN front /\ ring_buffer_'[i] = front[i]
          \/ i - k \in DOMAIN back /\ ring_buffer_'[i] = back[i - k] /\ i \in Int
      BY <2>3, <2>8
    <3>3. \/ j \in DOMAIN front /\ ring_buffer_'[j] = front[j]
          \/ j - k \in DOMAIN back /\ ring_buffer_'[j] = back[j - k] /\ j \in Int
      BY <2>3, <2>8
    <3>4. CASE i \in DOMAIN front /\ j \in DOMAIN front /\ front[i] = front[j]
      BY <1>8, <3>4 DEF IsInjective
    <3>5. CASE i - k \in DOMAIN back /\ j - k \in DOMAIN back /\ back[i - k] = back[j - k]
               /\ i \in Int /\ j \in Int
      <4>1. i - k = j - k
        BY <1>8, <3>5 DEF IsInjective
      <4> QED BY <2>4, <3>5, <4>1
    <3>6. CASE i \in DOMAIN front /\ j - k \in DOMAIN back /\ front[i] = back[j - k]
      BY <1>11, <3>6
    <3>7. CASE j \in DOMAIN front /\ i - k \in DOMAIN back /\ front[j] = back[i - k]
      BY <1>11, <3>7
    <3> QED BY <3>1, <3>2, <3>3, <3>4, <3>5, <3>6, <3>7
  <2> QED BY <2>6, <2>7, <2>8 DEF SocketMessages, WaitsForClient
<1> QED BY <1>13, <1>14, <1>15, <1>16, <1>18, <1>19, <1>20 DEF PollerInv

\* What is left of the invariant when a message is finished whose fiber may be resumed.
LEMMA AfterMessage ==
    ASSUME PollerInv, Finish, Links', TypeOK', Files', active' = Main,
           ToSet(ready) \subseteq ToSet(ready'), wait_queue_' \subseteq wait_queue_,
           \A w \in Fibers : WaitsForClient(w) =>
               WaitsForClient(w)' \/ (Head(ring_buffer_).kind = "accept" /\ IsNotified(w)'),
           \A g \in Fibers : op[g] \in {"read", "write"} /\ count_'["connection"][g] = 1 =>
               count_["connection"][g] = 1 /\ g \in wait_queue_'
    PROVE  PollerInv'
<1>1. /\ active = Main /\ polled /\ ring_buffer_ # <<>> /\ ring_buffer_' = Tail(ring_buffer_)
      /\ UNCHANGED <<polled, op, left, inflight, completed, watched, backlog, clients,
                     connected, readable>>
  BY DEF Finish
<1>2. /\ Head(ring_buffer_) \in Message /\ ring_buffer_' \in Seq(Message)
      /\ Len(ring_buffer_') = Len(ring_buffer_) - 1
      /\ \A i \in DOMAIN ring_buffer_' :
            i + 1 \in DOMAIN ring_buffer_ /\ ring_buffer_'[i] = ring_buffer_[i + 1]
      /\ 1 \in DOMAIN ring_buffer_ /\ Head(ring_buffer_) = ring_buffer_[1]
  BY <1>1, TypedEvents, EventFinished
<1>3. Turn'
  BY <1>1, <1>2, PollerAssumption DEF PollerInv, Turn
<1>4. Listening'
  <2>1. ASSUME NEW w \in Fibers, IsNotified(w) PROVE IsNotified(w)'
    BY <1>1, <2>1 DEF IsNotified
  <2>2. Head(ring_buffer_).kind = "accept" => clients > 0
    BY <1>2 DEF PollerInv, SocketMessages
  <2> QED BY <1>1, <2>1, <2>2, PollerAssumption DEF PollerInv, Listening, TypeOK
<1>5. Connections'
  BY <1>1 DEF PollerInv, Connections
<1>6. SocketMessages'
  <2>1. ASSUME NEW i \in DOMAIN ring_buffer_', ring_buffer_'[i].kind = "accept"
        PROVE  /\ clients' > 0 /\ op'[ring_buffer_'[i].fiber] = "accept"
               /\ ring_buffer_'[i].fiber \in wait_queue_'
               /\ count_'["accept"][ring_buffer_'[i].fiber] = 1
    <3>a. i + 1 \in DOMAIN ring_buffer_ /\ ring_buffer_'[i] = ring_buffer_[i + 1]
      BY <1>2
    <3>b. ring_buffer_[i + 1] \in Message
      <4>1. ring_buffer_ \in Seq(Message)
        BY TypedEvents
      <4> QED BY <3>a, <4>1
    <3> PICK w \in Fibers : w = ring_buffer_[i + 1].fiber
      BY <3>b DEF Message
    <3>1. i + 1 \in DOMAIN ring_buffer_ /\ ring_buffer_[i + 1].kind = "accept" /\ i \in 1..Len(ring_buffer_')
          /\ Len(ring_buffer_') \in Nat /\ ring_buffer_'[i].fiber = w
      BY <1>2, <2>1, <3>a
    <3>2. i + 1 # 1
      BY <3>1
    <3>3. Head(ring_buffer_).kind # "accept"
      BY <1>2, <3>1, <3>2 DEF PollerInv, SocketMessages
    <3>4. clients > 0 /\ WaitsForClient(w)
      BY <3>1 DEF PollerInv, SocketMessages
    <3>5. WaitsForClient(w)'
      BY <3>3, <3>4
    <3> QED BY <1>1, <3>1, <3>4, <3>5 DEF WaitsForClient
  <2>2. ASSUME NEW i \in DOMAIN ring_buffer_', ring_buffer_'[i].kind = "connection"
        PROVE  op'[ring_buffer_'[i].fiber] = "read"
    BY <1>1, <1>2, <2>2 DEF PollerInv, SocketMessages
  <2>3. ASSUME NEW i \in DOMAIN ring_buffer_', NEW j \in DOMAIN ring_buffer_',
               ring_buffer_'[i].kind = "accept", ring_buffer_'[j].kind = "accept"
        PROVE  i = j
    <3>1. i + 1 = j + 1
      BY <1>2, <2>3 DEF PollerInv, SocketMessages
    <3>2. i \in Int /\ j \in Int
      BY <1>2
    <3> QED BY <3>1, <3>2
  <2> QED BY <1>2, <2>1, <2>2, <2>3 DEF SocketMessages, WaitsForClient
<1> QED BY <1>3, <1>4, <1>5, <1>6 DEF PollerInv

LEMMA FinishFileStep ==
    ASSUME PollerInv, Finish, Head(ring_buffer_).kind = "file"
    PROVE  PollerInv'
<1>0. Head(ring_buffer_) \in Message
  BY TypedEvents DEF Finish
<1> PICK f \in Fibers : f = Head(ring_buffer_).fiber
  BY <1>0 DEF Message
<1>1. /\ active = Main /\ polled /\ ring_buffer_ # <<>> /\ ring_buffer_' = Tail(ring_buffer_)
      /\ UNCHANGED <<polled, op, left, inflight, completed, watched, backlog, clients,
                     connected, readable>>
      /\ FinishFile(f)
  BY DEF Finish
<1>2. /\ Head(ring_buffer_) \in Message /\ ring_buffer_' \in Seq(Message)
      /\ \A g \in Fibers :
            /\ Head(ring_buffer_) = Msg("file", g) =>
                  Outstanding(g)' = Outstanding(g) - 1 /\ Outstanding(g) > 0
            /\ Head(ring_buffer_) # Msg("file", g) => Outstanding(g)' = Outstanding(g)
  BY <1>1, TypedEvents, EventFinished
<1>3. f \in Fibers /\ Head(ring_buffer_) = Msg("file", f)
      /\ \A g \in Fibers \ {f} : Head(ring_buffer_) # Msg("file", g)
  BY <1>2 DEF Message, Msg
<1>4. Outstanding(f)' = Outstanding(f) - 1 /\ Outstanding(f) > 0
      /\ \A g \in Fibers \ {f} : Outstanding(g)' = Outstanding(g)
  BY <1>2, <1>3
<1>5. Outstanding(f) = Awaited(f)
  BY <1>3 DEF PollerInv, Files
<1>6. f \in wait_queue_ /\ op[f] \in {"single", "batch"}
      /\ remaining_ \in [Fibers -> 0 .. MaxBlocks] /\ remaining_[f] \in 0 .. MaxBlocks
      /\ MaxBlocks \in Nat
  <2>1. f \in wait_queue_ /\ op[f] \in {"single", "batch"}
    BY <1>4, <1>5 DEF Awaited
  <2> QED BY <1>3, <2>1, PollerAssumption DEF PollerInv, TypeOK
<1>7. /\ Links' /\ active' = Main /\ count_' = count_
      /\ ToSet(ready) \subseteq ToSet(ready')
      /\ wait_queue_' \subseteq wait_queue_ /\ \A g \in Fibers \ {f} : g \in wait_queue_ => g \in wait_queue_'
      /\ remaining_' \in [Fibers -> 0 .. MaxBlocks]
      /\ \A g \in Fibers \ {f} : remaining_'[g] = remaining_[g]
      /\ Outstanding(f)' = Awaited(f)'
      /\ f \in wait_queue_' /\ op[f] = "batch" => remaining_'[f] > 0
  <2>1. CASE op[f] = "batch" /\ remaining_[f] # 1
    <3>1. remaining_' = [remaining_ EXCEPT ![f] = @ - 1] /\ UNCHANGED scheduling /\ UNCHANGED count_
      BY <1>1, <1>6, <2>1 DEF FinishFile, LastEvent
    <3>2. Outstanding(f) = remaining_[f] /\ remaining_[f] > 1
      BY <1>4, <1>5, <1>6, <2>1 DEF Awaited
    <3>3. remaining_[f] - 1 \in 0 .. MaxBlocks
      BY <1>6, <3>2
    <3>4. remaining_' \in [Fibers -> 0 .. MaxBlocks] /\ remaining_'[f] = remaining_[f] - 1
          /\ \A g \in Fibers \ {f} : remaining_'[g] = remaining_[g]
      BY <1>3, <1>6, <3>1, <3>3
    <3>5. Awaited(f)' = remaining_[f] - 1
      BY <1>1, <1>6, <2>1, <3>1, <3>4 DEF Awaited, scheduling
    <3>6. Links'
      BY <3>1 DEF PollerInv, Links, scheduling
    <3>7. remaining_'[f] > 0
      BY <1>6, <3>2, <3>4
    <3> QED BY <1>1, <1>4, <3>1, <3>2, <3>4, <3>5, <3>6, <3>7 DEF scheduling
  <2>2. CASE op[f] = "single" \/ remaining_[f] = 1
    <3>1. /\ Resume(f) /\ UNCHANGED count_
          /\ remaining_' = remaining_ \/ remaining_' = [remaining_ EXCEPT ![f] = 0]
      BY <1>1, <1>6, <2>2 DEF FinishFile, LastEvent
    <3>2. /\ Links' /\ wait_queue_' = wait_queue_ \ {f} /\ active' = Main
          /\ ToSet(ready') = ToSet(ready) \cup {f}
      BY <1>1, <1>6, <3>1, ResumeLinks DEF PollerInv
    <3>3. Outstanding(f) = 1
      BY <1>5, <1>6, <2>2 DEF Awaited
    <3>4. Awaited(f)' = 0
      BY <3>2 DEF Awaited
    <3>5. 0 \in 0 .. MaxBlocks
      BY <1>6
    <3>6. remaining_' \in [Fibers -> 0 .. MaxBlocks]
          /\ \A g \in Fibers \ {f} : remaining_'[g] = remaining_[g]
      BY <1>3, <1>6, <3>1, <3>5
    <3> QED BY <1>4, <3>1, <3>2, <3>3, <3>4, <3>6
  <2> QED BY <1>6, <2>1, <2>2
<1>8. Files'
  <2>1. ASSUME NEW g \in Fibers \ {f} PROVE Awaited(g)' = Awaited(g)
    BY <1>1, <1>7 DEF Awaited
  <2> QED BY <1>1, <1>3, <1>4, <1>7, <2>1 DEF PollerInv, Files
<1>9. TypeOK'
  BY <1>1, <1>2, <1>7 DEF PollerInv, TypeOK, Links, Contexts
<1>10. ASSUME NEW w \in Fibers, WaitsForClient(w) PROVE WaitsForClient(w)'
  BY <1>1, <1>6, <1>7, <1>10 DEF WaitsForClient
<1>11. ASSUME NEW g \in Fibers, op[g] \in {"read", "write"}, count_'["connection"][g] = 1
       PROVE  count_["connection"][g] = 1 /\ g \in wait_queue_'
  <2>1. g # f /\ g # active
    BY <1>1, <1>6, <1>11, PollerAssumption
  <2> QED BY <1>7, <1>11, <2>1 DEF PollerInv, Connections
<1> QED BY <1>7, <1>8, <1>9, <1>10, <1>11, AfterMessage

LEMMA FinishSocketStep ==
    ASSUME PollerInv, Finish, Head(ring_buffer_).kind \in {"accept", "connection"}
    PROVE  PollerInv'
<1>0. Head(ring_buffer_) \in Message
  BY TypedEvents DEF Finish
<1> PICK f \in Fibers : f = Head(ring_buffer_).fiber
  BY <1>0 DEF Message
<1> PICK kind \in {"accept", "connection"} : kind = Head(ring_buffer_).kind
  OBVIOUS
<1>1. /\ active = Main /\ polled /\ ring_buffer_ # <<>> /\ ring_buffer_' = Tail(ring_buffer_)
      /\ UNCHANGED <<polled, op, left, inflight, completed, watched, backlog, clients,
                     connected, readable>>
      /\ FinishSocket(kind, f)
  BY DEF Finish
<1>2. /\ Head(ring_buffer_) \in Message /\ ring_buffer_' \in Seq(Message)
      /\ 1 \in DOMAIN ring_buffer_ /\ Head(ring_buffer_) = ring_buffer_[1]
      /\ \A g \in Fibers : Head(ring_buffer_) # Msg("file", g) => Outstanding(g)' = Outstanding(g)
  BY <1>1, TypedEvents, EventFinished
<1>3. f \in Fibers /\ \A g \in Fibers : Head(ring_buffer_) # Msg("file", g)
  BY <1>2 DEF Message, Msg
<1>4. \A g \in Fibers : Outstanding(g)' = Outstanding(g)
  BY <1>2, <1>3
<1>5. /\ kind = "accept" => WaitsForClient(f)
      /\ kind = "connection" => op[f] = "read"
  BY <1>2 DEF PollerInv, SocketMessages
<1>6. kind \in {"accept", "connection"} /\ kind = Head(ring_buffer_).kind
  OBVIOUS
<1>7. count_[kind][f] = 1 => f \in wait_queue_
  BY <1>1, <1>3, <1>5, <1>6, PollerAssumption DEF PollerInv, Connections, WaitsForClient
<1>8. op[f] \in {"accept", "read"}
  BY <1>5, <1>6 DEF WaitsForClient
<1>9. count_ \in [{"accept", "connection"} -> [Fibers -> 0 .. Wrapped]]
  BY DEF PollerInv, TypeOK
<1>10. Decremented(count_[kind][f]) \in 0 .. Wrapped /\ Decremented(count_[kind][f]) # 1
  BY DEF Decremented, Wrapped
<1>11. count_' = [count_ EXCEPT ![kind][f] = Decremented(count_[kind][f])] /\ remaining_' = remaining_
  BY <1>1, <1>3, <1>6, <1>9 DEF FinishSocket
<1>12. /\ count_' \in [{"accept", "connection"} -> [Fibers -> 0 .. Wrapped]]
       /\ count_'[kind][f] # 1
       /\ \A k \in {"accept", "connection"}, g \in Fibers :
             <<k, g>> # <<kind, f>> => count_'[k][g] = count_[k][g]
  <2> DEFINE n == Decremented(count_[kind][f])
  <2>1. n \in 0 .. Wrapped /\ n # 1 /\ count_' = [count_ EXCEPT ![kind][f] = n]
    BY <1>10, <1>11
  <2> HIDE DEF n
  <2> QED BY <1>3, <1>6, <1>9, <2>1, CountChanges
<1>13. /\ Links' /\ active' = Main
       /\ ToSet(ready) \subseteq ToSet(ready')
       /\ wait_queue_' \subseteq wait_queue_ /\ \A g \in Fibers \ {f} : g \in wait_queue_ => g \in wait_queue_'
       /\ count_[kind][f] = 1 => f \in ToSet(ready') /\ f \notin wait_queue_'
       /\ count_[kind][f] # 1 => wait_queue_' = wait_queue_
  <2>1. CASE count_[kind][f] = 1
    <3>1. /\ Links' /\ wait_queue_' = wait_queue_ \ {f} /\ active' = Main
          /\ ToSet(ready') = ToSet(ready) \cup {f}
      BY <1>1, <1>7, <2>1, ResumeLinks DEF PollerInv, FinishSocket
    <3> QED BY <2>1, <3>1
  <2>2. CASE count_[kind][f] # 1
    <3>1. UNCHANGED scheduling
      BY <1>1, <2>2 DEF FinishSocket
    <3> QED BY <1>1, <2>2, <3>1 DEF PollerInv, Links, scheduling
  <2> QED BY <2>1, <2>2
<1>14. Files'
  <2>1. ASSUME NEW g \in Fibers PROVE Awaited(g)' = Awaited(g)
    <3>1. CASE g = f
      BY <1>1, <1>8, <3>1 DEF Awaited
    <3>2. CASE g # f
      BY <1>1, <1>11, <1>13, <3>2 DEF Awaited
    <3> QED BY <3>1, <3>2
  <2> QED BY <1>1, <1>4, <1>11, <1>13, <2>1 DEF PollerInv, Files
<1>15. TypeOK'
  BY <1>1, <1>2, <1>11, <1>12, <1>13 DEF PollerInv, TypeOK, Links, Contexts
<1>16. ASSUME NEW w \in Fibers, WaitsForClient(w)
       PROVE  WaitsForClient(w)' \/ (Head(ring_buffer_).kind = "accept" /\ IsNotified(w)')
  <2>1. CASE w = f /\ kind = "accept"
    <3>1. IsNotified(w)'
      BY <1>1, <1>13, <1>16, <2>1 DEF IsNotified, WaitsForClient
    <3> QED BY <1>6, <2>1, <3>1
  <2>2. CASE w # f \/ kind # "accept"
    <3>1. w # f
      BY <1>5, <1>6, <1>16, <2>2 DEF WaitsForClient
    <3> QED BY <1>1, <1>12, <1>13, <1>16, <3>1 DEF WaitsForClient
  <2> QED BY <2>1, <2>2
<1>17. ASSUME NEW g \in Fibers, op[g] \in {"read", "write"}, count_'["connection"][g] = 1
       PROVE  count_["connection"][g] = 1 /\ g \in wait_queue_'
  <2>1. <<"connection", g>> # <<kind, f>> /\ g # active
    BY <1>1, <1>12, <1>17, PollerAssumption
  <2>2. count_["connection"][g] = 1 /\ g \in wait_queue_
    BY <1>12, <1>17, <2>1 DEF PollerInv, Connections
  <2>3. g # f
    BY <1>5, <1>6, <1>17, <2>1 DEF WaitsForClient
  <2> QED BY <1>13, <2>2, <2>3
<1> QED BY <1>13, <1>14, <1>15, <1>16, <1>17, AfterMessage

LEMMA NoEventsYet ==
    ASSUME completed = <<>>, ring_buffer_ = <<>>, NEW f \in Fibers, inflight[f] = 0
    PROVE  Outstanding(f) = 0
<1>1. completed \in Seq(Fibers) /\ ring_buffer_ \in Seq(Message)
      /\ DOMAIN completed = {} /\ DOMAIN ring_buffer_ = {}
  OBVIOUS
<1>2. Tally(completed, f) = 0 /\ Tally(ring_buffer_, Msg("file", f)) = 0
  <2>1. /\ Tally(completed, f) \in Nat
        /\ Tally(completed, f) > 0 <=> \E i \in DOMAIN completed : completed[i] = f
    BY <1>1, TallyIsFinite
  <2>2. /\ Tally(ring_buffer_, Msg("file", f)) \in Nat
        /\ Tally(ring_buffer_, Msg("file", f)) > 0
             <=> \E i \in DOMAIN ring_buffer_ : ring_buffer_[i] = Msg("file", f)
    BY <1>1, TallyIsFinite
  <2> QED BY <1>1, <2>1, <2>2
<1> QED BY <1>2 DEF Outstanding, Tally

LEMMA LinksFirst ==
    ASSUME active = Main, ready = SetToSeq(Fibers), wait_queue_ = {}
    PROVE  Links
<1>1. /\ ready \in Seq(Contexts) /\ ToSet(ready) \subseteq Fibers /\ IsInjective(ready)
  BY PollerAssumption, EveryElementOnce DEF Contexts
<1> QED BY <1>1, PollerAssumption DEF Links, Contexts

LEMMA PollerStarts ==
    ASSUME Init
    PROVE  PollerInv
<1>1. Links
  BY LinksFirst DEF Init
<1>2. /\ ring_buffer_ \in Seq(Message) /\ Len(ring_buffer_) = 0 /\ completed \in Seq(Fibers)
      /\ DOMAIN ring_buffer_ = {}
  BY DEF Init
<1>3. 0 \in 0 .. MaxBlocks /\ 0 \in 0 .. MaxClients /\ 0 \in 0 .. Wrapped
  BY PollerAssumption DEF Wrapped
<1>4. TypeOK
  BY <1>1, <1>2, <1>3 DEF Init, TypeOK, Links, Contexts
<1>5. Turn
  <2>1. Len(ring_buffer_) <= Capacity
    BY <1>2, PollerAssumption
  <2> QED BY <1>2, <2>1 DEF Init, Turn
<1>6. Files
  <2>1. \A f \in Fibers : Outstanding(f) = 0
    BY NoEventsYet DEF Init
  <2> QED BY <2>1 DEF Init, Files, Awaited
<1>7. Listening /\ Connections
  BY DEF Init, Listening, Connections
<1>8. SocketMessages
  BY <1>2 DEF SocketMessages
<1> QED BY <1>1, <1>4, <1>5, <1>6, <1>7, <1>8 DEF PollerInv

LEMMA PollerStep ==
    ASSUME OneModestClient, PollerInv, Next
    PROVE  PollerInv'
<1>1. CASE Poll \/ Finish \/ EndTurn
  <2>1. CASE Finish
    <3>1. Head(ring_buffer_) \in Message
      BY <2>1, TypedEvents DEF Finish
    <3>2. Head(ring_buffer_).kind = "file" \/ Head(ring_buffer_).kind \in {"accept", "connection"}
      BY <3>1 DEF Message
    <3> QED BY <2>1, <3>2, FinishFileStep, FinishSocketStep
  <2> QED BY <1>1, <2>1, PollStep, EndTurnStep
<1>2. ASSUME NEW f \in Fibers, Yield(f) \/ FileStep(f) PROVE PollerInv'
  BY <1>2, YieldStep, StartSingleStep, SubmitSomeStep, OtherFileSteps DEF FileStep
<1>3. ASSUME NEW f \in Fibers, SocketStep(f) PROVE PollerInv'
  BY <1>3, AcceptStep, AcceptWaitsStep, AcceptThrowsStep, StartTransferStep, TransferStep,
     CloseStep DEF SocketStep
<1>4. CASE Connect
  BY <1>4, ConnectStep
<1>5. ASSUME NEW f \in Fibers, Complete(f) \/ Arrive(f) PROVE PollerInv'
  BY <1>5, CompleteStep, ArriveStep
<1> QED BY <1>1, <1>2, <1>3, <1>4, <1>5 DEF Next, Thread, EventLoop

LEMMA PollerStutters ==
    ASSUME PollerInv, UNCHANGED vars
    PROVE  PollerInv'
<1>1. \A f \in Fibers : Outstanding(f)' = Outstanding(f)
  BY EventsStay DEF vars, loop, fileVars
<1>2. Files'
  BY <1>1 DEF PollerInv, Files, Awaited, vars, scheduling, fileVars
<1>3. Links' /\ Turn' /\ TypeOK'
  BY DEF PollerInv, Links, Turn, TypeOK, vars, scheduling, loop, fileVars, socketVars
<1>4. Listening' /\ Connections' /\ SocketMessages'
  BY DEF PollerInv, Listening, Connections, SocketMessages, WaitsForClient, IsNotified,
         vars, scheduling, loop, fileVars, socketVars
<1> QED BY <1>2, <1>3, <1>4 DEF PollerInv

\* What the invariant says of the properties of the runs.
LEMMA PollerSafe ==
    ASSUME PollerInv
    PROVE  /\ Len(ring_buffer_) <= Capacity /\ EventsAccountedFor
           /\ WakesTheWaiter
<1>1. Len(ring_buffer_) <= Capacity /\ EventsAccountedFor
  BY DEF PollerInv, Turn, Files, Awaited, EventsAccountedFor
<1>2. ASSUME polled, NEW f \in Fibers, NEW i \in DOMAIN ring_buffer_
      PROVE  /\ ring_buffer_[i] = Msg("file", f) => f \in wait_queue_ /\ op[f] \in {"single", "batch"}
             /\ ring_buffer_[i] = Msg("accept", f) => f \in wait_queue_ /\ op[f] = "accept"
             /\ ring_buffer_[i] = Msg("connection", f) /\ count_["connection"][f] = 1
                  => f \in wait_queue_ /\ op[f] \in {"read", "write"}
  <2>1. ASSUME ring_buffer_[i] = Msg("file", f) PROVE f \in wait_queue_ /\ op[f] \in {"single", "batch"}
    <3>1. Outstanding(f) > 0
      BY <2>1, TypedEvents, EventsAreCounted
    <3>2. Awaited(f) > 0
      BY <3>1 DEF PollerInv, Files
    <3> QED BY <3>2 DEF Awaited
  <2>2. ring_buffer_[i] = Msg("accept", f) => f \in wait_queue_ /\ op[f] = "accept"
    BY DEF PollerInv, SocketMessages, WaitsForClient, Msg
  <2>3. ASSUME ring_buffer_[i] = Msg("connection", f), count_["connection"][f] = 1
        PROVE  f \in wait_queue_ /\ op[f] \in {"read", "write"}
    <3>1. op[f] = "read"
      BY <2>3 DEF PollerInv, SocketMessages, Msg
    <3>2. f # active
      BY <1>2, PollerAssumption DEF PollerInv, Turn
    <3> QED BY <2>3, <3>1, <3>2 DEF PollerInv, Connections
  <2> QED BY <2>1, <2>2, <2>3
<1> QED BY <1>1, <1>2 DEF WakesTheWaiter

(***************************************************************************)
(* Windows.                                                                *)
(***************************************************************************)

Operations == {"none", "single", "batch", "accept", "read", "write"}

LEMMA TypedCompletions ==
    ASSUME PortInv
    PROVE  /\ completed \in Seq(Fibers) /\ ring_buffer_ \in Seq(Message)
           /\ inflight \in [Fibers -> Nat]
           /\ \A f \in Fibers : Outstanding(f) \in Nat
<1>1. /\ completed \in Seq(Fibers) /\ ring_buffer_ \in Seq(Message)
      /\ inflight \in [Fibers -> Nat]
  BY DEF PortInv, PortTyped, Turn
<1> QED BY <1>1, EventsAreCounted

\* Those that run, sleep and wait as they did are where they were in their calls.
LEMMA CallStays ==
    ASSUME NEW g \in Fibers, Call(g),
           op'[g] = op[g], left'[g] = left[g], wait_num'[g] = wait_num[g],
           aio_count'[g] = aio_count[g], Outstanding(g)' = Outstanding(g),
           g \in wait_queue_' <=> g \in wait_queue_, g \in asleep' <=> g \in asleep,
           g = active => g = active'
    PROVE  Call(g)'
<1>1. NoCall(g) => NoCall(g)'
  BY DEF NoCall
<1>2. SingleCall(g) => SingleCall(g)'
  BY DEF SingleCall
<1>3. IsSubmitting(g) => IsSubmitting(g)'
  BY DEF IsSubmitting
<1>4. IsAwaited(g) => IsAwaited(g)'
  BY DEF IsAwaited
<1> QED BY <1>1, <1>2, <1>3, <1>4 DEF Call

\* A step of the fiber that runs.
LEMMA FiberCalls ==
    ASSUME PortInv, NEW f \in Fibers, active = f, UNCHANGED <<windows, scarce, loop, completed>>,
           NEW o \in Operations, op' = [op EXCEPT ![f] = o],
           NEW l \in 0 .. MaxBlocks, left' = [left EXCEPT ![f] = l],
           NEW w \in 0 .. MaxBlocks, wait_num' = [wait_num EXCEPT ![f] = w],
           NEW c \in 0 .. Huge, aio_count' = [aio_count EXCEPT ![f] = c],
           NEW n \in Nat, inflight' = [inflight EXCEPT ![f] = @ + n],
           asleep' \in {asleep, asleep \cup {f}}, asleep' \subseteq wait_queue_',
           UNCHANGED scheduling \/ Suspend(f),
           /\ op'[f] = o /\ left'[f] = l /\ wait_num'[f] = w /\ aio_count'[f] = c
           /\ Outstanding(f)' = Outstanding(f) + n
           /\ f \notin wait_queue_ /\ f \notin asleep
           /\ UNCHANGED scheduling \/ wait_queue_' = wait_queue_ \cup {f}
           => Call(f)'
    PROVE  PortInv'
<1>1. ring_buffer_ = <<>> /\ polled = FALSE
  BY FiberRuns DEF PortInv
<1>2. Turn'
  BY <1>1 DEF PortInv, Turn, loop
<1>3. /\ Links' /\ f \notin wait_queue_
      /\ UNCHANGED scheduling \/ wait_queue_' = wait_queue_ \cup {f}
  <2>1. CASE UNCHANGED scheduling
    BY <2>1 DEF PortInv, Links, scheduling
  <2>2. CASE Suspend(f)
    BY <2>2, SuspendLinks DEF PortInv, Links
  <2> QED BY <2>1, <2>2
<1>4. /\ op \in [Fibers -> Operations] /\ left \in [Fibers -> 0 .. MaxBlocks]
      /\ wait_num \in [Fibers -> 0 .. MaxBlocks] /\ aio_count \in [Fibers -> 0 .. Huge]
      /\ asleep \subseteq wait_queue_
  BY DEF PortInv, PortTyped, PortTypeOK, Operations
<1>5. /\ op' \in [Fibers -> Operations] /\ left' \in [Fibers -> 0 .. MaxBlocks]
      /\ op'[f] = o /\ left'[f] = l
      /\ \A g \in Fibers \ {f} : op'[g] = op[g] /\ left'[g] = left[g]
  BY <1>4
<1>6. /\ wait_num' \in [Fibers -> 0 .. MaxBlocks] /\ aio_count' \in [Fibers -> 0 .. Huge]
      /\ wait_num'[f] = w /\ aio_count'[f] = c
      /\ \A g \in Fibers \ {f} : wait_num'[g] = wait_num[g] /\ aio_count'[g] = aio_count[g]
  BY <1>4
<1>7. /\ inflight' \in [Fibers -> Nat]
      /\ \A g \in Fibers : Outstanding(g)' = Outstanding(g) + (IF g = f THEN n ELSE 0)
  BY TypedCompletions, EventsAdded DEF loop
<1>8. PortTyped'
  <2>1. PortTypeOK'
    BY <1>6 DEF PortInv, PortTyped, PortTypeOK
  <2>2. \A i \in DOMAIN ring_buffer_' : ring_buffer_'[i].kind = "file"
    BY DEF PortInv, PortTyped, loop
  <2> QED BY <1>5, <1>7, <2>1, <2>2 DEF PortInv, PortTyped, Operations
<1>9. Call(f)'
  BY <1>3, <1>4, <1>5, <1>6, <1>7
<1>10. ASSUME NEW g \in Fibers, g # f PROVE Call(g)'
  <2>1. Call(g)
    BY DEF PortInv
  <2>2. Outstanding(g)' = Outstanding(g)
    BY <1>7, <1>10, TypedCompletions
  <2>3. (g \in wait_queue_' <=> g \in wait_queue_) /\ (g \in asleep' <=> g \in asleep)
    BY <1>3, <1>10 DEF scheduling
  <2> QED BY <1>5, <1>6, <1>10, <2>1, <2>2, <2>3, CallStays
<1> QED BY <1>2, <1>3, <1>8, <1>9, <1>10 DEF PortInv

\* What a step leaves alone it sets to what it was.
LEMMA AsItWas ==
    ASSUME PortInv, NEW f \in Fibers
    PROVE  /\ op[f] \in Operations /\ op = [op EXCEPT ![f] = op[f]]
           /\ left[f] \in 0 .. MaxBlocks /\ left = [left EXCEPT ![f] = left[f]]
           /\ wait_num[f] \in 0 .. MaxBlocks /\ wait_num = [wait_num EXCEPT ![f] = wait_num[f]]
           /\ aio_count[f] \in 0 .. Huge /\ aio_count = [aio_count EXCEPT ![f] = aio_count[f]]
           /\ inflight = [inflight EXCEPT ![f] = @ + 0]
           /\ Outstanding(f) \in Nat /\ Call(f) /\ asleep \subseteq wait_queue_
           /\ MaxBlocks \in Nat \ {0} /\ Huge = MaxBlocks + 1
           /\ 0 \in 0 .. MaxBlocks /\ 0 \in 0 .. Huge /\ 1 \in 0 .. MaxBlocks /\ 1 \in 0 .. Huge
           /\ \A n \in 0 .. MaxBlocks : n \in 0 .. Huge
<1>1. /\ op \in [Fibers -> Operations] /\ left \in [Fibers -> 0 .. MaxBlocks]
      /\ wait_num \in [Fibers -> 0 .. MaxBlocks] /\ aio_count \in [Fibers -> 0 .. Huge]
      /\ asleep \subseteq wait_queue_
  BY DEF PortInv, PortTyped, PortTypeOK, Operations
<1>2. Outstanding(f) \in Nat /\ inflight \in [Fibers -> Nat] /\ Call(f)
  BY TypedCompletions DEF PortInv
<1>3. inflight = [inflight EXCEPT ![f] = @ + 0]
  <2>1. inflight[f] + 0 = inflight[f]
    BY <1>2
  <2> QED BY <1>2, <2>1
<1>4. /\ MaxBlocks \in Nat \ {0} /\ Huge = MaxBlocks + 1
      /\ 0 \in 0 .. MaxBlocks /\ 0 \in 0 .. Huge /\ 1 \in 0 .. MaxBlocks /\ 1 \in 0 .. Huge
      /\ \A n \in 0 .. MaxBlocks : n \in 0 .. Huge
  BY PollerAssumption DEF Huge
<1> QED BY <1>1, <1>2, <1>3, <1>4

LEMMA StartCallStep ==
    ASSUME PortInv, UNCHANGED <<windows, scarce>>, NEW f \in Fibers,
           NEW o \in {"single", "batch", "read", "write"}, NEW n \in 0 .. MaxBlocks,
           o # "batch" => n = 1, StartCall(f, o, n)
    PROVE  PortInv'
<1>1. /\ active = f /\ op[f] = "none" /\ UNCHANGED <<windows, scarce, loop, completed>>
      /\ op' = [op EXCEPT ![f] = o] /\ left' = [left EXCEPT ![f] = n]
      /\ wait_num' = [wait_num EXCEPT ![f] = 0] /\ aio_count' = [aio_count EXCEPT ![f] = 1]
      /\ UNCHANGED scheduling /\ asleep' = asleep
  BY DEF StartCall, Runs
<1>2. /\ o \in Operations /\ 0 \in 0 .. MaxBlocks /\ 1 \in 0 .. Huge
      /\ inflight' = [inflight EXCEPT ![f] = @ + 0] /\ asleep' \subseteq wait_queue_'
  BY <1>1, AsItWas DEF Operations, scheduling, StartCall
<1>3. Outstanding(f) = 0
  BY <1>1 DEF PortInv, Call, NoCall
<1>4. ASSUME op'[f] = o, left'[f] = n, wait_num'[f] = 0, aio_count'[f] = 1,
             Outstanding(f)' = Outstanding(f) + 0, f \notin wait_queue_
      PROVE  Call(f)'
  <2>1. CASE o = "batch"
    BY <1>1, <1>3, <1>4, <2>1 DEF Call, IsSubmitting, scheduling
  <2>2. CASE o # "batch"
    BY <1>1, <1>3, <1>4, <2>2 DEF Call, SingleCall, scheduling
  <2> QED BY <2>1, <2>2
<1>5. /\ op'[f] = o /\ left'[f] = n /\ wait_num'[f] = 0 /\ aio_count'[f] = 1
      /\ Outstanding(f)' = Outstanding(f) + 0
      /\ f \notin wait_queue_ /\ f \notin asleep
      /\ UNCHANGED scheduling \/ wait_queue_' = wait_queue_ \cup {f}
      => Call(f)'
  BY <1>4
<1>6. asleep' \in {asleep, asleep \cup {f}} /\ 0 \in Nat
  BY <1>1
<1> QED BY <1>1, <1>2, <1>5, <1>6, FiberCalls

LEMMA AcceptExStep ==
    ASSUME PortInv, UNCHANGED <<windows, scarce>>, NEW f \in Fibers, AcceptEx(f)
    PROVE  PortInv'
<1>1. /\ active = f /\ op[f] = "none" /\ UNCHANGED <<windows, scarce, loop, completed>>
      /\ op' = [op EXCEPT ![f] = "accept"] /\ left' = left
      /\ wait_num' = wait_num /\ aio_count' = [aio_count EXCEPT ![f] = 1]
      /\ Suspend(f) /\ asleep' = asleep
  BY DEF AcceptEx, Runs
<1>2. left[f] = 0 /\ wait_num[f] = 0 /\ Outstanding(f) = 0
  BY <1>1 DEF PortInv, Call, NoCall
<1>3. inflight[f] = 0
  BY <1>2, TypedCompletions, EventsAreCounted
<1>4. /\ "accept" \in Operations /\ 0 \in 0 .. MaxBlocks /\ 1 \in 0 .. Huge
      /\ inflight' = [inflight EXCEPT ![f] = @ + 1] /\ asleep' \subseteq wait_queue_'
      /\ left' = [left EXCEPT ![f] = 0] /\ wait_num' = [wait_num EXCEPT ![f] = 0]
  BY <1>1, <1>2, <1>3, AsItWas DEF Operations, Suspend, AcceptEx
<1>5. ASSUME op'[f] = "accept", left'[f] = 0, wait_num'[f] = 0, aio_count'[f] = 1,
             Outstanding(f)' = Outstanding(f) + 1, f \notin asleep
      PROVE  Call(f)'
  <2>1. f \in wait_queue_' /\ f \notin asleep'
    BY <1>1, <1>5 DEF Suspend
  <2> QED BY <1>2, <1>5, <2>1 DEF Call, SingleCall
<1> QED BY <1>1, <1>4, <1>5, FiberCalls

LEMMA SubmitOneStep ==
    ASSUME PortInv, UNCHANGED <<windows, scarce>>, NEW f \in Fibers,
           op[f] \in {"single", "read", "write"}, SubmitOne(f)
    PROVE  PortInv'
<1>1. /\ active = f /\ left[f] > 0 /\ UNCHANGED <<windows, scarce, loop, completed>>
      /\ op' = op /\ left' = [left EXCEPT ![f] = @ - 1]
      /\ wait_num' = wait_num /\ aio_count' = aio_count
      /\ Suspend(f) /\ asleep' = asleep /\ inflight' = [inflight EXCEPT ![f] = @ + 1]
  BY DEF SubmitOne, Submitted_, Submits
<1>2. left[f] = 1 /\ wait_num[f] = 0 /\ aio_count[f] = 1 /\ Outstanding(f) = 0
  BY <1>1 DEF PortInv, Call, SingleCall
<1>3. /\ op[f] \in Operations /\ 0 \in 0 .. MaxBlocks /\ 1 \in 0 .. Huge
      /\ asleep' \subseteq wait_queue_' /\ op' = [op EXCEPT ![f] = op[f]]
      /\ left' = [left EXCEPT ![f] = 0] /\ wait_num' = [wait_num EXCEPT ![f] = 0]
      /\ aio_count' = [aio_count EXCEPT ![f] = 1]
  BY <1>1, <1>2, AsItWas DEF Suspend
<1>4. ASSUME op'[f] = op[f], left'[f] = 0, wait_num'[f] = 0, aio_count'[f] = 1,
             Outstanding(f)' = Outstanding(f) + 1, f \notin asleep
      PROVE  Call(f)'
  <2>1. f \in wait_queue_' /\ f \notin asleep'
    BY <1>1, <1>4 DEF Suspend
  <2> QED BY <1>2, <1>4, <2>1 DEF Call, SingleCall
<1> QED BY <1>1, <1>3, <1>4, FiberCalls

LEMMA SubmitBlockStep ==
    ASSUME PortInv, UNCHANGED <<windows, scarce>>, NEW f \in Fibers, op[f] = "batch", SubmitBlock(f)
    PROVE  PortInv'
<1>1. /\ active = f /\ left[f] > 0 /\ UNCHANGED <<windows, scarce, loop, completed>>
      /\ op' = op /\ left' = [left EXCEPT ![f] = @ - 1]
      /\ wait_num' = [wait_num EXCEPT ![f] = @ + 1] /\ aio_count' = aio_count
      /\ UNCHANGED scheduling /\ asleep' = asleep /\ inflight' = [inflight EXCEPT ![f] = @ + 1]
  BY DEF SubmitBlock, Submitted_, Submits
<1>2. IsSubmitting(f)
  BY <1>1 DEF PortInv, Call, IsAwaited
<1> DEFINE l == left[f] - 1
           w == wait_num[f] + 1
<1>3. l \in 0 .. MaxBlocks /\ w \in 0 .. MaxBlocks /\ l + w = left[f] + wait_num[f]
  BY <1>1, <1>2, AsItWas DEF IsSubmitting
<1>4. /\ op[f] \in Operations /\ aio_count[f] \in 0 .. Huge
      /\ asleep' \subseteq wait_queue_' /\ op' = [op EXCEPT ![f] = op[f]]
      /\ left' = [left EXCEPT ![f] = l] /\ wait_num' = [wait_num EXCEPT ![f] = w]
      /\ aio_count' = [aio_count EXCEPT ![f] = aio_count[f]]
  BY <1>1, AsItWas DEF scheduling
<1>5. ASSUME op'[f] = op[f], left'[f] = l, wait_num'[f] = w, aio_count'[f] = aio_count[f],
             Outstanding(f)' = Outstanding(f) + 1, f \notin wait_queue_
      PROVE  Call(f)'
  <2>1. left'[f] + wait_num'[f] \in 0 .. MaxBlocks /\ f = active' /\ f \notin wait_queue_'
    BY <1>1, <1>2, <1>3, <1>5 DEF IsSubmitting, scheduling
  <2>2. \/ aio_count'[f] = 1 /\ Outstanding(f)' = wait_num'[f]
        \/ aio_count'[f] \in {0, Huge} /\ Outstanding(f)' < wait_num'[f]
    BY <1>2, <1>5, AsItWas DEF IsSubmitting
  <2> QED BY <1>5, <2>1, <2>2 DEF Call, IsSubmitting
<1> HIDE DEF l, w
<1> QED BY <1>1, <1>3, <1>4, <1>5, FiberCalls

LEMMA WaitForAllStep ==
    ASSUME PortInv, UNCHANGED <<windows, scarce>>, NEW f \in Fibers, active = f, op[f] = "batch",
           wait_num[f] > 0 \/ aio_count[f] = 1, WaitForAll(f)
    PROVE  PortInv'
<1>1. /\ UNCHANGED <<windows, scarce, loop, completed>>
      /\ op' = op /\ left' = [left EXCEPT ![f] = 0]
      /\ wait_num' = [wait_num EXCEPT ![f] = 0] /\ aio_count' = [aio_count EXCEPT ![f] = wait_num[f]]
      /\ Suspend(f) /\ asleep' = asleep
  BY DEF WaitForAll, Counted
<1>2. IsSubmitting(f)
  <2>1. f \notin wait_queue_ /\ (IsSubmitting(f) \/ IsAwaited(f))
    BY DEF PortInv, Call, Links
  <2> QED BY <2>1 DEF IsAwaited
<1>3. wait_num[f] \in 0 .. MaxBlocks /\ wait_num[f] \in 0 .. Huge /\ Outstanding(f) <= wait_num[f]
  BY <1>2, AsItWas DEF IsSubmitting
<1>4. /\ op[f] \in Operations /\ 0 \in 0 .. MaxBlocks
      /\ asleep' \subseteq wait_queue_' /\ op' = [op EXCEPT ![f] = op[f]]
      /\ inflight' = [inflight EXCEPT ![f] = @ + 0]
  BY <1>1, AsItWas DEF Suspend, WaitForAll
<1>5. ASSUME op'[f] = op[f], left'[f] = 0, wait_num'[f] = 0, aio_count'[f] = wait_num[f],
             Outstanding(f)' = Outstanding(f) + 0, f \notin asleep
      PROVE  Call(f)'
  <2>1. f \in wait_queue_' /\ f \notin asleep'
    BY <1>1, <1>5 DEF Suspend
  <2>2. aio_count'[f] <= MaxBlocks /\ Outstanding(f)' <= aio_count'[f]
    BY <1>3, <1>5, AsItWas
  <2> QED BY <1>5, <2>1, <2>2 DEF Call, IsAwaited
<1> QED BY <1>1, <1>3, <1>4, <1>5, FiberCalls

LEMMA SleepStep ==
    ASSUME PortInv, UNCHANGED <<windows, scarce>>, NEW f \in Fibers,
           op[f] \in {"single", "batch", "read", "write"}, SleepForResources(f)
    PROVE  PortInv'
<1>1. /\ active = f /\ left[f] > 0 /\ UNCHANGED <<windows, scarce, loop, completed>>
      /\ op' = op /\ left' = left /\ wait_num' = wait_num /\ aio_count' = aio_count
      /\ Suspend(f) /\ asleep' = asleep \cup {f}
  BY DEF SleepForResources, Submits, fileVars
<1>2. /\ op[f] \in Operations /\ op' = [op EXCEPT ![f] = op[f]]
      /\ left[f] \in 0 .. MaxBlocks /\ left' = [left EXCEPT ![f] = left[f]]
      /\ wait_num[f] \in 0 .. MaxBlocks /\ wait_num' = [wait_num EXCEPT ![f] = wait_num[f]]
      /\ aio_count[f] \in 0 .. Huge /\ aio_count' = [aio_count EXCEPT ![f] = aio_count[f]]
      /\ inflight' = [inflight EXCEPT ![f] = @ + 0] /\ asleep' \subseteq wait_queue_'
  BY <1>1, AsItWas DEF Suspend, SleepForResources, fileVars
<1>3. ASSUME op'[f] = op[f], left'[f] = left[f], wait_num'[f] = wait_num[f],
             aio_count'[f] = aio_count[f], Outstanding(f)' = Outstanding(f) + 0
      PROVE  Call(f)'
  <2>1. f \in wait_queue_' /\ f \in asleep' /\ Outstanding(f)' = Outstanding(f)
    BY <1>1, <1>3, AsItWas DEF Suspend
  <2>2. CASE op[f] = "batch"
    <3>1. IsSubmitting(f)
      BY <1>1, <2>2 DEF PortInv, Call, IsAwaited
    <3>2. left[f] + wait_num[f] > 0
      BY <1>1, <1>2
    <3>3. IsSubmitting(f)'
      BY <1>3, <2>1, <3>1, <3>2 DEF IsSubmitting
    <3> QED BY <1>3, <2>2, <3>3 DEF Call
  <2>3. CASE op[f] # "batch"
    <3>1. SingleCall(f)
      BY <2>3 DEF PortInv, Call
    <3>2. SingleCall(f)'
      BY <1>1, <1>3, <2>1, <3>1 DEF SingleCall
    <3> QED BY <1>3, <2>3, <3>2 DEF Call
  <2> QED BY <2>2, <2>3
<1> QED BY <1>1, <1>2, <1>3, FiberCalls

\* A call that ends, by return or exception, has no event left.
LEMMA CallEnds ==
    ASSUME PortInv, UNCHANGED <<windows, scarce>>, NEW f \in Fibers, active = f,
           Outstanding(f) = 0, op' = [op EXCEPT ![f] = "none"],
           left' = [left EXCEPT ![f] = 0], wait_num' = [wait_num EXCEPT ![f] = 0],
           aio_count' = [aio_count EXCEPT ![f] = 0], inflight' = [inflight EXCEPT ![f] = @ + 0],
           UNCHANGED <<asleep, completed, loop>>, UNCHANGED scheduling
    PROVE  PortInv'
<1>1. /\ "none" \in Operations /\ 0 \in 0 .. MaxBlocks /\ 0 \in 0 .. Huge
      /\ asleep' \subseteq wait_queue_'
  BY AsItWas DEF Operations, scheduling
<1>2. ASSUME op'[f] = "none", left'[f] = 0, wait_num'[f] = 0, aio_count'[f] = 0,
             Outstanding(f)' = Outstanding(f) + 0, f \notin wait_queue_
      PROVE  Call(f)'
  BY <1>2 DEF Call, NoCall, scheduling
<1>3. /\ asleep' \in {asleep, asleep \cup {f}} /\ 0 \in Nat /\ UNCHANGED <<windows, scarce, loop, completed>>
      /\ UNCHANGED scheduling
  OBVIOUS
<1> QED BY <1>1, <1>2, <1>3, FiberCalls

LEMMA SubmitThrowsStep ==
    ASSUME PortInv, UNCHANGED <<windows, scarce>>, NEW f \in Fibers,
           op[f] \in {"batch", "read", "write"}, SubmitThrows(f)
    PROVE  PortInv'
<1>1. /\ active = f /\ left[f] > 0 /\ wait_num[f] = 0
      /\ op' = [op EXCEPT ![f] = "none"] /\ left' = [left EXCEPT ![f] = 0]
      /\ aio_count' = [aio_count EXCEPT ![f] = 0]
      /\ UNCHANGED <<asleep, completed, scheduling, loop>>
  BY DEF SubmitThrows, Submits
<1>2. wait_num' = [wait_num EXCEPT ![f] = 0] /\ inflight' = [inflight EXCEPT ![f] = @ + 0]
  BY <1>1, AsItWas DEF SubmitThrows
<1>3. Outstanding(f) = 0
  BY <1>1, AsItWas DEF Call, SingleCall, IsSubmitting, IsAwaited
<1> QED BY <1>1, <1>2, <1>3, CallEnds

LEMMA ReturnsStep ==
    ASSUME PortInv, UNCHANGED <<windows, scarce>>, NEW f \in Fibers, Returns(f)
    PROVE  PortInv'
<1>1. /\ active = f /\ left[f] = 0 /\ wait_num[f] = 0 /\ aio_count[f] = 0 /\ op[f] # "none"
      /\ op' = [op EXCEPT ![f] = "none"]
      /\ UNCHANGED <<asleep, completed, scheduling, loop>>
  BY DEF Returns, fileVars, portVars
<1>2. /\ left' = [left EXCEPT ![f] = 0] /\ aio_count' = [aio_count EXCEPT ![f] = 0]
      /\ wait_num' = [wait_num EXCEPT ![f] = 0] /\ inflight' = [inflight EXCEPT ![f] = @ + 0]
  BY <1>1, AsItWas DEF Returns, fileVars, portVars
<1>3. Outstanding(f) = 0
  BY <1>1, AsItWas DEF Call, SingleCall, IsSubmitting, IsAwaited
<1> QED BY <1>1, <1>2, <1>3, CallEnds

\* Steps that change no call.
LEMMA CallsStay ==
    ASSUME PortInv, UNCHANGED <<op, left, wait_num, aio_count, asleep, wait_queue_>>,
           active \in Fibers => active' = active \/ op[active] = "none",
           \A g \in Fibers : Outstanding(g)' = Outstanding(g)
    PROVE  \A g \in Fibers : Call(g)'
<1> SUFFICES ASSUME NEW g \in Fibers PROVE Call(g)'
  OBVIOUS
<1>1. Call(g) /\ Outstanding(g)' = Outstanding(g)
  BY DEF PortInv
<1>2. CASE g # active \/ active' = active
  BY <1>1, <1>2, CallStays
<1>3. CASE op[g] = "none"
  BY <1>1, <1>3 DEF Call, NoCall
<1> QED BY <1>2, <1>3

LEMMA ClosePortStep ==
    ASSUME PortInv, UNCHANGED <<windows, scarce>>, NEW f \in Fibers, Close(f), UNCHANGED portVars
    PROVE  PortInv'
<1>1. UNCHANGED <<scheduling, loop, op, fileVars, portVars, windows, scarce>>
  BY DEF Close
<1>2. \A g \in Fibers : Outstanding(g)' = Outstanding(g)
  BY <1>1, EventsStay DEF loop, fileVars
<1>3. \A g \in Fibers : Call(g)'
  BY <1>1, <1>2, CallsStay DEF scheduling, fileVars, portVars
<1> QED BY <1>1, <1>3 DEF PortInv, Links, Turn, PortTyped, PortTypeOK, scheduling, loop,
                          fileVars, portVars

LEMMA TurnsStep ==
    ASSUME PortInv, UNCHANGED <<windows, scarce>>, UNCHANGED portVars,
           EndTurn \/ \E f \in Fibers : Yield(f)
    PROVE  PortInv'
<1>1. /\ UNCHANGED <<wait_queue_, ring_buffer_, op, fileVars, portVars>>
      /\ SwitchFrom(<<active>>) /\ ring_buffer_ = <<>> /\ polled' = FALSE
      /\ active \in Fibers => op[active] = "none"
  <2>1. CASE EndTurn
    BY <2>1, PollerAssumption DEF EndTurn
  <2>2. ASSUME NEW f \in Fibers, Yield(f)
        PROVE  /\ UNCHANGED <<wait_queue_, ring_buffer_, op, fileVars, portVars>>
               /\ SwitchFrom(<<active>>) /\ ring_buffer_ = <<>> /\ polled' = FALSE
               /\ active \in Fibers => op[active] = "none"
    BY <2>2, FiberRuns DEF Yield, Runs, PortInv, loop
  <2> QED BY <2>1, <2>2
<1>2. Links'
  BY <1>1, YieldLinks DEF PortInv
<1>3. \A g \in Fibers : Outstanding(g)' = Outstanding(g)
  BY <1>1, EventsStay DEF fileVars
<1>4. \A g \in Fibers : Call(g)'
  BY <1>1, <1>3, CallsStay DEF fileVars, portVars
<1>5. Turn'
  BY <1>1 DEF PortInv, Turn
<1>6. PortTyped'
  BY <1>1 DEF PortInv, PortTyped, PortTypeOK, fileVars, portVars
<1> QED BY <1>2, <1>4, <1>5, <1>6 DEF PortInv

LEMMA CompletesStep ==
    ASSUME PortInv, UNCHANGED <<windows, scarce>>, NEW f \in Fibers, Completes(f) \/ ConnectTo(f)
    PROVE  PortInv'
<1>1. inflight \in [Fibers -> Nat]
  BY TypedCompletions
<1>2. /\ UNCHANGED <<scheduling, loop, op, left, portVars>>
      /\ inflight[f] > 0 /\ inflight' = [inflight EXCEPT ![f] = @ - 1]
      /\ completed' = Append(completed, f)
  BY <1>1 DEF Completes, Complete, ConnectTo
<1>3. /\ inflight' \in [Fibers -> Nat] /\ completed' \in Seq(Fibers)
      /\ \A g \in Fibers : Outstanding(g)' = Outstanding(g)
  BY <1>2, TypedCompletions, EventsComplete DEF loop
<1>4. \A g \in Fibers : Call(g)'
  BY <1>2, <1>3, CallsStay DEF scheduling, portVars
<1>5. Links' /\ Turn'
  BY <1>2 DEF PortInv, Links, Turn, scheduling, loop
<1>6. PortTyped'
  BY <1>2, <1>3 DEF PortInv, PortTyped, PortTypeOK, scheduling, loop, portVars
<1> QED BY <1>4, <1>5, <1>6 DEF PortInv

LEMMA PollPortStep ==
    ASSUME PortInv, UNCHANGED <<windows, scarce>>, PollPort
    PROVE  PortInv'
<1> DEFINE n == Min({Len(completed), FreeSlots, PollLimit})
<1>1. /\ active = Main /\ ~polled /\ polled' = TRUE
      /\ ring_buffer_' = ring_buffer_ \o FetchedFirst(n)
      /\ completed' = SubSeq(completed, n + 1, Len(completed))
      /\ UNCHANGED <<scheduling, op, left, inflight, portVars>>
  BY DEF PollPort, FetchedFirst
<1>2. ring_buffer_ = <<>> /\ FreeSlots = Capacity /\ Capacity \in Nat /\ PollLimit \in Nat
      /\ Len(completed) \in Nat
  BY <1>1, PollerAssumption, PortAssumption, TypedCompletions DEF PortInv, Turn, FreeSlots
<1>3. n \in 0..Len(completed) /\ n <= Capacity
  <2> DEFINE a == Len(completed)
             b == FreeSlots
  <2>1. a \in Int /\ b \in Int /\ PollLimit \in Int /\ n = Min({a, b, PollLimit})
    BY <1>2
  <2> HIDE DEF a, b, n
  <2>2. n \in {a, b, PollLimit} /\ n <= a /\ n <= b
    BY <2>1, LeastOfThree
  <2> QED BY <1>2, <2>2 DEF a, b
<1> HIDE DEF n
<1>4. /\ FetchedFirst(n) \in Seq(Message) /\ Len(FetchedFirst(n)) = n
      /\ DOMAIN FetchedFirst(n) = 1..n
      /\ \A i \in DOMAIN FetchedFirst(n) : FetchedFirst(n)[i].kind = "file"
  <2>1. n \in Nat /\ \A i \in 1..n : completed[i] \in Fibers
    BY <1>2, <1>3, TypedCompletions
  <2> QED BY <2>1, IsASeq DEF FetchedFirst, Msg, Message
<1>5. ring_buffer_' = FetchedFirst(n)
  BY <1>1, <1>2, <1>4, ConcatEmptySeq
<1>6. /\ completed' \in Seq(Fibers)
      /\ \A g \in Fibers : Outstanding(g)' = Outstanding(g)
  <2> DEFINE none == SubSeq(ring_buffer_, 1, 0)
  <2>1. none = <<>> /\ <<>> \in Seq(Message) /\ DOMAIN <<>> = {}
    BY <1>2
  <2>2. ring_buffer_' = ring_buffer_ \o <<>> \o FetchedFirst(n) \o <<>>
    BY <1>1, <1>2, <1>4, ConcatEmptySeq
  <2> QED BY <1>1, <1>3, <2>1, <2>2, TypedCompletions, EventsPolled
<1>7. \A g \in Fibers : Call(g)'
  BY <1>1, <1>6, CallsStay DEF scheduling, portVars
<1>8. Turn'
  BY <1>1, <1>3, <1>4, <1>5 DEF Turn, scheduling
<1>9. PortTyped'
  BY <1>1, <1>4, <1>5, <1>6 DEF PortInv, PortTyped, PortTypeOK, scheduling, portVars
<1>10. Links'
  BY <1>1 DEF PortInv, Links, scheduling
<1> QED BY <1>7, <1>8, <1>9, <1>10 DEF PortInv

LEMMA FinishAioStep ==
    ASSUME PortInv, UNCHANGED <<windows, scarce>>, FinishAio
    PROVE  PortInv'
<1>1. ring_buffer_ # <<>> /\ ring_buffer_' = Tail(ring_buffer_) /\ UNCHANGED <<inflight, completed>>
  BY DEF FinishAio, fileVars
<1>2. /\ Head(ring_buffer_) \in Message /\ ring_buffer_' \in Seq(Message)
      /\ Len(ring_buffer_') = Len(ring_buffer_) - 1
      /\ \A i \in DOMAIN ring_buffer_' :
            i + 1 \in DOMAIN ring_buffer_ /\ ring_buffer_'[i] = ring_buffer_[i + 1]
      /\ 1 \in DOMAIN ring_buffer_ /\ Head(ring_buffer_) = ring_buffer_[1]
      /\ \A g \in Fibers :
            /\ Head(ring_buffer_) = Msg("file", g) =>
                  Outstanding(g)' = Outstanding(g) - 1 /\ Outstanding(g) > 0
            /\ Head(ring_buffer_) # Msg("file", g) => Outstanding(g)' = Outstanding(g)
  BY <1>1, TypedCompletions, EventFinished
<1> PICK f \in Fibers : f = Head(ring_buffer_).fiber
  BY <1>2 DEF Message
<1>3. Head(ring_buffer_) = Msg("file", f) /\ \A g \in Fibers \ {f} : Head(ring_buffer_) # Msg("file", g)
  <2>1. Head(ring_buffer_).kind = "file"
    BY <1>2 DEF PortInv, PortTyped
  <2>2. Head(ring_buffer_) = Msg("file", f)
    BY <1>2, <2>1 DEF Message, Msg
  <2> QED BY <2>2 DEF Msg
<1>4. /\ Outstanding(f)' = Outstanding(f) - 1 /\ Outstanding(f) > 0
      /\ \A g \in Fibers \ {f} : Outstanding(g)' = Outstanding(g)
  BY <1>2, <1>3
<1>5. /\ active = Main /\ polled /\ f # active /\ UNCHANGED <<polled, op, left, wait_num>>
      /\ aio_count' = [aio_count EXCEPT ![f] = LessOne(@)]
      /\ IF aio_count[f] = 1 THEN Resume(f) /\ asleep' = asleep \ {f}
                             ELSE UNCHANGED <<scheduling, asleep>>
  BY PollerAssumption DEF FinishAio, fileVars
<1>6. Turn'
  <2>1. active' = Main
    BY <1>5 DEF Resume, scheduling
  <2> QED BY <1>1, <1>2, <1>5, <2>1, PollerAssumption DEF PortInv, Turn
<1>7. LessOne(aio_count[f]) \in 0 .. Huge
  BY AsItWas DEF LessOne
<1>8. /\ aio_count' \in [Fibers -> 0 .. Huge] /\ aio_count'[f] = LessOne(aio_count[f])
      /\ \A g \in Fibers \ {f} : aio_count'[g] = aio_count[g]
  BY <1>5, <1>7 DEF PortInv, PortTyped, PortTypeOK
<1>9. aio_count[f] = 1 => f \in wait_queue_
  BY <1>4, <1>5, AsItWas DEF Call, NoCall, SingleCall, IsSubmitting, IsAwaited
<1>10. /\ Links' /\ asleep' \subseteq wait_queue_'
       /\ aio_count[f] = 1 => f \notin wait_queue_' /\ f \notin asleep'
       /\ aio_count[f] # 1 => (f \in wait_queue_' <=> f \in wait_queue_) /\ (f \in asleep' <=> f \in asleep)
       /\ \A g \in Fibers \ {f} :
             (g \in wait_queue_' <=> g \in wait_queue_) /\ (g \in asleep' <=> g \in asleep)
  <2>1. CASE aio_count[f] = 1
    <3>1. /\ Links' /\ wait_queue_' = wait_queue_ \ {f} /\ asleep' = asleep \ {f}
      BY <1>5, <1>9, <2>1, ResumeLinks DEF PortInv
    <3> QED BY <2>1, <3>1, AsItWas
  <2>2. CASE aio_count[f] # 1
    <3>1. UNCHANGED <<scheduling, asleep>>
      BY <1>5, <2>2
    <3> QED BY <2>2, <3>1, AsItWas DEF PortInv, Links, scheduling
  <2> QED BY <2>1, <2>2
<1>11. PortTyped'
  <2>1. PortTypeOK'
    BY <1>5, <1>8, <1>10 DEF PortInv, PortTyped, PortTypeOK, Links
  <2>2. \A i \in DOMAIN ring_buffer_' : ring_buffer_'[i].kind = "file"
    BY <1>2 DEF PortInv, PortTyped
  <2> QED BY <1>1, <1>5, <1>10, <2>1, <2>2 DEF PortInv, PortTyped
<1>12. Call(f)'
  <2>1. CASE op[f] \notin {"none", "batch"}
    <3>1. SingleCall(f)
      BY <2>1, AsItWas DEF Call
    <3>2. wait_num[f] = 0 /\ left[f] = 0 /\ aio_count[f] = 1 /\ Outstanding(f) = 1
      BY <1>4, <3>1 DEF SingleCall
    <3>3. aio_count'[f] = 0 /\ Outstanding(f)' = 0
      BY <1>4, <1>8, <3>2, AsItWas DEF LessOne
    <3>4. SingleCall(f)'
      BY <1>5, <1>10, <3>2, <3>3 DEF SingleCall
    <3> QED BY <1>5, <2>1, <3>4 DEF Call
  <2>2. CASE op[f] = "batch" /\ IsSubmitting(f)
    <3>1. left'[f] + wait_num'[f] \in 0 .. MaxBlocks /\ left'[f] + wait_num'[f] > 0
          /\ wait_num'[f] = wait_num[f]
      BY <1>5, <2>2 DEF IsSubmitting
    <3>2. aio_count'[f] \in {0, Huge}
      BY <1>8, <2>2 DEF IsSubmitting, LessOne
    <3>3. Outstanding(f)' < wait_num[f]
      BY <1>4, <1>5, <2>2, AsItWas DEF IsSubmitting
    <3>4. f \in wait_queue_' => f \in asleep'
      BY <1>10, <2>2 DEF IsSubmitting
    <3>5. IsSubmitting(f)'
      BY <3>1, <3>2, <3>3, <3>4 DEF IsSubmitting
    <3> QED BY <1>5, <2>2, <3>5 DEF Call
  <2>3. CASE op[f] = "batch" /\ IsAwaited(f)
    <3>1. left[f] = 0 /\ wait_num[f] = 0 /\ f \in wait_queue_ \ asleep
          /\ aio_count[f] <= MaxBlocks /\ Outstanding(f) <= aio_count[f] /\ aio_count[f] > 0
      BY <1>4, <2>3, AsItWas DEF IsAwaited
    <3>2. aio_count'[f] = aio_count[f] - 1
      BY <1>8, <3>1, AsItWas DEF LessOne
    <3>3. Outstanding(f)' <= aio_count'[f] /\ aio_count'[f] <= MaxBlocks
          /\ (aio_count[f] = 1 => aio_count'[f] = 0 /\ Outstanding(f)' = 0)
      BY <1>4, <3>1, <3>2, AsItWas
    <3>4. IsAwaited(f)'
      BY <1>5, <1>10, <3>1, <3>3 DEF IsAwaited
    <3> QED BY <1>5, <2>3, <3>4 DEF Call
  <2> QED BY <1>4, <2>1, <2>2, <2>3, AsItWas DEF Call, NoCall
<1>13. ASSUME NEW g \in Fibers, g # f PROVE Call(g)'
  <2>1. Call(g) /\ g # active
    BY <1>5, PollerAssumption DEF PortInv
  <2> QED BY <1>4, <1>5, <1>8, <1>10, <1>13, <2>1, CallStays
<1> QED BY <1>6, <1>10, <1>11, <1>12, <1>13 DEF PortInv

LEMMA PortStarts ==
    ASSUME PortInit
    PROVE  PortInv
<1>1. Init /\ Links
  BY LinksFirst DEF PortInit, Init
<1>2. /\ ring_buffer_ \in Seq(Message) /\ Len(ring_buffer_) = 0 /\ completed \in Seq(Fibers)
      /\ DOMAIN ring_buffer_ = {} /\ ring_buffer_ = <<>>
  BY <1>1 DEF Init
<1>3. 0 \in 0 .. MaxBlocks /\ 0 \in 0 .. Huge /\ Capacity \in Nat
  BY PollerAssumption DEF Huge
<1>4. Turn
  <2>1. Len(ring_buffer_) <= Capacity
    BY <1>2, <1>3
  <2> QED BY <1>1, <1>2, <2>1 DEF Init, Turn
<1>5. PortTyped
  <2>1. PortTypeOK
    BY <1>3 DEF PortInit, PortTypeOK
  <2>2. /\ op \in [Fibers -> {"none", "single", "batch", "accept", "read", "write"}]
        /\ left \in [Fibers -> 0 .. MaxBlocks] /\ inflight \in [Fibers -> Nat]
    BY <1>1, <1>3 DEF Init
  <2> QED BY <1>2, <2>1, <2>2 DEF PortInit, PortTyped
<1>6. ASSUME NEW f \in Fibers PROVE Call(f)
  <2>1. Outstanding(f) = 0
    BY <1>1, NoEventsYet DEF Init
  <2> QED BY <1>1, <2>1 DEF PortInit, Init, Call, NoCall
<1> QED BY <1>1, <1>4, <1>5, <1>6 DEF PortInv

LEMMA PortStep ==
    ASSUME PortInv, UNCHANGED <<windows, scarce>>,
           PortThread \/ \E f \in Fibers : Completes(f) \/ ConnectTo(f)
    PROVE  PortInv'
<1>1. CASE PollPort \/ FinishAio
  BY <1>1, PollPortStep, FinishAioStep
<1>2. CASE UNCHANGED portVars /\ (EndTurn \/ \E f \in Fibers : Yield(f))
  BY <1>2, TurnsStep
<1>3. ASSUME NEW f \in Fibers,
             \/ StartCall(f, "single", 1)
             \/ \E o \in {"read", "write"} : StartCall(f, o, 1)
             \/ \E n \in 0 .. MaxBlocks : StartCall(f, "batch", n)
      PROVE  PortInv'
  <2>1. 1 \in 0 .. MaxBlocks
    BY PollerAssumption
  <2> QED BY <1>3, <2>1, StartCallStep
<1>4. ASSUME NEW f \in Fibers, CallStep(f) PROVE PortInv'
  <2>1. CASE FileCall(f)
    BY <2>1, SubmitOneStep, SleepStep, ReturnsStep DEF FileCall
  <2>2. CASE SocketCall(f)
    BY <2>2, SubmitOneStep, SleepStep, SubmitThrowsStep, ReturnsStep DEF SocketCall
  <2>3. CASE BatchCall(f)
    <3>1. CASE BatchFails(f) \/ AllSubmitted(f)
      BY <2>3, <3>1, WaitForAllStep DEF BatchCall, BatchFails, AllSubmitted, Submits
    <3> QED BY <2>3, <3>1, SubmitBlockStep, SleepStep, SubmitThrowsStep, ReturnsStep DEF BatchCall
  <2> QED BY <1>4, <2>1, <2>2, <2>3, ReturnsStep DEF CallStep
<1>5. ASSUME NEW f \in Fibers, AcceptEx(f) \/ (Close(f) /\ UNCHANGED portVars) PROVE PortInv'
  BY <1>5, AcceptExStep, ClosePortStep
<1>6. ASSUME NEW f \in Fibers, Completes(f) \/ ConnectTo(f) PROVE PortInv'
  BY <1>6, CompletesStep
<1> QED BY <1>1, <1>2, <1>3, <1>4, <1>5, <1>6 DEF PortThread

LEMMA PortStutters ==
    ASSUME PortInv, UNCHANGED allVars
    PROVE  PortInv'
<1>1. UNCHANGED <<scheduling, loop, op, fileVars, portVars, windows, scarce>>
  BY DEF allVars, vars
<1>2. \A g \in Fibers : Outstanding(g)' = Outstanding(g)
  BY <1>1, EventsStay DEF loop, fileVars
<1>3. \A g \in Fibers : Call(g)'
  BY <1>1, <1>2, CallsStay DEF scheduling, fileVars, portVars
<1> QED BY <1>1, <1>3 DEF PortInv, Links, Turn, PortTyped, PortTypeOK, scheduling, loop,
                          fileVars, portVars

\* What the invariant says of the properties of the runs.
LEMMA PortSafe ==
    ASSUME PortInv, windows
    PROVE  EventsAreForWaiters /\ CallOutlivesEvents /\ ResumesTheWaiter
<1>1. EventsAreForWaiters
  BY DEF PortInv, Turn, EventsAreForWaiters, RingHasRoom
<1>2. ASSUME NEW f \in Fibers
      PROVE  /\ op[f] = "none" => Outstanding(f) = 0
             /\ f \in wait_queue_ \ asleep => aio_count[f] >= Outstanding(f)
  <2>1. CASE op[f] = "none"
    BY <2>1, AsItWas DEF Call, NoCall
  <2>2. CASE op[f] = "batch"
    BY <2>2, AsItWas DEF Call, IsSubmitting, IsAwaited
  <2>3. CASE op[f] \notin {"none", "batch"}
    BY <2>3, AsItWas DEF Call, SingleCall
  <2> QED BY <2>1, <2>2, <2>3
<1>3. CallOutlivesEvents
  BY <1>2 DEF PortInv, PortTyped, CallOutlivesEvents
<1>4. ASSUME polled, ring_buffer_ # <<>>, NEW f \in Fibers, f = Head(ring_buffer_).fiber
      PROVE  op[f] # "none" /\ (aio_count[f] = 1 => f \in wait_queue_)
  <2>1. 1 \in DOMAIN ring_buffer_ /\ Head(ring_buffer_) = ring_buffer_[1]
        /\ Head(ring_buffer_) \in Message
    BY <1>4, TypedCompletions
  <2>2. ring_buffer_[1].kind = "file"
    BY <2>1 DEF PortInv, PortTyped
  <2>3. ring_buffer_[1] = Msg("file", f)
    BY <1>4, <2>1, <2>2 DEF Message, Msg
  <2>4. Outstanding(f) > 0
    BY <2>1, <2>3, TypedCompletions, EventsAreCounted
  <2>5. f # active
    BY <1>4, PollerAssumption DEF PortInv, Turn
  <2> QED BY <2>4, <2>5, AsItWas DEF Call, NoCall, SingleCall, IsSubmitting, IsAwaited
<1>5. ring_buffer_ # <<>> => Head(ring_buffer_).fiber \in Fibers
  <2>1. ring_buffer_ # <<>> => Head(ring_buffer_) \in Message
    BY TypedCompletions
  <2> QED BY <2>1 DEF Message
<1>6. ResumesTheWaiter
  BY <1>4, <1>5 DEF ResumesTheWaiter
<1> QED BY <1>1, <1>3, <1>6

-------------------------------------------------------------------------------
(***************************************************************************)
(* Both builds.                                                            *)
(***************************************************************************)

IOInv ==
    /\ windows => PortInv
    /\ ~windows /\ OneModestClient => PollerInv

\* The poller's invariant, of the build that runs, in every state.
LEMMA IOIsSafe == AllSpec => []IOInv
<1>1. PortInit => IOInv
  BY PollerStarts, PortStarts DEF PortInit, IOInv
<1>2. IOInv /\ [AllNext]_allVars => IOInv'
  <2>1. ASSUME IOInv, AllNext PROVE IOInv'
    BY <2>1, PollerStep, PortStep DEF AllNext, IOInv
  <2>2. ASSUME IOInv, UNCHANGED allVars PROVE IOInv'
    <3>1. UNCHANGED vars /\ UNCHANGED windows
      BY <2>2 DEF allVars
    <3> QED BY <2>2, <3>1, PollerStutters, PortStutters DEF IOInv
  <2> QED BY <2>1, <2>2
<1> QED BY <1>1, <1>2, PTL DEF AllSpec

\* On Windows no completion outlives its call: the kernel, the queue and the ring hold
\* none for a message and OVERLAPPED structures whose stack frame has returned, and who
\* waits for a whole batch waits for at least the events that are still to come, whether
\* or not the fiber has slept for resources (file_impl.cpp of the Windows build).
THEOREM CompletionsHaveACall == AllSpec => []CallOutlivesEvents
<1>1. IOInv => CallOutlivesEvents
  BY PortSafe DEF IOInv, CallOutlivesEvents
<1> QED BY <1>1, IOIsSafe, PTL

\* Steps of Linux that have nothing to do with the ring.
LEMMA RingOfOtherSteps ==
    ASSUME RingInv, UNCHANGED loop, NEW f \in Fibers,
           completed' = completed \/ completed' = Append(completed, f),
           connected' \subseteq Fibers, readable' \subseteq Fibers, watched' \in Fibers \cup {NoFiber}
    PROVE  RingInv'
<1>1. completed' \in Seq(Fibers)
  BY DEF RingInv
<1> QED BY <1>1 DEF RingInv, RingHasRoom, loop

\* finish() takes one message.
LEMMA RingOfFinish ==
    ASSUME RingInv, ring_buffer_ # <<>>, ring_buffer_' = Tail(ring_buffer_),
           UNCHANGED <<completed, connected, readable, watched>>
    PROVE  RingInv'
<1>1. /\ ring_buffer_ \in Seq(Message) /\ Len(ring_buffer_) <= Capacity /\ Capacity \in Nat
  BY PollerAssumption DEF RingInv, RingHasRoom
<1>2. /\ Tail(ring_buffer_) \in Seq(Message) /\ Len(Tail(ring_buffer_)) = Len(ring_buffer_) - 1
      /\ Len(ring_buffer_) \in Nat
  BY <1>1
<1> QED BY <1>1, <1>2 DEF RingInv, RingHasRoom

LEMMA RingOnLinux ==
    ASSUME RingInv, Next
    PROVE  RingInv'
<1>1. /\ connected \subseteq Fibers /\ readable \subseteq Fibers /\ watched \in Fibers \cup {NoFiber}
  BY DEF RingInv
<1>2. CASE Poll
  <2>1. PICK front, files, back : Polls(front, files, back)
    BY <1>2, PollFillsTheRing
  <2>2. ring_buffer_' \in Seq(Message) /\ RingHasRoom' /\ completed' \in Seq(Fibers)
    BY <2>1, RingFilled DEF Polls
  <2>3. UNCHANGED <<connected, readable, watched>>
    BY <1>2 DEF Poll, socketVars
  <2> QED BY <1>1, <2>2, <2>3 DEF RingInv
<1>3. CASE Finish
  BY <1>3, RingOfFinish DEF Finish
<1>4. CASE EndTurn \/ Connect
  <2>1. UNCHANGED <<ring_buffer_, completed, connected, readable, watched>>
    BY <1>4 DEF EndTurn, Connect, fileVars, socketVars, loop
  <2> QED BY <2>1 DEF RingInv, RingHasRoom
<1>5. ASSUME NEW f \in Fibers, Yield(f) \/ FileStep(f) \/ Complete(f)
      PROVE  RingInv'
  <2>1. UNCHANGED <<loop, socketVars>>
    BY <1>5 DEF Yield, FileStep, StartSingle, EndSingle, StartBatch, SubmitSome, EndBatch, Complete
  <2>2. completed' = completed \/ completed' = Append(completed, f)
    BY <1>5 DEF Yield, FileStep, StartSingle, EndSingle, StartBatch, SubmitSome, EndBatch,
                Accepts, Complete, fileVars
  <2>3. UNCHANGED <<connected, readable, watched>>
    BY <2>1 DEF socketVars
  <2> QED BY <1>1, <2>1, <2>2, <2>3, RingOfOtherSteps
<1>6. ASSUME NEW f \in Fibers, SocketStep(f) \/ Arrive(f)
      PROVE  RingInv'
  <2>1. UNCHANGED <<loop, completed>>
    BY <1>6 DEF SocketStep, Accept, AcceptWaits, AcceptThrows, StartTransfer, Transfer, Close,
                Arrive, fileVars
  <2>2. watched' = watched \/ watched' = f
    BY <1>6 DEF SocketStep, Accept, AcceptWaits, AcceptThrows, StartTransfer, Transfer, Close,
                Arrive, socketVars
  <2>3. connected' \in {connected, connected \cup {f}, connected \ {f}}
    BY <1>6 DEF SocketStep, Accept, AcceptWaits, AcceptThrows, StartTransfer, Transfer, Close,
                Arrive, socketVars
  <2>4. readable' \in {readable, readable \cup {f}, readable \ {f}}
    BY <1>6 DEF SocketStep, Accept, AcceptWaits, AcceptThrows, StartTransfer, Transfer, Close,
                Arrive, socketVars
  <2>5. connected' \subseteq Fibers /\ readable' \subseteq Fibers /\ watched' \in Fibers \cup {NoFiber}
    BY <1>1, <2>2, <2>3, <2>4
  <2> QED BY <2>1, <2>5, RingOfOtherSteps
<1> QED BY <1>2, <1>3, <1>4, <1>5, <1>6 DEF Next, Thread, EventLoop

LEMMA RingOnWindows ==
    ASSUME RingInv, PortThread \/ \E f \in Fibers : Completes(f) \/ ConnectTo(f)
    PROVE  RingInv'
<1>1. /\ connected \subseteq Fibers /\ readable \subseteq Fibers /\ watched \in Fibers \cup {NoFiber}
  BY DEF RingInv
<1>2. CASE PollPort
  <2> DEFINE n == Min({Len(completed), FreeSlots, PollLimit})
  <2>1. /\ ring_buffer_' = ring_buffer_ \o FetchedFirst(n)
        /\ completed' = SubSeq(completed, n + 1, Len(completed))
        /\ UNCHANGED socketVars
    BY <1>2 DEF PollPort, FetchedFirst
  <2>2. Len(completed) \in Nat /\ FreeSlots \in Nat /\ PollLimit \in Nat
    <3>1. Len(ring_buffer_) \in Nat /\ Len(completed) \in Nat
      BY DEF RingInv
    <3> QED BY <3>1, PollerAssumption, PortAssumption DEF RingInv, RingHasRoom, FreeSlots
  <2>3. n \in 0 .. Len(completed) /\ n <= FreeSlots
    <3> DEFINE a == Len(completed)
               b == FreeSlots
    <3>1. a \in Int /\ b \in Int /\ PollLimit \in Int /\ n = Min({a, b, PollLimit})
      BY <2>2
    <3> HIDE DEF a, b, n
    <3>2. n \in {a, b, PollLimit} /\ n <= a /\ n <= b
      BY <3>1, LeastOfThree
    <3> QED BY <2>2, <3>2 DEF a, b
  <2> HIDE DEF n
  <2>4. FetchedFirst(n) \in Seq(Message)
    <3>1. n \in Nat /\ \A i \in 1 .. n : completed[i] \in Fibers
      BY <2>2, <2>3 DEF RingInv
    <3> QED BY <3>1, IsASeq DEF FetchedFirst, Msg, Message
  <2>5. <<>> \in Seq(Message) /\ Len(<<>>) = 0
        /\ ring_buffer_' = ring_buffer_ \o <<>> \o FetchedFirst(n) \o <<>>
    BY <2>1, <2>4, ConcatEmptySeq DEF RingInv
  <2>6. Len(<<>>) + n + Len(<<>>) <= FreeSlots
    BY <2>2, <2>3, <2>5
  <2>7. ring_buffer_' \in Seq(Message) /\ RingHasRoom' /\ completed' \in Seq(Fibers)
    BY <2>1, <2>3, <2>5, <2>6, RingFilled
  <2> QED BY <1>1, <2>1, <2>7 DEF RingInv, socketVars
<1>3. CASE FinishAio
  BY <1>3, RingOfFinish DEF FinishAio, fileVars, socketVars
<1>4. CASE EndTurn
  <2>1. UNCHANGED <<ring_buffer_, completed, connected, readable, watched>>
    BY <1>4 DEF EndTurn, fileVars, socketVars
  <2> QED BY <2>1 DEF RingInv, RingHasRoom
<1>5. ASSUME NEW f \in Fibers,
             \/ Yield(f) \/ Close(f) \/ AcceptEx(f) \/ CallStep(f) \/ Completes(f) \/ ConnectTo(f)
             \/ \E o \in {"single", "batch", "read", "write"}, n \in 0 .. MaxBlocks : StartCall(f, o, n)
      PROVE  RingInv'
  <2> DEFINE Bookkeeping ==
               /\ UNCHANGED <<loop, watched>>
               /\ completed' = completed \/ completed' = Append(completed, f)
               /\ connected' \in {connected, connected \cup {f}, connected \ {f}}
               /\ readable' \in {readable, readable \ {f}}
  <2>1. ASSUME CallStep(f) PROVE Bookkeeping
    <3>1. SubmitOne(f) \/ SubmitBlock(f) \/ SleepForResources(f) \/ SubmitThrows(f)
          \/ WaitForAll(f) \/ Returns(f)
      BY <2>1 DEF CallStep, FileCall, SocketCall, BatchCall, BatchFails, AllSubmitted
    <3> QED BY <3>1 DEF SubmitOne, SubmitBlock, Submitted_, SleepForResources, SubmitThrows,
                        WaitForAll, Returns, fileVars, socketVars
  <2>2. ASSUME Yield(f) \/ Close(f) \/ AcceptEx(f) PROVE Bookkeeping
    BY <2>2 DEF Yield, Close, AcceptEx, fileVars, socketVars
  <2>3. ASSUME Completes(f) \/ ConnectTo(f) PROVE Bookkeeping
    BY <2>3 DEF Completes, Complete, ConnectTo, socketVars
  <2>4. ASSUME NEW o, NEW n, StartCall(f, o, n) PROVE Bookkeeping
    BY <2>4 DEF StartCall, socketVars
  <2>5. Bookkeeping
    BY <1>5, <2>1, <2>2, <2>3, <2>4
  <2>6. /\ connected' \subseteq Fibers /\ readable' \subseteq Fibers
        /\ watched' \in Fibers \cup {NoFiber}
    BY <1>1, <2>5
  <2> QED BY <2>5, <2>6, RingOfOtherSteps
<1>6. MaxBlocks \in Nat \ {0}
  BY PollerAssumption
<1>7. 1 \in 0 .. MaxBlocks
  BY <1>6
<1> QED BY <1>2, <1>3, <1>4, <1>5, <1>7 DEF PortThread

\* The ring does not overflow: however many sockets share it with the file events, and
\* whatever the clients do, poll() of either build never puts a message where there is
\* no slot for it (io_poller.cpp:104-131, msvc_io_poller.cpp).
THEOREM RingNeverOverflows == AllSpec => []RingHasRoom
<1>1. PortInit => RingInv
  <2>1. PortInit => /\ ring_buffer_ = <<>> /\ completed = <<>> /\ connected = {} /\ readable = {}
                    /\ watched = NoFiber
    BY DEF PortInit, Init
  <2> QED BY <2>1, PollerAssumption DEF RingInv, RingHasRoom
<1>2. RingInv /\ [AllNext]_allVars => RingInv'
  <2>1. ASSUME RingInv, AllNext PROVE RingInv'
    BY <2>1, RingOnLinux, RingOnWindows DEF AllNext
  <2>2. ASSUME RingInv, UNCHANGED allVars PROVE RingInv'
    BY <2>2 DEF allVars, vars, loop, fileVars, socketVars, RingInv, RingHasRoom
  <2> QED BY <2>1, <2>2
<1>3. RingInv => RingHasRoom
  BY DEF RingInv
<1> QED BY <1>1, <1>2, <1>3, PTL DEF AllSpec

\* On Linux, where at most one client connects and sends only what is asked for, the
\* events that the kernel or the ring holds for a fiber are those it waits for: as many
\* as are left of its batch, and none once the operation is over, whose message and
\* iocbs are on the fiber's stack. With more the code does not keep to it (run
\* spurious_wakeup). On Windows it says what RingNeverOverflows does.
THEOREM EventsGoToWaiters == AllSpec => [](windows \/ OneModestClient => EventsAreForWaiters)
<1>1. IOInv => (windows \/ OneModestClient => EventsAreForWaiters)
  BY PollerSafe, PortSafe DEF IOInv, EventsAreForWaiters, RingHasRoom
<1> QED BY <1>1, IOIsSafe, PTL

\* What finish() resumes is suspended, in the operation its message stands for: no
\* wake-up comes after its fiber has gone on to something else. On Linux with the
\* same clients; a second one or an early byte does wake a fiber that sleeps elsewhere.
THEOREM MessagesResumeWaiters == AllSpec => [](windows \/ OneModestClient => ResumesTheWaiter)
<1>1. IOInv => (windows \/ OneModestClient => ResumesTheWaiter)
  BY PollerSafe, PortSafe DEF IOInv, ResumesTheWaiter
<1> QED BY <1>1, IOIsSafe, PTL

===============================================================================
