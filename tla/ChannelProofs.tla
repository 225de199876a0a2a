---------------------------- MODULE ChannelProofs -----------------------------
(***************************************************************************)
(* Safety of the channels, as MCChannels puts them together: for any       *)
(* producers, consumers and values, any capacity, word and watermarks.     *)
(*                                                                         *)
(* Each kind of channel has an inductive invariant of its own.  LinksInv   *)
(* puts together what holds of a ring of any size, SlotsInv what holds of  *)
(* one with at least two slots: what its cycles say, and who is woken.     *)
(***************************************************************************)
EXTENDS MCChannels, FiniteSetTheorems, TLAPS

IsQueue == kind \in {"bounded queue", "unbounded queue"}

(***************************************************************************)
(* The invariants.                                                         *)
(***************************************************************************)

\* A wait queue holds who of its side waits, once each, and besides them only
\* fibers that their deadline has made ready.
IsLinkedOnce(side, queue, overdue) ==
    /\ IsInjective(queue)
    /\ \A f \in side : at[f] = "waits" => f \in ToSet(queue)
    /\ \A f \in ToSet(queue) : at[f] \in {"waits", overdue}

\* The fibers that are inside a call.
Inside == {f \in Fibers : at[f] # "runs"}

RingLinks ==
    /\ TypeOK
    /\ IsLinkedOnce(Producers, waiting_producers_, "expired")
    /\ IsLinkedOnce(Consumers, waiting_consumers_, "expired")
    /\ closed_ => waiting_producers_ = <<>> /\ waiting_consumers_ = <<>>
    /\ \A p \in Producers : at[p] # "runs" => value[p] \in Values

\* Counted from the consumers' index, the slots of Count cycles are filled, and the
\* others are free for the producers.
CyclesInv ==
    /\ Count <= Capacity
    /\ \A i \in Slots :
        cycle[SlotOf(consumer_idx_ + i)] =
            IF i < Count THEN (consumer_idx_ + i + 1) % Word ELSE (consumer_idx_ + i) % Word

\* Without deadlines: who sleeps, although there is a slot for it, has others before it
\* that have been notified.
RingWakes ==
    /\ IsFiniteSet(Inside)
    /\ \A f \in Fibers : at[f] # "expired"
    /\ NobodyIsStranded

\* What becomes of the value of p, by where p is.
ProducerKnows(p) ==
    /\ at[p] = "offers" => slot_ = p
    /\ at[p] \in {"waits", "ready", "waitExpired"} => ~taken[p]
    /\ at[p] = "consumed" /\ ~destroyed => taken[p]

RendezvousInv ==
    /\ TimedRendezvous!TypeOK
    /\ IsLinkedOnce(Producers, waiting_producers_, "waitExpired")
    /\ IsLinkedOnce(Consumers, waiting_consumers_, "waitExpired")
    /\ closed_ => waiting_producers_ = <<>> /\ waiting_consumers_ = <<>>
    /\ TimedRendezvous!SlotIsAlive
    /\ \A p \in Producers : ProducerKnows(p)
    /\ TimedRendezvous!SuccessMeansConsumed
    /\ TimedRendezvous!ClosedMeansNotConsumed

RendezvousWakes ==
    /\ \A f \in Fibers : at[f] \notin {"offerExpired", "waitExpired"}
    /\ Rendezvous!NobodyIsStranded

\* The consumers that will look for a value and are not linked any more.
Woken == {c \in Consumers : at[c] \in {"notified", "overdue"}} \ ToSet(not_empty_)

QueueInv ==
    /\ queue_ \in Seq(Values)
    /\ closed_ \in BOOLEAN
    /\ not_empty_ \in Seq(Consumers) /\ not_full_ \in Seq(Producers)
    /\ at \in [Fibers -> {"runs", "waits", "notified", "overdue"}]
    /\ value \in [Producers -> Values \cup {NoValue}]
    /\ popped \in Values \cup {NoValue}
    /\ \A p \in Producers : at[p] # "runs" => value[p] \in Values
    /\ IsLinkedOnce(Producers, not_full_, "overdue")
    /\ IsLinkedOnce(Consumers, not_empty_, "overdue")
    /\ IsFiniteSet(Inside)
    /\ \A c \in Consumers : at[c] = "waits" => ~closed_ /\ Len(queue_) <= Cardinality(Woken)

BoundedInv ==
    /\ Len(queue_) <= Hwm
    /\ \A p \in Producers : at[p] = "waits" => Len(queue_) > Lwm

UnboundedInv ==
    /\ Len(queue_) <= MaxSize
    /\ \A p \in Producers : at[p] = "runs"

(***************************************************************************)
(* What the calls do to a wait queue.                                      *)
(***************************************************************************)

LEMMA LinkLast ==
    ASSUME NEW S, NEW q \in Seq(S), NEW e \in S, IsInjective(q), e \notin ToSet(q)
    PROVE  /\ Append(q, e) \in Seq(S) /\ IsInjective(Append(q, e)) /\ Append(q, e) # <<>>
           /\ ToSet(Append(q, e)) = ToSet(q) \cup {e}
<1> DEFINE r == Append(q, e)
<1>1. /\ r \in Seq(S) /\ Len(r) = Len(q) + 1 /\ r[Len(q) + 1] = e
      /\ \A i \in 1..Len(q) : r[i] = q[i]
  OBVIOUS
<1>2. DOMAIN r = 1..(Len(q) + 1) /\ DOMAIN q = 1..Len(q) /\ Len(q) \in Nat
  BY <1>1
<1> HIDE DEF r
<1>3. ToSet(r) = ToSet(q) \cup {e}
  BY <1>1, <1>2 DEF ToSet
<1>4. IsInjective(r)
  BY <1>1, <1>2 DEF ToSet, IsInjective
<1>5. r # <<>>
  BY <1>1, <1>2
<1> QED BY <1>1, <1>3, <1>4, <1>5 DEF r

LEMMA UnlinkFirst ==
    ASSUME NEW S, NEW q \in Seq(S), IsInjective(q), q # <<>>
    PROVE  /\ Head(q) \in S /\ Head(q) \in ToSet(q)
           /\ Tail(q) \in Seq(S) /\ IsInjective(Tail(q))
           /\ ToSet(Tail(q)) = ToSet(q) \ {Head(q)}
<1> DEFINE r == Tail(q)
<1>1. /\ r \in Seq(S) /\ Len(r) = Len(q) - 1 /\ Head(q) = q[1] /\ Head(q) \in S
      /\ \A i \in 1..Len(r) : r[i] = q[i + 1]
  OBVIOUS
<1>2. DOMAIN r = 1..(Len(q) - 1) /\ DOMAIN q = 1..Len(q) /\ Len(q) \in Nat /\ Len(q) >= 1
  BY <1>1
<1> HIDE DEF r
<1>3. \A i \in DOMAIN r : i + 1 \in DOMAIN q /\ r[i] = q[i + 1] /\ i + 1 # 1
  BY <1>1, <1>2
<1>4. IsInjective(r)
  <2> SUFFICES ASSUME NEW i \in DOMAIN r, NEW j \in DOMAIN r, r[i] = r[j] PROVE i = j
    BY DEF IsInjective
  <2>1. i + 1 = j + 1
    BY <1>3 DEF IsInjective
  <2> QED BY <1>2, <2>1
<1>5. \A i \in DOMAIN q : q[i] = q[1] => i = 1
  BY <1>2 DEF IsInjective
<1>6. \A i \in DOMAIN r : r[i] \in ToSet(q) \ {q[1]}
  BY <1>3, <1>5 DEF ToSet
<1>7. ASSUME NEW i \in DOMAIN q, q[i] # q[1] PROVE q[i] \in ToSet(r)
  <2>1. i - 1 \in DOMAIN r /\ r[i - 1] = q[i]
    BY <1>1, <1>2, <1>7
  <2> QED BY <2>1 DEF ToSet
<1>8. ToSet(r) = ToSet(q) \ {q[1]}
  BY <1>6, <1>7 DEF ToSet
<1>9. q[1] \in ToSet(q)
  BY <1>2 DEF ToSet
<1> QED BY <1>1, <1>4, <1>8, <1>9 DEF r

LEMMA Concatenated ==
    ASSUME NEW S, NEW a \in Seq(S), NEW b \in Seq(S)
    PROVE  /\ a \o b \in Seq(S) /\ Len(a \o b) = Len(a) + Len(b)
           /\ \A i \in 1..Len(a) : (a \o b)[i] = a[i]
           /\ \A i \in 1..Len(b) : (a \o b)[Len(a) + i] = b[i]
           /\ DOMAIN (a \o b) = 1..(Len(a) + Len(b))
OBVIOUS

LEMMA Sliced ==
    ASSUME NEW S, NEW q \in Seq(S), NEW m \in 1..(Len(q) + 1), NEW n \in 0..Len(q), m <= n + 1
    PROVE  /\ SubSeq(q, m, n) \in Seq(S) /\ Len(SubSeq(q, m, n)) = n - m + 1
           /\ \A i \in 1..(n - m + 1) : SubSeq(q, m, n)[i] = q[m + i - 1]
<1>1. Len(q) \in Nat /\ m \in Nat /\ n \in Nat /\ 1 <= m /\ n <= Len(q)
  OBVIOUS
<1>2. SubSeq(q, m, n) \in Seq(S)
  <2>1. \A i \in m..n : q[i] \in S
    BY <1>1
  <2> QED BY <1>1, <2>1
<1>3. Len(SubSeq(q, m, n)) = n - m + 1
  BY <1>1
<1>4. \A i \in 1..(n - m + 1) : SubSeq(q, m, n)[i] = q[m + i - 1]
  BY <1>1
<1> QED BY <1>2, <1>3, <1>4

LEMMA UnlinkAny ==
    ASSUME NEW S, NEW q \in Seq(S), NEW e, IsInjective(q)
    PROVE  /\ Without(q, e) \in Seq(S) /\ IsInjective(Without(q, e))
           /\ ToSet(Without(q, e)) = ToSet(q) \ {e}
<1>1. CASE e \notin ToSet(q)
  BY <1>1 DEF Without
<1>2. CASE e \in ToSet(q)
  <2>1. PICK k : k = CHOOSE i \in DOMAIN q : q[i] = e
    OBVIOUS
  <2>2. k \in DOMAIN q /\ q[k] = e /\ Without(q, e) = RemoveAt(q, k)
    BY <1>2, <2>1 DEF ToSet, Without
  <2>3. DOMAIN q = 1..Len(q) /\ Len(q) \in Nat
    OBVIOUS
  <2> DEFINE front == SubSeq(q, 1, k - 1)
             back == SubSeq(q, k + 1, Len(q))
             r == front \o back
  <2>4. /\ front \in Seq(S) /\ Len(front) = k - 1 /\ \A i \in 1..(k - 1) : front[i] = q[i]
        /\ back \in Seq(S) /\ Len(back) = Len(q) - k
        /\ \A i \in 1..(Len(q) - k) : back[i] = q[k + i]
    <3>1. k \in 1..Len(q)
      BY <2>2, <2>3
    <3>2. 1 \in 1..(Len(q) + 1) /\ k - 1 \in 0..Len(q) /\ 1 <= (k - 1) + 1 /\ (k - 1) - 1 + 1 = k - 1
          /\ k + 1 \in 1..(Len(q) + 1) /\ Len(q) \in 0..Len(q) /\ k + 1 <= Len(q) + 1
          /\ Len(q) - (k + 1) + 1 = Len(q) - k
      BY <2>3, <3>1
    <3>3. /\ front \in Seq(S) /\ Len(front) = k - 1
          /\ \A i \in 1..(k - 1) : front[i] = q[1 + i - 1]
      BY <3>2, Sliced
    <3>4. /\ back \in Seq(S) /\ Len(back) = Len(q) - k
          /\ \A i \in 1..(Len(q) - k) : back[i] = q[(k + 1) + i - 1]
      BY <3>2, Sliced
    <3>5. \A i \in 1..(k - 1) : 1 + i - 1 = i
      BY <3>1
    <3>6. \A i \in 1..(Len(q) - k) : (k + 1) + i - 1 = k + i
      BY <2>3, <3>1
    <3> QED BY <3>3, <3>4, <3>5, <3>6
  <2> HIDE DEF front, back
  <2>5. /\ r \in Seq(S) /\ Len(r) = Len(front) + Len(back)
        /\ \A i \in 1..Len(front) : r[i] = front[i]
        /\ \A i \in 1..Len(back) : r[Len(front) + i] = back[i]
        /\ DOMAIN r = 1..(Len(front) + Len(back))
    BY <2>4, Concatenated
  <2>6. DOMAIN r = 1..(Len(q) - 1)
    BY <2>2, <2>3, <2>4, <2>5
  <2> HIDE DEF r
  <2>7. ASSUME NEW i \in DOMAIN r
        PROVE  r[i] = IF i < k THEN q[i] ELSE q[i + 1]
    <3>1. CASE i < k
      <4>1. i \in 1..Len(front) /\ i \in 1..(k - 1)
        BY <2>2, <2>3, <2>4, <2>6, <3>1
      <4> QED BY <2>4, <2>5, <3>1, <4>1
    <3>2. CASE ~(i < k)
      <4>1. i - (k - 1) \in 1..(Len(q) - k) /\ (k - 1) + (i - (k - 1)) = i /\ k + (i - (k - 1)) = i + 1
        BY <2>2, <2>3, <2>6, <3>2
      <4>2. r[i] = back[i - (k - 1)]
        BY <2>4, <2>5, <4>1
      <4> QED BY <2>4, <3>2, <4>1, <4>2
    <3> QED BY <3>1, <3>2
  <2>8. \A i \in DOMAIN r : LET j == IF i < k THEN i ELSE i + 1 IN j \in DOMAIN q /\ j # k /\ r[i] = q[j]
    BY <2>2, <2>3, <2>6, <2>7
  <2>9. IsInjective(r)
    <3> SUFFICES ASSUME NEW i \in DOMAIN r, NEW j \in DOMAIN r, r[i] = r[j] PROVE i = j
      BY DEF IsInjective
    <3>1. (IF i < k THEN i ELSE i + 1) = (IF j < k THEN j ELSE j + 1)
      BY <2>8 DEF IsInjective
    <3> QED BY <2>2, <2>3, <2>6, <3>1
  <2>10. \A i \in DOMAIN r : r[i] \in ToSet(q) \ {e}
    BY <2>2, <2>8 DEF ToSet, IsInjective
  <2>11. ASSUME NEW j \in DOMAIN q, q[j] # e PROVE q[j] \in ToSet(r)
    <3>1. CASE j < k
      <4>1. j \in DOMAIN r /\ r[j] = q[j]
        BY <2>2, <2>3, <2>6, <2>7, <3>1
      <4> QED BY <4>1 DEF ToSet
    <3>2. CASE j > k
      <4>1. j - 1 \in DOMAIN r /\ r[j - 1] = q[j]
        BY <2>2, <2>3, <2>6, <2>7, <3>2
      <4> QED BY <4>1 DEF ToSet
    <3> QED BY <2>2, <2>3, <2>11, <3>1, <3>2
  <2>12. ToSet(r) = ToSet(q) \ {e}
    BY <2>10, <2>11 DEF ToSet
  <2>13. Without(q, e) = r
    BY <2>2 DEF RemoveAt, r, front, back
  <2> QED BY <2>5, <2>9, <2>12, <2>13
<1> QED BY <1>1, <1>2

\* notify_one() takes the first fiber of a queue, if there is one.
LEMMA UnlinkOne ==
    ASSUME NEW S, NEW q \in Seq(S), IsInjective(q)
    PROVE  /\ Popped(q) \in Seq(S) /\ IsInjective(Popped(q))
           /\ NotifyOne(q) \subseteq ToSet(q)
           /\ ToSet(Popped(q)) = ToSet(q) \ NotifyOne(q)
           /\ \A f, g \in NotifyOne(q) : f = g
<1>1. CASE q = <<>>
  <2>1. ToSet(q) = {}
    BY <1>1 DEF ToSet
  <2> QED BY <1>1, <2>1 DEF Popped, NotifyOne
<1>2. CASE q # <<>>
  BY <1>2, UnlinkFirst DEF Popped, NotifyOne
<1> QED BY <1>1, <1>2

LEMMA NobodyLinked ==
    ASSUME NEW S, NEW q \in Seq(S)
    PROVE  /\ q = <<>> <=> ToSet(q) = {}
           /\ ToSet(q) \subseteq S
           /\ IsInjective(<<>>) /\ ToSet(<<>>) = {}
<1>1. q # <<>> => 1 \in DOMAIN q
  OBVIOUS
<1> QED BY <1>1 DEF ToSet, IsInjective

\* In a step queue becomes r, and of the others than f only who leaves it stops to
\* wait or is made ready.
Relinks(side, queue, r, overdue, f) ==
    /\ r \in Seq(side) /\ IsInjective(r)
    /\ \A g \in side \ {f} :
        /\ at'[g] = "waits" => at[g] = "waits" /\ (g \in ToSet(queue) => g \in ToSet(r))
        /\ g \in ToSet(r) => g \in ToSet(queue) /\ at'[g] = at[g]
    /\ f \in ToSet(r) => at'[f] \in {"waits", overdue}
    /\ f \in side /\ at'[f] = "waits" => f \in ToSet(r)

\* IsLinkedOnce after a step.
LinkedNext(side, queue, overdue) ==
    /\ IsInjective(queue)
    /\ \A f \in side : at'[f] = "waits" => f \in ToSet(queue)
    /\ \A f \in ToSet(queue) : at'[f] \in {"waits", overdue}

LEMMA LinksMove ==
    ASSUME NEW side, NEW q, NEW r, NEW overdue, NEW f,
           IsLinkedOnce(side, q, overdue), Relinks(side, q, r, overdue, f)
    PROVE  LinkedNext(side, r, overdue)
<1>1. \A g \in ToSet(r) : g \in side
  BY NobodyLinked DEF Relinks
<1>2. ASSUME NEW g \in side, at'[g] = "waits" PROVE g \in ToSet(r)
  BY <1>2 DEF Relinks, IsLinkedOnce
<1>3. ASSUME NEW g \in ToSet(r) PROVE at'[g] \in {"waits", overdue}
  BY <1>1 DEF Relinks, IsLinkedOnce
<1> QED BY <1>2, <1>3 DEF Relinks, LinkedNext

\* Whoever's place changes is not linked.
LEMMA LinksStay ==
    ASSUME NEW side, NEW q \in Seq(side), NEW overdue, IsLinkedOnce(side, q, overdue),
           \A g \in side : at'[g] # at[g] =>
               /\ at'[g] # "waits"
               /\ at[g] \notin {"waits", overdue} \/ at'[g] = overdue
    PROVE  LinkedNext(side, q, overdue)
<1>1. \A g \in ToSet(q) : g \in side
  BY NobodyLinked
<1> QED BY <1>1 DEF IsLinkedOnce, LinkedNext

(***************************************************************************)
(* buffered_channel: words that wrap around and the slots they fall into.  *)
(***************************************************************************)

LEMMA Modulo ==
    ASSUME NEW a \in Int, NEW b \in Nat \ {0}
    PROVE  a \div b \in Int /\ a % b \in 0 .. b - 1 /\ a = b * (a \div b) + (a % b)
BY SMTT(30)

LEMMA AtLeastOnce ==
    ASSUME NEW b \in Nat, NEW k \in Int, k > 0
    PROVE  b * k >= b
BY SMTT(30)

LEMMA Remainder ==
    ASSUME NEW b \in Nat \ {0}, NEW a \in Int, NEW q \in Int, NEW r \in 0 .. b - 1, a = b * q + r
    PROVE  a % b = r
<1> DEFINE d == a \div b
           s == a % b
<1>1. d \in Int /\ s \in 0 .. b - 1 /\ a = b * d + s
  BY Modulo
<1> HIDE DEF d, s
<1>2. b * (d - q) = r - s /\ b * (q - d) = s - r
  BY <1>1
<1>3. ~(d - q > 0)
  <2>1. d - q > 0 => b * (d - q) >= b
    BY <1>1, AtLeastOnce
  <2> QED BY <1>1, <1>2, <2>1
<1>4. ~(q - d > 0)
  <2>1. q - d > 0 => b * (q - d) >= b
    BY <1>1, AtLeastOnce
  <2> QED BY <1>1, <1>2, <2>1
<1>5. d = q
  BY <1>1, <1>3, <1>4
<1>6. s = r
  BY <1>1, <1>5
<1> QED BY <1>6 DEF s

LEMMA WholeTurns ==
    ASSUME NEW b \in Nat \ {0}, NEW a \in Int, NEW k \in Int
    PROVE  (a + b * k) % b = a % b
<1> DEFINE d == a \div b
           s == a % b
<1>1. d \in Int /\ s \in 0 .. b - 1 /\ a = b * d + s
  BY Modulo
<1> HIDE DEF d, s
<1>2. a + b * k = b * (d + k) + s
  BY <1>1
<1>3. (a + b * k) % b = s
  BY <1>1, <1>2, Remainder
<1> QED BY <1>3 DEF s

LEMMA RingConstants ==
    /\ Capacity \in Nat \ {0} /\ Word \in Nat \ {0} /\ Word > 2 * Capacity
    /\ Word = Capacity * (Word \div Capacity) /\ Word \div Capacity \in Int
    /\ Producers \cap Consumers = {} /\ Fibers = Producers \cup Consumers
    /\ \A p \in Producers : p \in Fibers /\ p \notin Consumers
    /\ \A c \in Consumers : c \in Fibers /\ c \notin Producers
<1>1. Capacity \in Nat \ {0} /\ Word \in Nat \ {0} /\ Word > 2 * Capacity /\ Word % Capacity = 0
  BY CapacityAssumption
<1>2. Word = Capacity * (Word \div Capacity) /\ Word \div Capacity \in Int
  BY <1>1, Modulo
<1> QED BY <1>1, <1>2, FibersAssumption DEF Fibers

LEMMA WordOfWord ==
    ASSUME NEW a \in Int, NEW k \in Int
    PROVE  a % Word \in Words /\ ((a % Word) + k) % Word = (a + k) % Word
<1> DEFINE d == a \div Word
           s == a % Word
<1>1. d \in Int /\ s \in 0 .. Word - 1 /\ a = Word * d + s
  BY Modulo, RingConstants
<1>2. a % Word \in Words
  BY <1>1 DEF Words
<1> HIDE DEF d, s
<1>3. a + k = (s + k) + Word * d /\ s + k \in Int
  BY <1>1, RingConstants
<1>4. ((s + k) + Word * d) % Word = (s + k) % Word
  BY <1>1, <1>3, WholeTurns, RingConstants
<1>5. (a + k) % Word = (s + k) % Word
  BY <1>3, <1>4
<1> QED BY <1>2, <1>5 DEF s

\* A word is a multiple of the capacity: no slot is skipped when an index wraps around.
LEMMA SlotOfWord ==
    ASSUME NEW a \in Int, NEW k \in Int
    PROVE  SlotOf(a) \in Slots /\ SlotOf((a % Word) + k) = SlotOf(a + k)
<1> DEFINE d == a \div Word
           s == a % Word
           m == Word \div Capacity
<1>1. d \in Int /\ s \in 0 .. Word - 1 /\ a = Word * d + s
  BY Modulo, RingConstants
<1>2. SlotOf(a) \in Slots
  BY Modulo, RingConstants DEF SlotOf, Slots
<1>3. Word = Capacity * m /\ m \in Int
  BY RingConstants
<1> HIDE DEF d, s, m
<1>4. Word * d = Capacity * (m * d) /\ m * d \in Int
  BY <1>1, <1>3, RingConstants
<1> DEFINE e == m * d
<1>5. Word * d = Capacity * e /\ e \in Int
  BY <1>4
<1> HIDE DEF e
<1>6. a + k = (s + k) + Capacity * e /\ s + k \in Int
  BY <1>1, <1>5, RingConstants
<1>7. ((s + k) + Capacity * e) % Capacity = (s + k) % Capacity
  BY <1>5, <1>6, WholeTurns, RingConstants
<1>8. (a + k) % Capacity = (s + k) % Capacity
  BY <1>6, <1>7
<1> QED BY <1>2, <1>8 DEF s, SlotOf

LEMMA OtherSlots ==
    ASSUME NEW a \in Int, NEW b \in Int, a < b, b - a < Capacity
    PROVE  SlotOf(a) # SlotOf(b)
<1> SUFFICES ASSUME SlotOf(a) = SlotOf(b) PROVE FALSE
  OBVIOUS
<1> DEFINE q == a \div Capacity
           r == b \div Capacity
           s == a % Capacity
<1>1. q \in Int /\ r \in Int /\ s \in Int /\ a = Capacity * q + s /\ b = Capacity * r + s
  BY Modulo, RingConstants DEF SlotOf
<1> HIDE DEF q, r, s
<1>2. b - a = Capacity * (r - q)
  BY <1>1, RingConstants
<1>3. r - q > 0
  BY <1>1, <1>2, RingConstants, SMTT(30)
<1> QED BY <1>1, <1>2, <1>3, AtLeastOnce, RingConstants

LEMMA SlotsRepeat ==
    ASSUME NEW a \in Int
    PROVE  SlotOf(a + Capacity) = SlotOf(a)
<1>1. PICK k \in Int : k = 1
  OBVIOUS
<1>2. a + Capacity = a + Capacity * k
  BY <1>1, RingConstants
<1>3. (a + Capacity * k) % Capacity = a % Capacity
  BY WholeTurns, RingConstants
<1> QED BY <1>2, <1>3 DEF SlotOf

LEMMA SmallWords ==
    ASSUME NEW n \in Words
    PROVE  n \in Int /\ n % Word = n
<1>1. n = Word * 0 + n
  BY RingConstants DEF Words
<1> QED BY <1>1, Remainder, RingConstants DEF Words

\* The signed difference of two indices that are less than a capacity apart.
LEMMA SmallDiff ==
    ASSUME NEW y \in Int, NEW d \in Int, d <= 0, -d < Capacity
    PROVE  Diff((y + d) % Word, y % Word) = d
<1>1. (((y + d) % Word) - (y % Word)) % Word = d % Word
  <2> DEFINE x == y % Word
  <2>1. x \in Int /\ (x + d) % Word = (y + d) % Word
    <3>1. x \in Words /\ ((y % Word) + d) % Word = (y + d) % Word
      BY WordOfWord
    <3> QED BY <3>1 DEF Words
  <2> HIDE DEF x
  <2>2. (((x + d) % Word) + (-x)) % Word = (x + d + (-x)) % Word
    BY <2>1, WordOfWord
  <2>3. (x + d) % Word \in Int /\ x + d + (-x) = d
    BY <2>1, WordOfWord, RingConstants DEF Words
  <2>4. (((x + d) % Word) + (-x)) = (((x + d) % Word) - x)
    BY <2>1, <2>3
  <2>5. (((x + d) % Word) - x) % Word = d % Word
    BY <2>2, <2>3, <2>4
  <2>6. (((y + d) % Word) - x) % Word = d % Word
    BY <2>1, <2>5
  <2> QED BY <2>6 DEF x
<1>2. d % Word = IF d < 0 THEN d + Word ELSE 0
  <2>1. CASE d < 0
    <3>1. d = Word * (-1) + (d + Word) /\ d + Word \in 0 .. Word - 1
      BY <2>1, RingConstants
    <3> QED BY <2>1, <3>1, Remainder, RingConstants
  <2>2. CASE d = 0
    BY <2>2, SmallWords, RingConstants DEF Words
  <2> QED BY <2>1, <2>2
<1> DEFINE h == Word \div 2
<1>3. h \in Int /\ 2 * h <= Word /\ Word <= 2 * h + 1
  BY RingConstants
<1> HIDE DEF h
<1>4. /\ d < 0 => ~(d + Word < h) /\ (d + Word) - Word = d
      /\ d = 0 => 0 < h
  BY <1>3, RingConstants
<1> QED BY <1>1, <1>2, <1>4 DEF Diff, h

LEMMA Appended ==
    ASSUME NEW S, NEW n \in Nat, NEW f \in [1 .. n -> S], NEW g \in [1 .. n + 1 -> S],
           \A j \in 1 .. n : g[j] = f[j]
    PROVE  /\ f \in Seq(S) /\ Len(f) = n
           /\ g = Append(f, g[n + 1])
<1>1. f \in Seq(S) /\ Len(f) = n
  OBVIOUS
<1>2. g \in Seq(S) /\ Len(g) = n + 1
  OBVIOUS
<1>3. \A j \in 1 .. n + 1 : g[j] = Append(f, g[n + 1])[j]
  BY <1>1
<1>4. Append(f, g[n + 1]) \in Seq(S) /\ Len(Append(f, g[n + 1])) = n + 1
  BY <1>1
<1> QED BY <1>1, <1>2, <1>3, <1>4

LEMMA Shifted ==
    ASSUME NEW S, NEW n \in Nat \ {0}, NEW f \in [1 .. n -> S], NEW g \in [1 .. n - 1 -> S],
           \A j \in 1 .. n - 1 : g[j] = f[j + 1]
    PROVE  f # <<>> /\ Head(f) = f[1] /\ g = Tail(f)
<1>1. f \in Seq(S) /\ Len(f) = n
  OBVIOUS
<1>2. g \in Seq(S) /\ Len(g) = n - 1
  OBVIOUS
<1>3. Tail(f) \in Seq(S) /\ Len(Tail(f)) = n - 1 /\ \A j \in 1 .. n - 1 : Tail(f)[j] = f[j + 1]
  BY <1>1
<1>4. f # <<>> /\ Head(f) = f[1]
  BY <1>1
<1> QED BY <1>2, <1>3, <1>4

LEMMA RingIndices ==
    ASSUME TypeOK, CyclesInv
    PROVE  /\ consumer_idx_ \in Int /\ Count \in 0 .. Capacity
           /\ producer_idx_ = (consumer_idx_ + Count) % Word
           /\ SlotOf(producer_idx_) = SlotOf(consumer_idx_ + Count)
<1> DEFINE n == Count
<1>1. consumer_idx_ \in Words /\ producer_idx_ \in Words
  BY DEF TypeOK
<1>2. consumer_idx_ \in Int /\ producer_idx_ \in Int
  BY <1>1, SmallWords
<1>3. n \in 0 .. Capacity
  <2>1. n \in Words
    BY <1>2, WordOfWord DEF Count
  <2> QED BY <2>1, RingConstants DEF Words, CyclesInv
<1>4. (n + consumer_idx_) % Word = producer_idx_
  <2>1. (((producer_idx_ - consumer_idx_) % Word) + consumer_idx_) % Word
            = (producer_idx_ - consumer_idx_ + consumer_idx_) % Word
    BY <1>2, WordOfWord
  <2>2. producer_idx_ - consumer_idx_ + consumer_idx_ = producer_idx_
    BY <1>2
  <2> QED BY <1>1, <2>1, <2>2, SmallWords DEF Count
<1> HIDE DEF n
<1>5. n + consumer_idx_ = consumer_idx_ + n /\ consumer_idx_ + n \in Int
  BY <1>2, <1>3
<1>6. producer_idx_ = (consumer_idx_ + n) % Word
  BY <1>4, <1>5
<1>7. SlotOf(((consumer_idx_ + n) % Word) + 0) = SlotOf(consumer_idx_ + n + 0)
  BY <1>5, SlotOfWord
<1>8. SlotOf(producer_idx_) = SlotOf(consumer_idx_ + n)
  BY <1>2, <1>5, <1>6, <1>7
<1> QED BY <1>2, <1>3, <1>6, <1>8 DEF n

\* The comparison of a cycle with an index is right about room and values.
LEMMA CyclesTell ==
    ASSUME TypeOK, CyclesInv, Capacity > 1
    PROVE  /\ CyclesTellCount
           /\ Diff(cycle[SlotOf(producer_idx_)], producer_idx_) = 0 <=> Count < Capacity
           /\ Diff(cycle[SlotOf(consumer_idx_)], (consumer_idx_ + 1) % Word) = 0 <=> Count > 0
<1> DEFINE c == consumer_idx_
           n == Count
           K == Capacity
           full == Diff(cycle[SlotOf(producer_idx_)], producer_idx_)
           empty == Diff(cycle[SlotOf(consumer_idx_)], (consumer_idx_ + 1) % Word)
<1>1. /\ c \in Int /\ n \in 0 .. K /\ producer_idx_ = (c + n) % Word
      /\ SlotOf(producer_idx_) = SlotOf(c + n) /\ K \in Nat /\ K > 1
  BY RingIndices, RingConstants
<1>2. \A i \in Slots : cycle[SlotOf(c + i)] = IF i < n THEN (c + i + 1) % Word ELSE (c + i) % Word
  BY DEF CyclesInv
<1>3. 0 \in Slots /\ c + 0 = c /\ (n < K => n \in Slots)
  BY <1>1 DEF Slots
<1>4. cycle[SlotOf(c)] = IF 0 < n THEN (c + 1) % Word ELSE c % Word
  BY <1>2, <1>3
<1> HIDE DEF c, n, K
<1>5. full = IF n < K THEN 0 ELSE 1 - K
  <2>1. CASE n < K
    <3>1. cycle[SlotOf(producer_idx_)] = (c + n) % Word
      BY <1>1, <1>2, <1>3, <2>1
    <3>2. c + n \in Int /\ c + n + 0 = c + n
      BY <1>1
    <3>3. Diff((c + n + 0) % Word, (c + n) % Word) = 0
      BY <1>1, <3>2, SmallDiff DEF K
    <3> QED BY <1>1, <2>1, <3>1, <3>2, <3>3
  <2>2. CASE ~(n < K)
    <3>1. n = K
      BY <1>1, <2>2
    <3>2. SlotOf(producer_idx_) = SlotOf(c)
      BY <1>1, <3>1, SlotsRepeat DEF K
    <3>3. cycle[SlotOf(producer_idx_)] = (c + 1) % Word
      BY <1>1, <1>4, <3>1, <3>2
    <3>4. c + K \in Int /\ c + K + (1 - K) = c + 1 /\ 1 - K \in Int /\ 1 - K <= 0 /\ -(1 - K) < K
      BY <1>1
    <3>5. Diff((c + K + (1 - K)) % Word, (c + K) % Word) = 1 - K
      BY <3>4, SmallDiff DEF K
    <3> QED BY <1>1, <2>2, <3>1, <3>3, <3>4, <3>5
  <2> QED BY <2>1, <2>2
<1>6. empty = IF 0 < n THEN 0 ELSE -1
  <2>1. CASE 0 < n
    <3>1. c + 1 \in Int /\ c + 1 + 0 = c + 1
      BY <1>1
    <3>2. Diff((c + 1 + 0) % Word, (c + 1) % Word) = 0
      BY <1>1, <3>1, SmallDiff DEF K
    <3> QED BY <1>4, <2>1, <3>1, <3>2 DEF c
  <2>2. CASE ~(0 < n)
    <3>1. c + 1 \in Int /\ c + 1 + (-1) = c
      BY <1>1
    <3>2. Diff((c + 1 + (-1)) % Word, (c + 1) % Word) = -1
      BY <1>1, <3>1, SmallDiff DEF K
    <3> QED BY <1>4, <2>2, <3>1, <3>2 DEF c
  <2> QED BY <2>1, <2>2
<1>7. /\ full < 0 <=> n = K
      /\ full = 0 <=> n < K
      /\ empty < 0 <=> n = 0
      /\ empty = 0 <=> n > 0
  <2> HIDE DEF full, empty
  <2> QED BY <1>1, <1>5, <1>6
<1> QED BY <1>1, <1>7 DEF n, K, IsFull, IsEmpty, CyclesTellCount

\* Nothing that the ring consists of.
LEMMA CyclesRest ==
    ASSUME UNCHANGED ringVars
    PROVE  /\ CyclesInv => CyclesInv'
           /\ Count' = Count /\ Content' = Content /\ popped' = popped
<1>1. Count' = Count
  BY DEF ringVars, Count
<1>2. UNCHANGED <<consumer_idx_, cycle, storage, popped>>
  BY DEF ringVars
<1>3. Content' = Content
  BY <1>1, <1>2 DEF Content
<1> QED BY <1>1, <1>2, <1>3 DEF CyclesInv

\* A producer fills the first free slot.
LEMMA StoreFills ==
    ASSUME TypeOK, CyclesInv, Capacity > 1, NEW v \in Values, Store(v)
    PROVE  /\ CyclesInv' /\ Count < Capacity /\ Count' = Count + 1
           /\ Content' = Append(Content, v) /\ popped' = popped
<1> DEFINE c == consumer_idx_
           n == Count
           K == Capacity
<1>1. /\ c \in Int /\ n \in 0 .. K /\ producer_idx_ = (c + n) % Word
      /\ SlotOf(producer_idx_) = SlotOf(c + n) /\ K \in Nat /\ K > 1
  BY RingIndices, RingConstants
<1>2. \A i \in Slots : cycle[SlotOf(c + i)] = IF i < n THEN (c + i + 1) % Word ELSE (c + i) % Word
  BY DEF CyclesInv
<1>3. n < K
  BY CyclesTell DEF Store
<1>4. /\ consumer_idx_' = consumer_idx_ /\ popped' = popped
      /\ producer_idx_' = (producer_idx_ + 1) % Word
      /\ storage' = [storage EXCEPT ![SlotOf(c + n)] = v]
      /\ cycle' = [cycle EXCEPT ![SlotOf(c + n)] = (producer_idx_ + 1) % Word]
  BY <1>1 DEF Store
<1>5. DOMAIN cycle = Slots /\ DOMAIN storage = Slots
  BY DEF TypeOK
<1> HIDE DEF n
<1>6. producer_idx_' = (c + n + 1) % Word
  <2>1. (((c + n) % Word) + 1) % Word = (c + n + 1) % Word
    BY <1>1, WordOfWord
  <2> QED BY <1>1, <1>4, <2>1
<1>7. Count' = n + 1
  <2>1. Count' = (producer_idx_' - c) % Word
    BY <1>4 DEF Count
  <2>2. (((c + n + 1) % Word) + (-c)) % Word = (c + n + 1 + (-c)) % Word
    BY <1>1, WordOfWord
  <2>3. c + n + 1 + (-c) = n + 1
    BY <1>1
  <2>4. (c + n + 1) % Word \in Int
    BY <1>1, WordOfWord, RingConstants DEF Words
  <2>5. ((c + n + 1) % Word) + (-c) = ((c + n + 1) % Word) - c
    BY <1>1, <2>4
  <2>6. n + 1 \in Words
    BY <1>1, <1>3, RingConstants DEF Words
  <2>7. (n + 1) % Word = n + 1
    BY <2>6, SmallWords
  <2> QED BY <1>6, <2>1, <2>2, <2>3, <2>5, <2>7
<1>8. \A i \in Slots : SlotOf(c + i) \in Slots /\ (i # n => SlotOf(c + i) # SlotOf(c + n))
  <2> SUFFICES ASSUME NEW i \in Slots
               PROVE  SlotOf(c + i) \in Slots /\ (i # n => SlotOf(c + i) # SlotOf(c + n))
    OBVIOUS
  <2>1. i \in Int /\ 0 <= i /\ i < K /\ c + i \in Int /\ c + n \in Int
    BY <1>1 DEF Slots
  <2>2. SlotOf(c + i) \in Slots
    BY <2>1, SlotOfWord
  <2>3. CASE i < n
    <3>1. c + i < c + n /\ (c + n) - (c + i) < Capacity
      BY <1>1, <1>3, <2>1, <2>3
    <3> QED BY <2>1, <2>2, <3>1, OtherSlots
  <2>4. CASE i > n
    <3>1. c + n < c + i /\ (c + i) - (c + n) < Capacity
      BY <1>1, <1>3, <2>1, <2>4
    <3> QED BY <2>1, <2>2, <3>1, OtherSlots
  <2> QED BY <1>1, <2>1, <2>2, <2>3, <2>4
<1>9. ASSUME NEW i \in Slots
      PROVE  cycle'[SlotOf(c + i)] = IF i < n + 1 THEN (c + i + 1) % Word ELSE (c + i) % Word
  <2>1. i \in Int
    BY <1>1 DEF Slots
  <2>2. CASE i = n
    BY <1>1, <1>4, <1>5, <1>6, <1>8, <1>9, <2>2
  <2>3. CASE i # n
    <3>1. cycle'[SlotOf(c + i)] = cycle[SlotOf(c + i)]
      BY <1>4, <1>5, <1>8, <1>9, <2>3
    <3>2. i < n + 1 <=> i < n
      BY <1>1, <2>1, <2>3
    <3> QED BY <1>2, <1>9, <3>1, <3>2
  <2> QED BY <2>2, <2>3
<1>10. CyclesInv'
  <2>1. Count' <= Capacity
    BY <1>1, <1>3, <1>7
  <2> QED BY <1>4, <1>7, <1>9, <2>1 DEF CyclesInv
<1>11. Content' = Append(Content, v)
  <2>1. Content = [j \in 1 .. n |-> storage[SlotOf(c + j - 1)]]
    BY DEF Content, n
  <2>2. Content' = [j \in 1 .. n + 1 |-> storage'[SlotOf(c + j - 1)]]
    BY <1>4, <1>7 DEF Content
  <2>3. \A j \in 1 .. n : storage'[SlotOf(c + j - 1)] = storage[SlotOf(c + j - 1)]
    <3> SUFFICES ASSUME NEW j \in 1 .. n
                 PROVE  storage'[SlotOf(c + j - 1)] = storage[SlotOf(c + j - 1)]
      OBVIOUS
    <3>1. PICK i \in Slots : i = j - 1 /\ i # n /\ c + j - 1 = c + i
      BY <1>1, <1>3 DEF Slots
    <3>2. SlotOf(c + i) \in Slots /\ SlotOf(c + i) # SlotOf(c + n)
      BY <1>8, <3>1
    <3>3. storage'[SlotOf(c + i)] = storage[SlotOf(c + i)]
      BY <1>4, <1>5, <3>2
    <3> QED BY <3>1, <3>3
  <2>4. storage'[SlotOf(c + (n + 1) - 1)] = v
    <3>1. n \in Slots /\ c + (n + 1) - 1 = c + n
      BY <1>1, <1>3 DEF Slots
    <3>2. SlotOf(c + n) \in Slots
      BY <1>8, <3>1
    <3>3. storage'[SlotOf(c + n)] = v
      BY <1>4, <1>5, <3>2
    <3> QED BY <3>1, <3>3
  <2> DEFINE f == [j \in 1 .. n |-> storage[SlotOf(c + j - 1)]]
             g == [j \in 1 .. n + 1 |-> storage'[SlotOf(c + j - 1)]]
             S == Values \cup {NoValue}
  <2>5. n \in Nat /\ n + 1 \in 1 .. n + 1 /\ 1 .. n \subseteq 1 .. n + 1
    BY <1>1
  <2>6. \A j \in 1 .. n : storage[SlotOf(c + j - 1)] \in S
    <3> SUFFICES ASSUME NEW j \in 1 .. n PROVE storage[SlotOf(c + j - 1)] \in S
      OBVIOUS
    <3>1. c + j - 1 \in Int
      BY <1>1
    <3> QED BY <3>1, SlotOfWord DEF TypeOK
  <2>7. f \in [1 .. n -> S] /\ g \in [1 .. n + 1 -> S] /\ g[n + 1] = v
    <3>1. \A j \in 1 .. n + 1 : storage'[SlotOf(c + j - 1)] \in S
      <4> SUFFICES ASSUME NEW j \in 1 .. n + 1 PROVE storage'[SlotOf(c + j - 1)] \in S
        OBVIOUS
      <4>1. j \in 1 .. n \/ j = n + 1
        BY <2>5
      <4> QED BY <2>3, <2>4, <2>6, <4>1
    <3> QED BY <2>4, <2>5, <2>6, <3>1
  <2>8. \A j \in 1 .. n : g[j] = f[j]
    BY <2>3, <2>5
  <2> HIDE DEF f, g
  <2>9. g = Append(f, g[n + 1])
    BY <2>5, <2>7, <2>8, Appended
  <2> QED BY <2>1, <2>2, <2>7, <2>9 DEF f, g
<1> QED BY <1>3, <1>4, <1>7, <1>10, <1>11 DEF n

\* A consumer frees the first filled slot for the producers' next round.
LEMMA FetchFrees ==
    ASSUME TypeOK, CyclesInv, Capacity > 1, Fetch
    PROVE  /\ CyclesInv' /\ Count > 0 /\ Count' = Count - 1
           /\ Content # <<>> /\ popped' = Head(Content) /\ Content' = Tail(Content)
<1> DEFINE c == consumer_idx_
           n == Count
           K == Capacity
<1>1. /\ c \in Int /\ n \in 0 .. K /\ producer_idx_ = (c + n) % Word
      /\ K \in Nat /\ K > 1
  BY RingIndices, RingConstants
<1>2. \A i \in Slots : cycle[SlotOf(c + i)] = IF i < n THEN (c + i + 1) % Word ELSE (c + i) % Word
  BY DEF CyclesInv
<1>3. n > 0
  BY CyclesTell DEF Fetch
<1>4. /\ producer_idx_' = producer_idx_ /\ storage' = storage
      /\ consumer_idx_' = (c + 1) % Word
      /\ popped' = storage[SlotOf(c)]
      /\ cycle' = [cycle EXCEPT ![SlotOf(c)] = (c + K) % Word]
  BY DEF Fetch, FirstValue, NextCycle
<1>5. DOMAIN cycle = Slots /\ DOMAIN storage = Slots
  BY DEF TypeOK
<1> HIDE DEF n
<1>6. Count' = n - 1
  <2>1. PICK d \in Words : d = (c + 1) % Word
    BY <1>1, WordOfWord
  <2>2. Count' = (producer_idx_ - d) % Word
    BY <1>4, <2>1 DEF Count
  <2>3. d \in Int /\ producer_idx_ \in Int
    BY <1>1, <2>1, WordOfWord, RingConstants DEF Words
  <2>4. (((c + n) % Word) + (-d)) % Word = (c + n + (-d)) % Word
    BY <1>1, <2>3, WordOfWord
  <2>5. ((((c + 1) % Word)) + (n - 1 - d)) % Word = (c + 1 + (n - 1 - d)) % Word
    BY <1>1, <2>3, WordOfWord
  <2>6. /\ producer_idx_ - d = producer_idx_ + (-d)
        /\ c + n + (-d) = c + 1 + (n - 1 - d)
        /\ d + (n - 1 - d) = n - 1
    BY <1>1, <2>3
  <2>7. n - 1 \in Words
    BY <1>1, <1>3, RingConstants DEF Words
  <2>8. (n - 1) % Word = n - 1
    BY <2>7, SmallWords
  <2>9. (producer_idx_ + (-d)) % Word = (c + n + (-d)) % Word
    BY <1>1, <2>4
  <2>10. (d + (n - 1 - d)) % Word = (c + 1 + (n - 1 - d)) % Word
    BY <2>1, <2>5
  <2> QED BY <2>2, <2>6, <2>8, <2>9, <2>10
<1>7. \A i \in Int : /\ SlotOf(consumer_idx_' + i) = SlotOf(c + 1 + i)
                     /\ (consumer_idx_' + i) % Word = (c + 1 + i) % Word
  <2> SUFFICES ASSUME NEW i \in Int
               PROVE  /\ SlotOf(consumer_idx_' + i) = SlotOf(c + 1 + i)
                      /\ (consumer_idx_' + i) % Word = (c + 1 + i) % Word
    OBVIOUS
  <2>1. c + 1 \in Int
    BY <1>1
  <2>2. SlotOf(((c + 1) % Word) + i) = SlotOf(c + 1 + i)
    BY <2>1, SlotOfWord
  <2>3. (((c + 1) % Word) + i) % Word = (c + 1 + i) % Word
    BY <2>1, WordOfWord
  <2> QED BY <1>4, <2>2, <2>3
<1>8. SlotOf(c) \in Slots /\ SlotOf(c + K) = SlotOf(c)
  BY <1>1, SlotOfWord, SlotsRepeat
<1>9. ASSUME NEW i \in Slots
      PROVE  cycle'[SlotOf(consumer_idx_' + i)] =
                IF i < n - 1 THEN (consumer_idx_' + i + 1) % Word ELSE (consumer_idx_' + i) % Word
  <2>1. i \in Int /\ 0 <= i /\ i < K /\ i + 1 \in Int /\ c + (i + 1) = c + 1 + i /\ c + (i + 1) \in Int
    BY <1>1 DEF Slots
  <2>2. (consumer_idx_' + i) % Word = (c + (i + 1)) % Word
        /\ SlotOf(consumer_idx_' + i) = SlotOf(c + (i + 1))
    BY <1>7, <2>1
  <2>3. (consumer_idx_' + i + 1) % Word = (c + (i + 1) + 1) % Word
    <3>1. (consumer_idx_' + (i + 1)) % Word = (c + 1 + (i + 1)) % Word
      BY <1>7, <2>1
    <3>2. consumer_idx_' \in Int
      BY <1>1, <1>4, WordOfWord, RingConstants DEF Words
    <3>3. consumer_idx_' + i + 1 = consumer_idx_' + (i + 1) /\ c + 1 + (i + 1) = c + (i + 1) + 1
      BY <1>1, <2>1, <3>2
    <3> QED BY <3>1, <3>3
  <2>4. CASE i + 1 < K
    <3>1. i + 1 \in Slots
      BY <1>1, <2>1, <2>4 DEF Slots
    <3>2. cycle[SlotOf(c + (i + 1))] =
            IF i + 1 < n THEN (c + (i + 1) + 1) % Word ELSE (c + (i + 1)) % Word
      BY <1>2, <3>1
    <3>3. SlotOf(c + (i + 1)) # SlotOf(c) /\ SlotOf(c + (i + 1)) \in Slots
      <4>1. c < c + (i + 1) /\ (c + (i + 1)) - c < Capacity
        BY <1>1, <2>1, <2>4
      <4> QED BY <1>1, <2>1, <4>1, OtherSlots, SlotOfWord
    <3>4. cycle'[SlotOf(c + (i + 1))] = cycle[SlotOf(c + (i + 1))]
      BY <1>4, <1>5, <3>3
    <3>5. i + 1 < n <=> i < n - 1
      BY <1>1, <2>1
    <3> QED BY <2>2, <2>3, <3>2, <3>4, <3>5
  <2>5. CASE ~(i + 1 < K)
    <3>1. i + 1 = K /\ ~(i < n - 1)
      BY <1>1, <2>1, <2>5
    <3>2. cycle'[SlotOf(c)] = (c + K) % Word
      BY <1>4, <1>5, <1>8
    <3> QED BY <1>8, <2>2, <3>1, <3>2
  <2> QED BY <2>4, <2>5
<1>10. CyclesInv'
  <2>1. Count' <= Capacity
    BY <1>1, <1>6
  <2> QED BY <1>6, <1>9, <2>1 DEF CyclesInv
<1>11. Content # <<>> /\ popped' = Head(Content) /\ Content' = Tail(Content)
  <2> DEFINE f == [j \in 1 .. n |-> storage[SlotOf(c + j - 1)]]
             g == [j \in 1 .. n - 1 |-> storage[SlotOf(consumer_idx_' + j - 1)]]
             S == Values \cup {NoValue}
  <2>1. Content = f
    BY DEF Content, n
  <2>2. Content' = g
    BY <1>4, <1>6 DEF Content
  <2>3. consumer_idx_' \in Int
    BY <1>1, <1>4, WordOfWord, RingConstants DEF Words
  <2>4. \A i \in Int : storage[SlotOf(i)] \in S
    BY SlotOfWord DEF TypeOK
  <2>5. \A j \in Int : c + j - 1 \in Int /\ consumer_idx_' + j - 1 \in Int
    BY <1>1, <2>3
  <2>6. f \in [1 .. n -> S] /\ g \in [1 .. n - 1 -> S]
    BY <2>4, <2>5
  <2>7. \A j \in 1 .. n - 1 : g[j] = f[j + 1]
    <3> SUFFICES ASSUME NEW j \in 1 .. n - 1 PROVE g[j] = f[j + 1]
      OBVIOUS
    <3>1. j + 1 \in 1 .. n /\ j - 1 \in Int
      BY <1>1
    <3>2. SlotOf(consumer_idx_' + (j - 1)) = SlotOf(c + 1 + (j - 1))
      BY <1>7, <3>1
    <3>3. consumer_idx_' + (j - 1) = consumer_idx_' + j - 1 /\ c + 1 + (j - 1) = c + (j + 1) - 1
      BY <1>1, <2>3, <3>1
    <3> QED BY <3>1, <3>2, <3>3
  <2>8. n \in Nat \ {0} /\ 1 \in 1 .. n /\ c + 1 - 1 = c
    BY <1>1, <1>3
  <2>9. f[1] = popped'
    BY <1>4, <2>8
  <2> HIDE DEF f, g
  <2>10. f # <<>> /\ Head(f) = f[1] /\ g = Tail(f)
    BY <2>6, <2>7, <2>8, Shifted
  <2> QED BY <2>1, <2>2, <2>9, <2>10
<1> QED BY <1>3, <1>6, <1>10, <1>11 DEF n

(***************************************************************************)
(* buffered_channel: its wait queues.                                      *)
(***************************************************************************)

RingPlaces == {"runs", "waits", "ready", "expired"}

\* Where everybody is once the fibers of W have been notified and f has gone to place.
RingWent(W, f, place) ==
    /\ at' \in [Fibers -> RingPlaces] /\ at'[f] = place
    /\ \A g \in Fibers \ {f} : at'[g] = IF g \in W /\ at[g] = "waits" THEN "ready" ELSE at[g]

LEMMA RingGoesOn ==
    ASSUME TypeOK, NEW W, NEW f \in Fibers, NEW place \in RingPlaces, WakeUp(W, f, place)
    PROVE  RingWent(W, f, place)
BY DEF TypeOK, WakeUp, Readied, RingWent, RingPlaces

\* The four things a step does to a wait queue.
LEMMA QueueStays ==
    ASSUME NEW side \in {Producers, Consumers}, NEW q \in Seq(side), IsLinkedOnce(side, q, "expired"),
           NEW W, NEW f \in Fibers, NEW place, RingWent(W, f, place),
           f \notin ToSet(q), f \in side => place # "waits", W \cap side = {}
    PROVE  Relinks(side, q, q, "expired", f)
<1>1. side \subseteq Fibers
  BY RingConstants
<1> QED BY <1>1 DEF Relinks, RingWent, IsLinkedOnce

LEMMA FirstLeaves ==
    ASSUME NEW side \in {Producers, Consumers}, NEW q \in Seq(side), IsLinkedOnce(side, q, "expired"),
           NEW f \in Fibers, NEW place, RingWent(NotifyOne(q), f, place), f \notin side
    PROVE  /\ Popped(q) \in Seq(side) /\ Relinks(side, q, Popped(q), "expired", f)
           /\ NotifyOne(q) \subseteq side
<1> DEFINE r == Popped(q)
           N == NotifyOne(q)
<1>1. side \subseteq Fibers /\ IsInjective(q)
  BY RingConstants DEF IsLinkedOnce
<1>2. /\ r \in Seq(side) /\ IsInjective(r) /\ N \subseteq ToSet(q) /\ ToSet(r) = ToSet(q) \ N
      /\ ToSet(q) \subseteq side
  BY <1>1, UnlinkOne, NobodyLinked
<1> HIDE DEF r, N
<1>3. RingWent(N, f, place)
  BY DEF N
<1>4. \A g \in side : at'[g] = IF g \in N /\ at[g] = "waits" THEN "ready" ELSE at[g]
  BY <1>1, <1>3 DEF RingWent
<1>5. Relinks(side, q, r, "expired", f)
  BY <1>2, <1>4 DEF Relinks
<1> QED BY <1>2, <1>5 DEF r, N

LEMMA JoinsLast ==
    ASSUME NEW side \in {Producers, Consumers}, NEW q \in Seq(side), IsLinkedOnce(side, q, "expired"),
           NEW f \in side, RingWent({}, f, "waits"), f \notin ToSet(q)
    PROVE  /\ Append(q, f) \in Seq(side) /\ Append(q, f) # <<>>
           /\ Relinks(side, q, Append(q, f), "expired", f)
<1>1. side \subseteq Fibers /\ IsInjective(q)
  BY RingConstants DEF IsLinkedOnce
<1>2. /\ Append(q, f) \in Seq(side) /\ IsInjective(Append(q, f)) /\ Append(q, f) # <<>>
      /\ ToSet(Append(q, f)) = ToSet(q) \cup {f}
  BY <1>1, LinkLast
<1>3. at'[f] = "waits" /\ \A g \in side \ {f} : at'[g] = at[g]
  BY <1>1 DEF RingWent
<1>4. Relinks(side, q, Append(q, f), "expired", f)
  BY <1>2, <1>3 DEF Relinks
<1> QED BY <1>2, <1>4

LEMMA LeavesLate ==
    ASSUME NEW side \in {Producers, Consumers}, NEW q \in Seq(side), IsLinkedOnce(side, q, "expired"),
           NEW f \in side, RingWent({}, f, "runs")
    PROVE  /\ Without(q, f) \in Seq(side) /\ Relinks(side, q, Without(q, f), "expired", f)
           /\ q = <<>> => Without(q, f) = <<>>
<1>1. side \subseteq Fibers /\ IsInjective(q)
  BY RingConstants DEF IsLinkedOnce
<1>2. /\ Without(q, f) \in Seq(side) /\ IsInjective(Without(q, f))
      /\ ToSet(Without(q, f)) = ToSet(q) \ {f}
  BY <1>1, UnlinkAny
<1>3. at'[f] = "runs" /\ \A g \in side \ {f} : at'[g] = at[g]
  BY <1>1 DEF RingWent
<1>4. Relinks(side, q, Without(q, f), "expired", f)
  BY <1>2, <1>3 DEF Relinks
<1>5. q = <<>> => Without(q, f) = <<>>
  BY NobodyLinked DEF Without
<1> QED BY <1>2, <1>4, <1>5

\* The indices and the slots are what they should be.
RingTyped ==
    /\ producer_idx_ \in Words /\ consumer_idx_ \in Words
    /\ cycle \in [Slots -> Words]
    /\ storage \in [Slots -> Values \cup {NoValue}]
    /\ popped \in Values \cup {NoValue}

LEMMA RingKeepsTypes ==
    ASSUME TypeOK, (\E v \in Values : Store(v)) \/ Fetch \/ UNCHANGED ringVars
    PROVE  RingTyped'
<1>1. RingTyped
  BY DEF TypeOK, RingTyped
<1>2. /\ consumer_idx_ \in Int /\ producer_idx_ \in Int
      /\ SlotOf(consumer_idx_) \in Slots /\ SlotOf(producer_idx_) \in Slots
  BY <1>1, SmallWords, SlotOfWord DEF RingTyped
<1>3. /\ (consumer_idx_ + 1) % Word \in Words /\ (producer_idx_ + 1) % Word \in Words
      /\ NextCycle(consumer_idx_) \in Words
  <2>1. consumer_idx_ + 1 \in Int /\ producer_idx_ + 1 \in Int /\ consumer_idx_ + Capacity \in Int
    BY <1>2, RingConstants
  <2> QED BY <2>1, WordOfWord DEF NextCycle
<1>4. CASE \E v \in Values : Store(v)
  <2>1. PICK v \in Values : Store(v)
    BY <1>4
  <2> QED BY <1>1, <1>2, <1>3, <2>1 DEF Store, RingTyped
<1>5. CASE Fetch
  BY <1>1, <1>2, <1>3, <1>5 DEF Fetch, FirstValue, RingTyped
<1>6. CASE UNCHANGED ringVars
  BY <1>1, <1>6 DEF RingTyped, ringVars
<1> QED BY <1>4, <1>5, <1>6

\* A step in which f goes to place and notifies W.
RingMoves(W, f, place) ==
    /\ RingTyped' /\ RingWent(W, f, place)
    /\ closed_' \in BOOLEAN
    /\ closed_' => waiting_producers_' = <<>> /\ waiting_consumers_' = <<>>
    /\ Relinks(Producers, waiting_producers_, waiting_producers_', "expired", f)
    /\ Relinks(Consumers, waiting_consumers_, waiting_consumers_', "expired", f)
    /\ value' \in [Producers -> Values \cup {NoValue}]
    /\ \A p \in Producers : at'[p] # "runs" => value'[p] \in Values

LEMMA RingLinksNext ==
    ASSUME RingLinks, NEW f, NEW W, NEW place, RingMoves(W, f, place)
    PROVE  RingLinks'
<1>1. /\ IsLinkedOnce(Producers, waiting_producers_, "expired")
      /\ IsLinkedOnce(Consumers, waiting_consumers_, "expired")
  BY DEF RingLinks
<1>2. /\ LinkedNext(Producers, waiting_producers_', "expired")
      /\ LinkedNext(Consumers, waiting_consumers_', "expired")
  BY <1>1, LinksMove DEF RingMoves
<1>3. TypeOK'
  BY DEF TypeOK, RingMoves, RingTyped, RingWent, RingPlaces, Relinks
<1> QED BY <1>2, <1>3 DEF RingMoves, RingLinks, LinkedNext, IsLinkedOnce

(***************************************************************************)
(* unbuffered_channel.                                                     *)
(***************************************************************************)

LEMMA RendezvousConstants ==
    /\ Producers \cap Consumers = {} /\ NoFiber \notin Fibers
    /\ Fibers = Producers \cup Consumers /\ TimedRendezvous!Fibers = Fibers
    /\ Producers \subseteq Fibers /\ Consumers \subseteq Fibers
BY ChannelsAssumption DEF TimedRendezvous!ChannelAssumption, TimedRendezvous!Fibers, Fibers

LEMMA RendezvousQueues ==
    ASSUME NEW q, NEW f
    PROVE  /\ TimedRendezvous!NotifyOne(q) = NotifyOne(q) /\ TimedRendezvous!Popped(q) = Popped(q)
           /\ TimedRendezvous!ToSet(q) = ToSet(q) /\ TimedRendezvous!Without(q, f) = Without(q, f)
           /\ TimedRendezvous!IsInjective(q) = IsInjective(q)
BY DEF TimedRendezvous!NotifyOne, TimedRendezvous!Popped, TimedRendezvous!ToSet,
       TimedRendezvous!Without, TimedRendezvous!IsInjective, TimedRendezvous!RemoveAt,
       NotifyOne, Popped, ToSet, Without, IsInjective, RemoveAt

Places == TimedRendezvous!Places

\* Where everybody is once the fibers of W have been notified and f has gone to place.
Moved(W, f, place) ==
    /\ at' \in [Fibers -> Places] /\ at'[f] = place
    /\ \A g \in Fibers \ {f} :
        at'[g] = IF g \in W /\ at[g] = "waits" THEN "ready"
                 ELSE IF g \in W /\ at[g] = "offers" THEN "consumed" ELSE at[g]

LEMMA WakeUpMoves ==
    ASSUME RendezvousInv, NEW W, NEW f \in Fibers, NEW place \in Places,
           TimedRendezvous!WakeUp(W, f, place)
    PROVE  Moved(W, f, place)
<1>1. at \in [Fibers -> Places]
  BY RendezvousConstants DEF RendezvousInv, TimedRendezvous!TypeOK, Places
<1>2. at' = [g \in Fibers |->
               IF g = f THEN place ELSE IF g \in W THEN TimedRendezvous!Readied(at[g]) ELSE at[g]]
  BY RendezvousConstants DEF TimedRendezvous!WakeUp
<1>3. \A g \in Fibers : TimedRendezvous!Readied(at[g]) =
        IF at[g] = "waits" THEN "ready" ELSE IF at[g] = "offers" THEN "consumed" ELSE at[g]
  BY <1>1 DEF TimedRendezvous!Readied
<1>4. "ready" \in Places /\ "consumed" \in Places
  BY DEF Places, TimedRendezvous!Places
<1> QED BY <1>1, <1>2, <1>3, <1>4 DEF Moved

LEMMA ExceptMoves ==
    ASSUME RendezvousInv, NEW f \in Fibers, NEW place \in Places, at' = [at EXCEPT ![f] = place]
    PROVE  Moved({}, f, place)
BY RendezvousConstants DEF RendezvousInv, TimedRendezvous!TypeOK, Places, Moved

LEMMA OfferStep ==
    ASSUME RendezvousInv, NEW p \in Producers, at[p] \in {"runs", "ready"},
           taken' = [taken EXCEPT ![p] = FALSE], TimedRendezvous!Offer(p),
           UNCHANGED <<closed_, destroyed>>
    PROVE  RendezvousInv'
<1> DEFINE W == NotifyOne(waiting_consumers_)
<1>1. /\ ~closed_ /\ slot_ = NoFiber /\ slot_' = p
      /\ waiting_consumers_' = Popped(waiting_consumers_)
      /\ waiting_producers_' = waiting_producers_ /\ status' = status
      /\ TimedRendezvous!WakeUp(W, p, "offers")
  BY RendezvousQueues DEF TimedRendezvous!Offer
<1>2. /\ Popped(waiting_consumers_) \in Seq(Consumers) /\ IsInjective(Popped(waiting_consumers_))
      /\ W \subseteq ToSet(waiting_consumers_) /\ W \subseteq Consumers
      /\ ToSet(Popped(waiting_consumers_)) = ToSet(waiting_consumers_) \ W
  <2>1. waiting_consumers_ \in Seq(Consumers) /\ IsInjective(waiting_consumers_)
    BY DEF RendezvousInv, TimedRendezvous!TypeOK, IsLinkedOnce
  <2>2. ToSet(waiting_consumers_) \subseteq Consumers
    BY <2>1, NobodyLinked
  <2> QED BY <2>1, <2>2, UnlinkOne
<1> HIDE DEF W
<1>3. "offers" \in Places
  BY DEF Places, TimedRendezvous!Places
<1>4. Moved(W, p, "offers")
  BY <1>1, <1>3, WakeUpMoves, RendezvousConstants
<1>5. \A g \in W : at[g] \in {"waits", "waitExpired"}
  BY <1>2 DEF RendezvousInv, IsLinkedOnce
<1>6. \A g \in Fibers \ {p} : at'[g] = IF g \in W /\ at[g] = "waits" THEN "ready" ELSE at[g]
  BY <1>4, <1>5 DEF Moved
<1>7. at' \in [Fibers -> Places] /\ at'[p] = "offers" /\ \A q \in Producers \ {p} : at'[q] = at[q]
  BY <1>2, <1>4, <1>6, RendezvousConstants DEF Moved
<1>8. TimedRendezvous!TypeOK'
  <2>1. \A c \in Consumers : at'[c] \notin {"offers", "consumed", "offerExpired"}
    BY <1>6, RendezvousConstants DEF RendezvousInv, TimedRendezvous!TypeOK
  <2>2. taken' \in [Producers -> BOOLEAN]
    BY DEF RendezvousInv, TimedRendezvous!TypeOK
  <2> QED BY <1>1, <1>2, <1>7, <2>1, <2>2, RendezvousConstants
          DEF RendezvousInv, TimedRendezvous!TypeOK, Places
<1>9. LinkedNext(Consumers, waiting_consumers_', "waitExpired")
  <2>1. \A g \in Consumers : g # p
    BY RendezvousConstants
  <2>2. ToSet(Popped(waiting_consumers_)) \subseteq Consumers
    BY <1>2, NobodyLinked
  <2>3. Relinks(Consumers, waiting_consumers_, Popped(waiting_consumers_), "waitExpired", p)
    BY <1>2, <1>6, <2>1, <2>2, RendezvousConstants DEF Relinks
  <2> QED BY <1>1, <2>3, LinksMove DEF RendezvousInv
<1>10. LinkedNext(Producers, waiting_producers_', "waitExpired")
  BY <1>1, <1>7, LinksStay DEF RendezvousInv, TimedRendezvous!TypeOK
<1>11. \A q \in Producers : ProducerKnows(q)'
  <2> SUFFICES ASSUME NEW q \in Producers PROVE ProducerKnows(q)'
    OBVIOUS
  <2>1. slot_ # q
    BY <1>1, RendezvousConstants
  <2>2. ProducerKnows(q) /\ taken \in [Producers -> BOOLEAN]
    BY DEF RendezvousInv, TimedRendezvous!TypeOK
  <2> QED BY <1>1, <1>7, <2>1, <2>2 DEF ProducerKnows
<1>12. TimedRendezvous!SlotIsAlive' /\ TimedRendezvous!SuccessMeansConsumed'
       /\ TimedRendezvous!ClosedMeansNotConsumed'
  BY <1>1, <1>7 DEF RendezvousInv, TimedRendezvous!TypeOK, TimedRendezvous!SlotIsAlive,
     TimedRendezvous!SuccessMeansConsumed, TimedRendezvous!ClosedMeansNotConsumed
<1> QED BY <1>1, <1>8, <1>9, <1>10, <1>11, <1>12 DEF RendezvousInv, LinkedNext, IsLinkedOnce

LEMMA RefusedStep ==
    ASSUME RendezvousInv, NEW p \in Producers, at[p] \in {"runs", "ready"},
           taken' = [taken EXCEPT ![p] = FALSE], TimedRendezvous!Refused(p),
           UNCHANGED <<closed_, destroyed>>
    PROVE  RendezvousInv'
<1>1. /\ status' = [status EXCEPT ![p] = "closed"] /\ at' = [at EXCEPT ![p] = "runs"]
      /\ UNCHANGED <<slot_, waiting_producers_, waiting_consumers_>>
  BY DEF TimedRendezvous!Refused
<1>2. at \in [Fibers -> Places] /\ "runs" \in Places /\ p \in Fibers
  BY RendezvousConstants DEF RendezvousInv, TimedRendezvous!TypeOK, Places, TimedRendezvous!Places
<1>3. at' \in [Fibers -> Places] /\ at'[p] = "runs" /\ \A g \in Fibers \ {p} : at'[g] = at[g]
  BY <1>1, <1>2
<1>4. TimedRendezvous!TypeOK'
  BY <1>1, <1>3, RendezvousConstants DEF RendezvousInv, TimedRendezvous!TypeOK, Places
<1>5. /\ LinkedNext(Producers, waiting_producers_', "waitExpired")
      /\ LinkedNext(Consumers, waiting_consumers_', "waitExpired")
  BY <1>1, <1>3, RendezvousConstants, LinksStay DEF RendezvousInv, TimedRendezvous!TypeOK
<1>6. slot_ # p
  BY RendezvousConstants DEF RendezvousInv, TimedRendezvous!SlotIsAlive
<1>7. \A q \in Producers : ProducerKnows(q)'
  <2> SUFFICES ASSUME NEW q \in Producers PROVE ProducerKnows(q)'
    OBVIOUS
  <2>1. ProducerKnows(q) /\ taken \in [Producers -> BOOLEAN] /\ q \in Fibers
    BY RendezvousConstants DEF RendezvousInv, TimedRendezvous!TypeOK
  <2> QED BY <1>1, <1>3, <2>1 DEF ProducerKnows
<1>8. TimedRendezvous!SlotIsAlive'
  BY <1>1, <1>3, <1>6, RendezvousConstants
     DEF RendezvousInv, TimedRendezvous!TypeOK, TimedRendezvous!SlotIsAlive
<1>9. TimedRendezvous!SuccessMeansConsumed' /\ TimedRendezvous!ClosedMeansNotConsumed'
  BY <1>1, <1>3, RendezvousConstants DEF RendezvousInv, TimedRendezvous!TypeOK,
     TimedRendezvous!SuccessMeansConsumed, TimedRendezvous!ClosedMeansNotConsumed
<1> QED BY <1>1, <1>4, <1>5, <1>7, <1>8, <1>9 DEF RendezvousInv, LinkedNext, IsLinkedOnce

LEMMA WaitForSlotStep ==
    ASSUME RendezvousInv, NEW p \in Producers, at[p] \in {"runs", "ready"},
           taken' = [taken EXCEPT ![p] = FALSE], TimedRendezvous!WaitForSlot(p),
           UNCHANGED <<closed_, destroyed>>
    PROVE  RendezvousInv'
<1>1. /\ ~closed_ /\ waiting_producers_' = Append(waiting_producers_, p)
      /\ at' = [at EXCEPT ![p] = "waits"]
      /\ UNCHANGED <<slot_, waiting_consumers_, status>>
  BY DEF TimedRendezvous!WaitForSlot
<1>2. at \in [Fibers -> Places] /\ "waits" \in Places /\ p \in Fibers
  BY RendezvousConstants DEF RendezvousInv, TimedRendezvous!TypeOK, Places, TimedRendezvous!Places
<1>3. at' \in [Fibers -> Places] /\ at'[p] = "waits" /\ \A g \in Fibers \ {p} : at'[g] = at[g]
  BY <1>1, <1>2
<1>4. /\ waiting_producers_' \in Seq(Producers) /\ IsInjective(waiting_producers_')
      /\ ToSet(waiting_producers_') = ToSet(waiting_producers_) \cup {p}
  <2>1. /\ waiting_producers_ \in Seq(Producers) /\ IsInjective(waiting_producers_)
        /\ p \notin ToSet(waiting_producers_)
    BY DEF RendezvousInv, TimedRendezvous!TypeOK, IsLinkedOnce
  <2> QED BY <1>1, <2>1, LinkLast
<1>5. TimedRendezvous!TypeOK'
  BY <1>1, <1>3, <1>4, RendezvousConstants DEF RendezvousInv, TimedRendezvous!TypeOK, Places
<1>6. LinkedNext(Consumers, waiting_consumers_', "waitExpired")
  BY <1>1, <1>3, RendezvousConstants, LinksStay DEF RendezvousInv, TimedRendezvous!TypeOK
<1>7. LinkedNext(Producers, waiting_producers_', "waitExpired")
  <2>1. Relinks(Producers, waiting_producers_, waiting_producers_', "waitExpired", p)
    BY <1>3, <1>4, RendezvousConstants DEF Relinks
  <2> QED BY <2>1, LinksMove DEF RendezvousInv
<1>8. slot_ # p
  BY RendezvousConstants DEF RendezvousInv, TimedRendezvous!SlotIsAlive
<1>9. \A q \in Producers : ProducerKnows(q)'
  <2> SUFFICES ASSUME NEW q \in Producers PROVE ProducerKnows(q)'
    OBVIOUS
  <2>1. ProducerKnows(q) /\ taken \in [Producers -> BOOLEAN] /\ q \in Fibers
    BY RendezvousConstants DEF RendezvousInv, TimedRendezvous!TypeOK
  <2> QED BY <1>1, <1>3, <2>1 DEF ProducerKnows
<1>10. TimedRendezvous!SlotIsAlive'
  BY <1>1, <1>3, <1>8, RendezvousConstants
     DEF RendezvousInv, TimedRendezvous!TypeOK, TimedRendezvous!SlotIsAlive
<1>11. TimedRendezvous!SuccessMeansConsumed' /\ TimedRendezvous!ClosedMeansNotConsumed'
  BY <1>1, <1>3, RendezvousConstants DEF RendezvousInv, TimedRendezvous!TypeOK,
     TimedRendezvous!SuccessMeansConsumed, TimedRendezvous!ClosedMeansNotConsumed
<1> QED BY <1>1, <1>5, <1>6, <1>7, <1>9, <1>10, <1>11 DEF RendezvousInv, LinkedNext, IsLinkedOnce

LEMMA PushStep ==
    ASSUME RendezvousInv, NEW p \in Producers,
           TimedRendezvous!Push(p) \/ TimedRendezvous!PushAgain(p)
    PROVE  RendezvousInv'
<1>1. at[p] \in {"runs", "ready"} /\ taken' = [taken EXCEPT ![p] = FALSE]
  <2>1. CASE TimedRendezvous!Push(p)
    BY <2>1 DEF TimedRendezvous!Push
  <2>2. CASE TimedRendezvous!PushAgain(p)
    <3>1. at[p] = "ready" /\ taken' = taken
      BY <2>2 DEF TimedRendezvous!PushAgain
    <3>2. taken[p] = FALSE /\ taken \in [Producers -> BOOLEAN]
      BY <3>1 DEF RendezvousInv, TimedRendezvous!TypeOK, ProducerKnows
    <3> QED BY <3>1, <3>2
  <2> QED BY <2>1, <2>2
<1>2. TimedRendezvous!TryPush(p)
  BY DEF TimedRendezvous!Push, TimedRendezvous!PushAgain
<1> QED BY <1>1, <1>2, RefusedStep, OfferStep, WaitForSlotStep DEF TimedRendezvous!TryPush

LEMMA PushReturnsStep ==
    ASSUME RendezvousInv, NEW p \in Producers, TimedRendezvous!PushReturns(p)
    PROVE  RendezvousInv'
<1>1. /\ at[p] = "consumed" /\ status' = [status EXCEPT ![p] = "success"]
      /\ at' = [at EXCEPT ![p] = "runs"]
      /\ UNCHANGED <<slot_, closed_, waiting_producers_, waiting_consumers_, taken, destroyed>>
  BY DEF TimedRendezvous!PushReturns
<1>2. at \in [Fibers -> Places] /\ "runs" \in Places /\ p \in Fibers
  BY RendezvousConstants DEF RendezvousInv, TimedRendezvous!TypeOK, Places, TimedRendezvous!Places
<1>3. at' \in [Fibers -> Places] /\ at'[p] = "runs" /\ \A g \in Fibers \ {p} : at'[g] = at[g]
  BY <1>1, <1>2
<1>4. TimedRendezvous!TypeOK'
  BY <1>1, <1>3, RendezvousConstants DEF RendezvousInv, TimedRendezvous!TypeOK, Places
<1>5. /\ LinkedNext(Producers, waiting_producers_', "waitExpired")
      /\ LinkedNext(Consumers, waiting_consumers_', "waitExpired")
  BY <1>1, <1>3, RendezvousConstants, LinksStay DEF RendezvousInv, TimedRendezvous!TypeOK
<1>6. slot_ # p
  BY <1>1, RendezvousConstants DEF RendezvousInv, TimedRendezvous!SlotIsAlive
<1>7. \A q \in Producers : ProducerKnows(q)'
  <2> SUFFICES ASSUME NEW q \in Producers PROVE ProducerKnows(q)'
    OBVIOUS
  <2>1. ProducerKnows(q) /\ q \in Fibers
    BY RendezvousConstants DEF RendezvousInv
  <2> QED BY <1>1, <1>3, <2>1 DEF ProducerKnows
<1>8. TimedRendezvous!SlotIsAlive'
  BY <1>1, <1>3, <1>6, RendezvousConstants
     DEF RendezvousInv, TimedRendezvous!TypeOK, TimedRendezvous!SlotIsAlive
<1>9. TimedRendezvous!SuccessMeansConsumed' /\ TimedRendezvous!ClosedMeansNotConsumed'
  <2>1. ~destroyed => taken[p]
    BY <1>1 DEF RendezvousInv, ProducerKnows
  <2> QED BY <1>1, <1>3, <2>1, RendezvousConstants DEF RendezvousInv, TimedRendezvous!TypeOK,
          TimedRendezvous!SuccessMeansConsumed, TimedRendezvous!ClosedMeansNotConsumed
<1> QED BY <1>1, <1>4, <1>5, <1>7, <1>8, <1>9 DEF RendezvousInv, LinkedNext, IsLinkedOnce

LEMMA PushTimesOutStep ==
    ASSUME RendezvousInv, NEW p \in Producers, TimedRendezvous!PushTimesOut(p)
    PROVE  RendezvousInv'
<1>1. /\ at[p] \in {"consumed", "offerExpired", "ready", "waitExpired"}
      /\ waiting_producers_' = Without(waiting_producers_, p)
      /\ status' = [status EXCEPT ![p] = "timeout"] /\ at' = [at EXCEPT ![p] = "runs"]
      /\ UNCHANGED <<closed_, waiting_consumers_, taken, destroyed>>
  BY RendezvousQueues DEF TimedRendezvous!PushTimesOut
<1>2. at \in [Fibers -> Places] /\ "runs" \in Places /\ p \in Fibers
  BY RendezvousConstants DEF RendezvousInv, TimedRendezvous!TypeOK, Places, TimedRendezvous!Places
<1>3. at' \in [Fibers -> Places] /\ at'[p] = "runs" /\ \A g \in Fibers \ {p} : at'[g] = at[g]
  BY <1>1, <1>2
<1>4. /\ waiting_producers_' \in Seq(Producers) /\ IsInjective(waiting_producers_')
      /\ ToSet(waiting_producers_') = ToSet(waiting_producers_) \ {p}
      /\ waiting_producers_ = <<>> => waiting_producers_' = <<>>
  <2>1. waiting_producers_ \in Seq(Producers) /\ IsInjective(waiting_producers_)
    BY DEF RendezvousInv, TimedRendezvous!TypeOK, IsLinkedOnce
  <2>2. /\ waiting_producers_' \in Seq(Producers) /\ IsInjective(waiting_producers_')
        /\ ToSet(waiting_producers_') = ToSet(waiting_producers_) \ {p}
    BY <1>1, <2>1, UnlinkAny
  <2> QED BY <2>1, <2>2, NobodyLinked
<1>5. slot_' = IF slot_ = p THEN NoFiber ELSE slot_
  <2>1. at[p] \in {"ready", "waitExpired"} => slot_ # p
    BY RendezvousConstants DEF RendezvousInv, TimedRendezvous!SlotIsAlive
  <2> QED BY <2>1 DEF TimedRendezvous!PushTimesOut, TimedRendezvous!ClearSlot
<1>6. TimedRendezvous!TypeOK'
  BY <1>1, <1>3, <1>4, <1>5, RendezvousConstants DEF RendezvousInv, TimedRendezvous!TypeOK, Places
<1>7. LinkedNext(Consumers, waiting_consumers_', "waitExpired")
  BY <1>1, <1>3, RendezvousConstants, LinksStay DEF RendezvousInv, TimedRendezvous!TypeOK
<1>8. LinkedNext(Producers, waiting_producers_', "waitExpired")
  <2>1. Relinks(Producers, waiting_producers_, waiting_producers_', "waitExpired", p)
    <3>1. ToSet(waiting_producers_') \subseteq Producers
      BY <1>4, NobodyLinked
    <3> QED BY <1>3, <1>4, <3>1, RendezvousConstants DEF Relinks
  <2> QED BY <2>1, LinksMove DEF RendezvousInv
<1>9. \A q \in Producers : ProducerKnows(q)'
  <2> SUFFICES ASSUME NEW q \in Producers PROVE ProducerKnows(q)'
    OBVIOUS
  <2>1. ProducerKnows(q) /\ q \in Fibers
    BY RendezvousConstants DEF RendezvousInv
  <2> QED BY <1>1, <1>3, <1>5, <2>1 DEF ProducerKnows
<1>10. TimedRendezvous!SlotIsAlive'
  BY <1>1, <1>3, <1>5, RendezvousConstants
     DEF RendezvousInv, TimedRendezvous!TypeOK, TimedRendezvous!SlotIsAlive
<1>11. TimedRendezvous!SuccessMeansConsumed' /\ TimedRendezvous!ClosedMeansNotConsumed'
  BY <1>1, <1>3, RendezvousConstants DEF RendezvousInv, TimedRendezvous!TypeOK,
     TimedRendezvous!SuccessMeansConsumed, TimedRendezvous!ClosedMeansNotConsumed
<1> QED BY <1>1, <1>4, <1>6, <1>7, <1>8, <1>9, <1>10, <1>11 DEF RendezvousInv, LinkedNext, IsLinkedOnce

\* A consumer that takes no value leaves the producers as they are.
LEMMA ConsumerStep ==
    ASSUME RendezvousInv, NEW c \in Consumers, NEW place \in {"runs", "waits"},
           at' = [at EXCEPT ![c] = place],
           UNCHANGED <<slot_, closed_, waiting_producers_, taken, status, destroyed>>,
           waiting_consumers_' \in Seq(Consumers),
           LinkedNext(Consumers, waiting_consumers_', "waitExpired"),
           closed_ => waiting_consumers_' = <<>>
    PROVE  RendezvousInv'
<1>1. /\ at \in [Fibers -> Places] /\ c \in Fibers /\ place \in Places
      /\ \A p \in Producers : p \in Fibers /\ p # c
  BY RendezvousConstants DEF RendezvousInv, TimedRendezvous!TypeOK, Places, TimedRendezvous!Places
<1>2. at' \in [Fibers -> Places] /\ at'[c] = place /\ \A g \in Fibers \ {c} : at'[g] = at[g]
  BY <1>1
<1>3. \A p \in Producers : at'[p] = at[p]
  BY <1>1, <1>2
<1>4. TimedRendezvous!TypeOK'
  BY <1>2, RendezvousConstants DEF RendezvousInv, TimedRendezvous!TypeOK, Places
<1>5. LinkedNext(Producers, waiting_producers_', "waitExpired")
  BY <1>3, LinksStay DEF RendezvousInv, TimedRendezvous!TypeOK
<1>6. \A q \in Producers : ProducerKnows(q)'
  BY <1>3 DEF RendezvousInv, ProducerKnows
<1>7. TimedRendezvous!SlotIsAlive'
  BY <1>3 DEF RendezvousInv, TimedRendezvous!TypeOK, TimedRendezvous!SlotIsAlive
<1>8. TimedRendezvous!SuccessMeansConsumed' /\ TimedRendezvous!ClosedMeansNotConsumed'
  BY <1>3 DEF RendezvousInv, TimedRendezvous!SuccessMeansConsumed,
     TimedRendezvous!ClosedMeansNotConsumed
<1> QED BY <1>4, <1>5, <1>6, <1>7, <1>8 DEF RendezvousInv, LinkedNext, IsLinkedOnce

LEMMA TakeStep ==
    ASSUME RendezvousInv, NEW c \in Consumers, at[c] \in {"runs", "ready"}, TimedRendezvous!Take(c),
           UNCHANGED <<closed_, status, destroyed>>
    PROVE  RendezvousInv'
<1> DEFINE N == NotifyOne(waiting_producers_)
<1>1. /\ slot_ # NoFiber /\ slot_' = NoFiber /\ taken' = [taken EXCEPT ![slot_] = TRUE]
      /\ waiting_producers_' = Popped(waiting_producers_)
      /\ waiting_consumers_' = waiting_consumers_
      /\ TimedRendezvous!WakeUp(N \cup {slot_}, c, "runs")
  BY RendezvousQueues DEF TimedRendezvous!Take, TimedRendezvous!HasValue
<1>2. /\ Popped(waiting_producers_) \in Seq(Producers) /\ IsInjective(Popped(waiting_producers_))
      /\ N \subseteq ToSet(waiting_producers_) /\ N \subseteq Producers
      /\ ToSet(Popped(waiting_producers_)) = ToSet(waiting_producers_) \ N
      /\ ToSet(waiting_producers_) \subseteq Producers
  <2>1. waiting_producers_ \in Seq(Producers) /\ IsInjective(waiting_producers_)
    BY DEF RendezvousInv, TimedRendezvous!TypeOK, IsLinkedOnce
  <2>2. ToSet(waiting_producers_) \subseteq Producers
    BY <2>1, NobodyLinked
  <2> QED BY <2>1, <2>2, UnlinkOne
<1> HIDE DEF N
<1>3. PICK s \in Producers : s = slot_ /\ at[s] \in {"offers", "offerExpired"} /\ ~taken[s]
  BY <1>1 DEF RendezvousInv, TimedRendezvous!TypeOK, TimedRendezvous!SlotIsAlive
<1>4. Moved(N \cup {s}, c, "runs")
  <2>1. "runs" \in Places
    BY DEF Places, TimedRendezvous!Places
  <2> QED BY <1>1, <1>3, <2>1, WakeUpMoves, RendezvousConstants
<1>5. \A g \in ToSet(waiting_producers_) : at[g] \in {"waits", "waitExpired"}
  BY DEF RendezvousInv, IsLinkedOnce
<1>6. /\ at'[s] = IF at[s] = "offers" THEN "consumed" ELSE at[s]
      /\ \A q \in Producers \ {s} : at'[q] = IF q \in N /\ at[q] = "waits" THEN "ready" ELSE at[q]
      /\ \A d \in Consumers \ {c} : at'[d] = at[d]
      /\ at'[c] = "runs" /\ at' \in [Fibers -> Places]
  <2>1. \A q \in Producers : q \in Fibers /\ q # c
    BY RendezvousConstants
  <2>2. \A d \in Consumers : d \in Fibers /\ d \notin N /\ d # s
    BY <1>2, RendezvousConstants
  <2>3. \A q \in N : at[q] \in {"waits", "waitExpired"}
    BY <1>2, <1>5
  <2>4. at'[s] = IF at[s] = "offers" THEN "consumed" ELSE at[s]
    BY <1>3, <1>4, <2>1 DEF Moved
  <2>5. \A q \in Producers \ {s} : at'[q] = IF q \in N /\ at[q] = "waits" THEN "ready" ELSE at[q]
    BY <1>4, <2>1, <2>3 DEF Moved
  <2>6. \A d \in Consumers \ {c} : at'[d] = at[d]
    BY <1>4, <2>2 DEF Moved
  <2> QED BY <1>4, <2>4, <2>5, <2>6 DEF Moved
<1>7. TimedRendezvous!TypeOK'
  <2>1. \A d \in Consumers : at'[d] \notin {"offers", "consumed", "offerExpired"}
    BY <1>6 DEF RendezvousInv, TimedRendezvous!TypeOK
  <2>2. taken' \in [Producers -> BOOLEAN]
    BY <1>1 DEF RendezvousInv, TimedRendezvous!TypeOK
  <2> QED BY <1>1, <1>2, <1>6, <2>1, <2>2, RendezvousConstants
          DEF RendezvousInv, TimedRendezvous!TypeOK, Places
<1>8. LinkedNext(Producers, waiting_producers_', "waitExpired")
  <2>1. s \notin ToSet(waiting_producers_)
    BY <1>3, <1>5
  <2>2. Relinks(Producers, waiting_producers_, Popped(waiting_producers_), "waitExpired", s)
    BY <1>2, <1>3, <1>6, <2>1 DEF Relinks
  <2> QED BY <1>1, <2>2, LinksMove DEF RendezvousInv
<1>9. LinkedNext(Consumers, waiting_consumers_', "waitExpired")
  BY <1>1, <1>6, LinksStay DEF RendezvousInv, TimedRendezvous!TypeOK
<1>10. \A q \in Producers : ProducerKnows(q)'
  <2> SUFFICES ASSUME NEW q \in Producers PROVE ProducerKnows(q)'
    OBVIOUS
  <2>1. ProducerKnows(q) /\ taken \in [Producers -> BOOLEAN]
    BY DEF RendezvousInv, TimedRendezvous!TypeOK
  <2>2. CASE q = s
    BY <1>1, <1>3, <1>6, <2>1, <2>2 DEF ProducerKnows
  <2>3. CASE q # s
    BY <1>1, <1>3, <1>6, <2>1, <2>3 DEF ProducerKnows
  <2> QED BY <2>2, <2>3
<1>11. closed_' => waiting_producers_' = <<>> /\ waiting_consumers_' = <<>>
  BY <1>1 DEF RendezvousInv, Popped
<1>12. TimedRendezvous!SlotIsAlive' /\ TimedRendezvous!SuccessMeansConsumed'
       /\ TimedRendezvous!ClosedMeansNotConsumed'
  <2>1. \A q \in Producers : at'[q] = "runs" => at[q] = "runs" /\ q # s
    BY <1>3, <1>6
  <2>2. \A q \in Producers \ {s} : taken'[q] = taken[q]
    BY <1>1, <1>3 DEF RendezvousInv, TimedRendezvous!TypeOK
  <2> QED BY <1>1, <2>1, <2>2 DEF RendezvousInv, TimedRendezvous!SlotIsAlive,
          TimedRendezvous!SuccessMeansConsumed, TimedRendezvous!ClosedMeansNotConsumed
<1> QED BY <1>7, <1>8, <1>9, <1>10, <1>11, <1>12 DEF RendezvousInv, LinkedNext, IsLinkedOnce

LEMMA PopStep ==
    ASSUME RendezvousInv, NEW c \in Consumers,
           TimedRendezvous!Pop(c) \/ TimedRendezvous!PopAgain(c)
    PROVE  RendezvousInv'
<1>1. /\ at[c] \in {"runs", "ready"} /\ TimedRendezvous!TryPop(c)
      /\ waiting_consumers_ \in Seq(Consumers) /\ IsInjective(waiting_consumers_)
  BY DEF TimedRendezvous!Pop, TimedRendezvous!PopAgain, RendezvousInv, TimedRendezvous!TypeOK,
         IsLinkedOnce
<1>2. CASE TimedRendezvous!Take(c)
  BY <1>1, <1>2, TakeStep DEF TimedRendezvous!TryPop
<1>3. CASE TimedRendezvous!Closed(c)
  <2>1. /\ at' = [at EXCEPT ![c] = "runs"]
        /\ UNCHANGED <<slot_, closed_, waiting_producers_, waiting_consumers_, taken, status, destroyed>>
    BY <1>1, <1>3 DEF TimedRendezvous!Closed, TimedRendezvous!TryPop
  <2>2. at'[c] = "runs" /\ \A d \in Consumers \ {c} : at'[d] = at[d]
    BY <2>1, RendezvousConstants DEF RendezvousInv, TimedRendezvous!TypeOK
  <2>3. LinkedNext(Consumers, waiting_consumers_', "waitExpired")
    BY <1>1, <2>1, <2>2, LinksStay DEF RendezvousInv
  <2>4. closed_ => waiting_consumers_' = <<>>
    BY <2>1 DEF RendezvousInv
  <2> QED BY <1>1, <2>1, <2>3, <2>4, ConsumerStep
<1>4. CASE TimedRendezvous!WaitForValue(c)
  <2>1. /\ at' = [at EXCEPT ![c] = "waits"] /\ ~closed_
        /\ waiting_consumers_' = Append(waiting_consumers_, c)
        /\ UNCHANGED <<slot_, closed_, waiting_producers_, taken, status, destroyed>>
    BY <1>1, <1>4 DEF TimedRendezvous!WaitForValue, TimedRendezvous!TryPop
  <2>2. at'[c] = "waits" /\ \A d \in Consumers \ {c} : at'[d] = at[d]
    BY <2>1, RendezvousConstants DEF RendezvousInv, TimedRendezvous!TypeOK
  <2>3. c \notin ToSet(waiting_consumers_)
    BY <1>1 DEF RendezvousInv, IsLinkedOnce
  <2>4. /\ waiting_consumers_' \in Seq(Consumers) /\ IsInjective(waiting_consumers_')
        /\ ToSet(waiting_consumers_') = ToSet(waiting_consumers_) \cup {c}
    BY <1>1, <2>1, <2>3, LinkLast
  <2>5. Relinks(Consumers, waiting_consumers_, waiting_consumers_', "waitExpired", c)
    BY <2>2, <2>4 DEF Relinks
  <2>6. LinkedNext(Consumers, waiting_consumers_', "waitExpired")
    BY <2>5, LinksMove DEF RendezvousInv
  <2> QED BY <2>1, <2>4, <2>6, ConsumerStep
<1> QED BY <1>1, <1>2, <1>3, <1>4 DEF TimedRendezvous!TryPop

LEMMA PopTimesOutStep ==
    ASSUME RendezvousInv, NEW c \in Consumers, TimedRendezvous!PopTimesOut(c)
    PROVE  RendezvousInv'
<1>1. waiting_consumers_ \in Seq(Consumers) /\ IsInjective(waiting_consumers_)
  BY DEF RendezvousInv, TimedRendezvous!TypeOK, IsLinkedOnce
<1>2. /\ at' = [at EXCEPT ![c] = "runs"]
      /\ waiting_consumers_' = Without(waiting_consumers_, c)
      /\ UNCHANGED <<slot_, closed_, waiting_producers_, taken, status, destroyed>>
  BY RendezvousQueues DEF TimedRendezvous!PopTimesOut
<1>3. at'[c] = "runs" /\ \A d \in Consumers \ {c} : at'[d] = at[d]
  BY <1>2, RendezvousConstants DEF RendezvousInv, TimedRendezvous!TypeOK
<1>4. /\ waiting_consumers_' \in Seq(Consumers) /\ IsInjective(waiting_consumers_')
      /\ ToSet(waiting_consumers_') = ToSet(waiting_consumers_) \ {c}
  BY <1>1, <1>2, UnlinkAny
<1>5. ToSet(waiting_consumers_') \subseteq Consumers
  BY <1>4, NobodyLinked
<1>6. Relinks(Consumers, waiting_consumers_, waiting_consumers_', "waitExpired", c)
  BY <1>3, <1>4, <1>5 DEF Relinks
<1>7. LinkedNext(Consumers, waiting_consumers_', "waitExpired")
  BY <1>6, LinksMove DEF RendezvousInv
<1>8. closed_ => waiting_consumers_' = <<>>
  <2>1. waiting_consumers_ = <<>> => ToSet(waiting_consumers_') = {}
    BY <1>1, <1>4, NobodyLinked
  <2> QED BY <1>4, <2>1, NobodyLinked DEF RendezvousInv
<1> QED BY <1>2, <1>4, <1>7, <1>8, ConsumerStep

LEMMA ExpireStep ==
    ASSUME RendezvousInv, NEW f \in Fibers, TimedRendezvous!Expire(f)
    PROVE  RendezvousInv'
<1>1. /\ at[f] \in {"offers", "waits"}
      /\ at' = [at EXCEPT ![f] = IF at[f] = "offers" THEN "offerExpired" ELSE "waitExpired"]
      /\ UNCHANGED <<slot_, closed_, waiting_producers_, waiting_consumers_, taken, status, destroyed>>
  BY DEF TimedRendezvous!Expire
<1>2. at \in [Fibers -> Places] /\ "offerExpired" \in Places /\ "waitExpired" \in Places
  BY RendezvousConstants DEF RendezvousInv, TimedRendezvous!TypeOK, Places, TimedRendezvous!Places
<1>3. /\ at' \in [Fibers -> Places]
      /\ at'[f] = IF at[f] = "offers" THEN "offerExpired" ELSE "waitExpired"
      /\ \A g \in Fibers \ {f} : at'[g] = at[g]
  BY <1>1, <1>2
<1>4. TimedRendezvous!TypeOK'
  <2>1. \A c \in Consumers : c \in Fibers /\ at[c] \notin {"offers", "consumed", "offerExpired"}
    BY RendezvousConstants DEF RendezvousInv, TimedRendezvous!TypeOK
  <2>2. \A c \in Consumers : at'[c] \notin {"offers", "consumed", "offerExpired"}
    BY <1>3, <2>1
  <2> QED BY <1>1, <1>3, <2>2, RendezvousConstants DEF RendezvousInv, TimedRendezvous!TypeOK, Places
<1>5. /\ LinkedNext(Producers, waiting_producers_', "waitExpired")
      /\ LinkedNext(Consumers, waiting_consumers_', "waitExpired")
  <2>1. \A g \in Fibers : at'[g] # at[g] =>
          /\ at'[g] # "waits"
          /\ at[g] \notin {"waits", "waitExpired"} \/ at'[g] = "waitExpired"
    BY <1>1, <1>3
  <2>2. \A g \in Producers \cup Consumers : g \in Fibers
    BY RendezvousConstants
  <2> QED BY <1>1, <2>1, <2>2, LinksStay DEF RendezvousInv, TimedRendezvous!TypeOK
<1>6. \A q \in Producers : ProducerKnows(q)'
  <2> SUFFICES ASSUME NEW q \in Producers PROVE ProducerKnows(q)'
    OBVIOUS
  <2>1. ProducerKnows(q) /\ q \in Fibers
    BY RendezvousConstants DEF RendezvousInv
  <2> QED BY <1>1, <1>3, <2>1 DEF ProducerKnows
<1>7. TimedRendezvous!SlotIsAlive'
  BY <1>1, <1>3, RendezvousConstants
     DEF RendezvousInv, TimedRendezvous!TypeOK, TimedRendezvous!SlotIsAlive
<1>8. TimedRendezvous!SuccessMeansConsumed' /\ TimedRendezvous!ClosedMeansNotConsumed'
  <2>1. \A q \in Producers : at'[q] = "runs" => at[q] = "runs"
    BY <1>3, RendezvousConstants
  <2> QED BY <1>1, <2>1 DEF RendezvousInv, TimedRendezvous!SuccessMeansConsumed,
          TimedRendezvous!ClosedMeansNotConsumed
<1> QED BY <1>1, <1>4, <1>5, <1>6, <1>7, <1>8 DEF RendezvousInv, LinkedNext, IsLinkedOnce

LEMMA CloseStep ==
    ASSUME RendezvousInv, NEW f \in Fibers, TimedRendezvous!Close(f)
    PROVE  RendezvousInv'
<1> DEFINE W == TimedRendezvous!AllWaiting
<1>1. /\ at[f] = "runs" /\ closed_' = TRUE
      /\ waiting_producers_' = <<>> /\ waiting_consumers_' = <<>>
      /\ TimedRendezvous!WakeUp(W, f, "runs")
      /\ UNCHANGED <<slot_, taken, status, destroyed>>
  BY DEF TimedRendezvous!Close
<1>2. /\ \A g \in W : at[g] \in {"waits", "waitExpired"}
      /\ \A g \in Fibers : at[g] = "waits" => g \in W
  BY RendezvousQueues, RendezvousConstants DEF TimedRendezvous!AllWaiting, RendezvousInv, IsLinkedOnce
<1> HIDE DEF W
<1>3. Moved(W, f, "runs")
  <2>1. "runs" \in Places
    BY DEF Places, TimedRendezvous!Places
  <2> QED BY <1>1, <2>1, WakeUpMoves
<1>4. /\ at' \in [Fibers -> Places]
      /\ \A g \in Fibers : at'[g] = IF at[g] = "waits" THEN "ready" ELSE at[g]
  BY <1>1, <1>2, <1>3 DEF Moved
<1>5. /\ <<>> \in Seq(Producers) /\ <<>> \in Seq(Consumers)
      /\ ToSet(<<>>) = {} /\ IsInjective(<<>>)
  BY DEF ToSet, IsInjective
<1>6. TimedRendezvous!TypeOK'
  <2>1. \A c \in Consumers : at'[c] \notin {"offers", "consumed", "offerExpired"}
    BY <1>4, RendezvousConstants DEF RendezvousInv, TimedRendezvous!TypeOK
  <2> QED BY <1>1, <1>4, <1>5, <2>1, RendezvousConstants
          DEF RendezvousInv, TimedRendezvous!TypeOK, Places
<1>7. /\ LinkedNext(Producers, waiting_producers_', "waitExpired")
      /\ LinkedNext(Consumers, waiting_consumers_', "waitExpired")
  <2>1. \A g \in Producers \cup Consumers : at'[g] # "waits"
    BY <1>4, RendezvousConstants
  <2> QED BY <1>1, <1>5, <2>1 DEF LinkedNext
<1>8. \A q \in Producers : at'[q] = IF at[q] = "waits" THEN "ready" ELSE at[q]
  BY <1>4, RendezvousConstants
<1>9. \A q \in Producers : ProducerKnows(q)'
  <2> SUFFICES ASSUME NEW q \in Producers PROVE ProducerKnows(q)'
    OBVIOUS
  <2>1. ProducerKnows(q)
    BY DEF RendezvousInv
  <2> QED BY <1>1, <1>8, <2>1 DEF ProducerKnows
<1>10. TimedRendezvous!SlotIsAlive'
  BY <1>1, <1>8, RendezvousConstants
     DEF RendezvousInv, TimedRendezvous!TypeOK, TimedRendezvous!SlotIsAlive
<1>11. TimedRendezvous!SuccessMeansConsumed' /\ TimedRendezvous!ClosedMeansNotConsumed'
  BY <1>1, <1>8 DEF RendezvousInv, TimedRendezvous!SuccessMeansConsumed,
     TimedRendezvous!ClosedMeansNotConsumed
<1> QED BY <1>1, <1>6, <1>7, <1>9, <1>10, <1>11 DEF RendezvousInv, LinkedNext, IsLinkedOnce

\* Nobody is linked to a channel that is destroyed.
LEMMA DestroyStep ==
    ASSUME RendezvousInv, \A f \in Fibers : at[f] \in {"runs", "offers"},
           destroyed' = TRUE, closed_' = TRUE, slot_' = NoFiber,
           at' = [f \in Fibers |-> TimedRendezvous!Readied(at[f])],
           UNCHANGED <<waiting_producers_, waiting_consumers_, taken, status>>
    PROVE  RendezvousInv'
<1>1. waiting_producers_ = <<>> /\ waiting_consumers_ = <<>>
  <2>1. /\ waiting_producers_ \in Seq(Producers) /\ waiting_consumers_ \in Seq(Consumers)
        /\ \A g \in ToSet(waiting_producers_) \cup ToSet(waiting_consumers_) :
             at[g] \in {"waits", "waitExpired"}
    BY DEF RendezvousInv, TimedRendezvous!TypeOK, IsLinkedOnce
  <2>2. \A g \in ToSet(waiting_producers_) \cup ToSet(waiting_consumers_) : g \in Fibers
    BY <2>1, NobodyLinked, RendezvousConstants
  <2>3. ToSet(waiting_producers_) = {} /\ ToSet(waiting_consumers_) = {}
    BY <2>1, <2>2
  <2> QED BY <2>1, <2>3, NobodyLinked
<1>2. \A f \in Fibers : at'[f] = IF at[f] = "offers" THEN "consumed" ELSE "runs"
  BY DEF TimedRendezvous!Readied
<1>3. at' \in [Fibers -> Places]
  <2>1. \A f \in Fibers : at'[f] \in Places
    BY <1>2 DEF Places, TimedRendezvous!Places
  <2> QED BY <2>1
<1>4. /\ <<>> \in Seq(Producers) /\ <<>> \in Seq(Consumers)
      /\ ToSet(<<>>) = {} /\ IsInjective(<<>>)
  BY DEF ToSet, IsInjective
<1>5. TimedRendezvous!TypeOK'
  <2>1. \A c \in Consumers : at'[c] \notin {"offers", "consumed", "offerExpired"}
    BY <1>2, RendezvousConstants DEF RendezvousInv, TimedRendezvous!TypeOK
  <2> QED BY <1>1, <1>3, <1>4, <2>1, RendezvousConstants
          DEF RendezvousInv, TimedRendezvous!TypeOK, Places
<1>6. /\ LinkedNext(Producers, waiting_producers_', "waitExpired")
      /\ LinkedNext(Consumers, waiting_consumers_', "waitExpired")
  BY <1>1, <1>2, <1>4, RendezvousConstants DEF LinkedNext
<1>7. \A q \in Producers : at'[q] = IF at[q] = "offers" THEN "consumed" ELSE "runs"
  BY <1>2, RendezvousConstants
<1>8. \A q \in Producers : ProducerKnows(q)'
  BY <1>7 DEF ProducerKnows
<1>9. TimedRendezvous!SlotIsAlive'
  BY DEF TimedRendezvous!SlotIsAlive
<1>10. TimedRendezvous!SuccessMeansConsumed' /\ TimedRendezvous!ClosedMeansNotConsumed'
  <2>1. \A q \in Producers : at'[q] = "runs" => at[q] = "runs"
    BY <1>7, RendezvousConstants
  <2> QED BY <2>1 DEF RendezvousInv, TimedRendezvous!SuccessMeansConsumed,
          TimedRendezvous!ClosedMeansNotConsumed
<1> QED BY <1>1, <1>5, <1>6, <1>8, <1>9, <1>10 DEF RendezvousInv, LinkedNext, IsLinkedOnce

LEMMA ConstructStep ==
    ASSUME RendezvousInv, TimedRendezvous!Construct
    PROVE  RendezvousInv'
<1>1. /\ \A f \in Fibers : at[f] = "runs"
      /\ slot_' = NoFiber /\ closed_' = FALSE /\ destroyed' = FALSE
      /\ taken' = [p \in Producers |-> FALSE] /\ status' = [p \in Producers |-> "none"]
      /\ UNCHANGED <<waiting_producers_, waiting_consumers_, at>>
  BY RendezvousConstants DEF TimedRendezvous!Construct
<1>2. \A p \in Producers : at[p] = "runs"
  BY <1>1, RendezvousConstants
<1>3. TimedRendezvous!TypeOK'
  BY <1>1 DEF RendezvousInv, TimedRendezvous!TypeOK
<1>4. \A q \in Producers : ProducerKnows(q)'
  BY <1>1, <1>2 DEF ProducerKnows
<1>5. /\ IsLinkedOnce(Producers, waiting_producers_, "waitExpired")'
      /\ IsLinkedOnce(Consumers, waiting_consumers_, "waitExpired")'
  BY <1>1 DEF RendezvousInv, IsLinkedOnce
<1>6. /\ TimedRendezvous!SlotIsAlive' /\ TimedRendezvous!SuccessMeansConsumed'
      /\ TimedRendezvous!ClosedMeansNotConsumed'
  BY <1>1 DEF TimedRendezvous!SlotIsAlive, TimedRendezvous!SuccessMeansConsumed,
              TimedRendezvous!ClosedMeansNotConsumed
<1> QED BY <1>1, <1>3, <1>4, <1>5, <1>6 DEF RendezvousInv

LEMMA RendezvousInit == TimedRendezvous!Init => RendezvousInv
<1> SUFFICES ASSUME TimedRendezvous!Init PROVE RendezvousInv
  OBVIOUS
<1>1. /\ slot_ = NoFiber /\ closed_ = FALSE /\ destroyed = FALSE
      /\ waiting_producers_ = <<>> /\ waiting_consumers_ = <<>>
      /\ at = [f \in Fibers |-> "runs"]
      /\ taken = [p \in Producers |-> FALSE] /\ status = [p \in Producers |-> "none"]
  BY RendezvousConstants DEF TimedRendezvous!Init
<1>2. /\ <<>> \in Seq(Producers) /\ <<>> \in Seq(Consumers)
      /\ ToSet(<<>>) = {} /\ IsInjective(<<>>) /\ "runs" \in Places
  BY DEF ToSet, IsInjective, Places, TimedRendezvous!Places
<1>3. \A f \in Producers \cup Consumers : at[f] = "runs"
  BY <1>1, RendezvousConstants
<1>4. TimedRendezvous!TypeOK
  BY <1>1, <1>2, <1>3, RendezvousConstants DEF TimedRendezvous!TypeOK, Places
<1>5. /\ IsLinkedOnce(Producers, waiting_producers_, "waitExpired")
      /\ IsLinkedOnce(Consumers, waiting_consumers_, "waitExpired")
  BY <1>1, <1>2, <1>3 DEF IsLinkedOnce
<1>6. /\ \A p \in Producers : ProducerKnows(p)
      /\ TimedRendezvous!SlotIsAlive /\ TimedRendezvous!SuccessMeansConsumed
      /\ TimedRendezvous!ClosedMeansNotConsumed
  BY <1>1, <1>3 DEF ProducerKnows, TimedRendezvous!SlotIsAlive,
     TimedRendezvous!SuccessMeansConsumed, TimedRendezvous!ClosedMeansNotConsumed
<1> QED BY <1>1, <1>4, <1>5, <1>6 DEF RendezvousInv

LEMMA TimedRendezvousStep == RendezvousInv /\ TimedRendezvous!Next => RendezvousInv'
<1> SUFFICES ASSUME RendezvousInv, TimedRendezvous!Next PROVE RendezvousInv'
  OBVIOUS
<1>1. CASE \E p \in Producers : \/ TimedRendezvous!Push(p) \/ TimedRendezvous!PushAgain(p)
                                \/ TimedRendezvous!PushReturns(p) \/ TimedRendezvous!PushTimesOut(p)
  BY <1>1, PushStep, PushReturnsStep, PushTimesOutStep
<1>2. CASE \E c \in Consumers : \/ TimedRendezvous!Pop(c) \/ TimedRendezvous!PopAgain(c)
                                \/ TimedRendezvous!PopTimesOut(c)
  BY <1>2, PopStep, PopTimesOutStep
<1>3. CASE \E f \in Fibers : TimedRendezvous!Expire(f) \/ TimedRendezvous!Close(f)
  BY <1>3, ExpireStep, CloseStep
<1>4. CASE TimedRendezvous!Destroy
  <2>1. \A f \in Fibers : at[f] \in {"runs", "offers"}
    BY <1>4, RendezvousConstants DEF TimedRendezvous!Destroy
  <2> QED BY <1>4, <2>1, DestroyStep, RendezvousConstants DEF TimedRendezvous!Destroy
<1>5. CASE TimedRendezvous!Construct
  BY <1>5, ConstructStep
<1> QED BY <1>1, <1>2, <1>3, <1>4, <1>5, RendezvousConstants DEF TimedRendezvous!Next

\* Without deadlines the calls are the same.
LEMMA SameCalls ==
    /\ \A p \in Producers : /\ Rendezvous!Push(p) <=> TimedRendezvous!Push(p)
                            /\ Rendezvous!PushAgain(p) <=> TimedRendezvous!PushAgain(p)
                            /\ Rendezvous!PushReturns(p) <=> TimedRendezvous!PushReturns(p)
                            /\ ~ Rendezvous!PushTimesOut(p)
    /\ \A c \in Consumers : /\ Rendezvous!Pop(c) <=> TimedRendezvous!Pop(c)
                            /\ Rendezvous!PopAgain(c) <=> TimedRendezvous!PopAgain(c)
                            /\ ~ Rendezvous!PopTimesOut(c)
    /\ \A f \in Fibers : /\ ~ Rendezvous!Expire(f)
                         /\ Rendezvous!Close(f) <=> TimedRendezvous!Close(f)
    /\ Rendezvous!Construct <=> TimedRendezvous!Construct
    /\ Rendezvous!Fibers = Fibers
<1>1. ASSUME NEW p PROVE /\ Rendezvous!Push(p) <=> TimedRendezvous!Push(p)
                         /\ Rendezvous!PushAgain(p) <=> TimedRendezvous!PushAgain(p)
  BY DEF Rendezvous!Push, Rendezvous!PushAgain, Rendezvous!TryPush, Rendezvous!Refused,
         Rendezvous!Offer, Rendezvous!WaitForSlot, Rendezvous!WakeUp, Rendezvous!Readied,
         Rendezvous!NotifyOne, Rendezvous!Popped, Rendezvous!Fibers,
         TimedRendezvous!Push, TimedRendezvous!PushAgain, TimedRendezvous!TryPush,
         TimedRendezvous!Refused, TimedRendezvous!Offer, TimedRendezvous!WaitForSlot,
         TimedRendezvous!WakeUp, TimedRendezvous!Readied, TimedRendezvous!NotifyOne,
         TimedRendezvous!Popped, TimedRendezvous!Fibers
<1>2. ASSUME NEW p PROVE /\ Rendezvous!PushReturns(p) <=> TimedRendezvous!PushReturns(p)
                         /\ ~ Rendezvous!PushTimesOut(p)
  BY DEF Rendezvous!PushReturns, TimedRendezvous!PushReturns, Rendezvous!PushTimesOut
<1>3. ASSUME NEW c PROVE /\ Rendezvous!Pop(c) <=> TimedRendezvous!Pop(c)
                         /\ Rendezvous!PopAgain(c) <=> TimedRendezvous!PopAgain(c)
                         /\ ~ Rendezvous!PopTimesOut(c)
  BY DEF Rendezvous!Pop, Rendezvous!PopAgain, Rendezvous!TryPop, Rendezvous!Take,
         Rendezvous!Closed, Rendezvous!WaitForValue, Rendezvous!WakeUp, Rendezvous!Readied,
         Rendezvous!NotifyOne, Rendezvous!Popped, Rendezvous!HasValue, Rendezvous!Fibers,
         Rendezvous!PopTimesOut,
         TimedRendezvous!Pop, TimedRendezvous!PopAgain, TimedRendezvous!TryPop,
         TimedRendezvous!Take, TimedRendezvous!Closed, TimedRendezvous!WaitForValue,
         TimedRendezvous!WakeUp, TimedRendezvous!Readied, TimedRendezvous!NotifyOne,
         TimedRendezvous!Popped, TimedRendezvous!HasValue, TimedRendezvous!Fibers
<1>4. ASSUME NEW f PROVE /\ ~ Rendezvous!Expire(f)
                         /\ Rendezvous!Close(f) <=> TimedRendezvous!Close(f)
  BY DEF Rendezvous!Expire, Rendezvous!Close, TimedRendezvous!Close, Rendezvous!AllWaiting,
         TimedRendezvous!AllWaiting, Rendezvous!WakeUp, TimedRendezvous!WakeUp,
         Rendezvous!Readied, TimedRendezvous!Readied, Rendezvous!Fibers, TimedRendezvous!Fibers,
         Rendezvous!ToSet, TimedRendezvous!ToSet
<1>5. (Rendezvous!Construct <=> TimedRendezvous!Construct) /\ Rendezvous!Fibers = Fibers
  BY DEF Rendezvous!Construct, TimedRendezvous!Construct, Rendezvous!Fibers,
         TimedRendezvous!Fibers, Fibers
<1> QED BY <1>1, <1>2, <1>3, <1>4, <1>5

LEMMA UntimedDestroyed ==
    ASSUME RendezvousInv, Rendezvous!Destroy
    PROVE  RendezvousInv'
<1>1. \A f \in Fibers : at[f] \in {"runs", "offers"}
  BY SameCalls DEF Rendezvous!Destroy
<1>2. /\ destroyed' = TRUE /\ closed_' = TRUE /\ slot_' = NoFiber
      /\ at' = [f \in Fibers |-> TimedRendezvous!Readied(at[f])]
      /\ UNCHANGED <<waiting_producers_, waiting_consumers_, taken, status>>
  BY SameCalls DEF Rendezvous!Destroy, Rendezvous!Readied, TimedRendezvous!Readied
<1> QED BY <1>1, <1>2, DestroyStep

LEMMA RendezvousStep == RendezvousInv /\ Rendezvous!Next => RendezvousInv'
<1> SUFFICES ASSUME RendezvousInv, Rendezvous!Next PROVE RendezvousInv'
  OBVIOUS
<1>1. CASE \E p \in Producers : \/ Rendezvous!Push(p) \/ Rendezvous!PushAgain(p)
                                \/ Rendezvous!PushReturns(p) \/ Rendezvous!PushTimesOut(p)
  BY <1>1, PushStep, PushReturnsStep, SameCalls
<1>2. CASE \E c \in Consumers : \/ Rendezvous!Pop(c) \/ Rendezvous!PopAgain(c)
                                \/ Rendezvous!PopTimesOut(c)
  BY <1>2, PopStep, SameCalls
<1>3. CASE \E f \in Fibers : Rendezvous!Expire(f) \/ Rendezvous!Close(f)
  BY <1>3, CloseStep, SameCalls
<1>4. CASE Rendezvous!Destroy \/ Rendezvous!Construct
  BY <1>4, UntimedDestroyed, ConstructStep, SameCalls
<1> QED BY <1>1, <1>2, <1>3, <1>4, SameCalls DEF Rendezvous!Next

\* Who is notified, when nobody is past a deadline, is ready.
LEMMA FirstIsReady ==
    ASSUME RendezvousInv, RendezvousWakes, NEW side \in {Producers, Consumers},
           NEW q \in Seq(side), q # <<>>, IsLinkedOnce(side, q, "waitExpired"),
           NEW W, NotifyOne(q) \subseteq W, NEW f \in Fibers, at[f] # "waits",
           NEW place, Moved(W, f, place)
    PROVE  \E g \in side : at'[g] = "ready"
<1>1. Head(q) \in side /\ Head(q) \in ToSet(q) /\ Head(q) \in W
  BY UnlinkFirst DEF IsLinkedOnce, NotifyOne
<1>2. Head(q) \in Fibers /\ at[Head(q)] = "waits"
  BY <1>1, RendezvousConstants DEF IsLinkedOnce, RendezvousWakes
<1>3. at'[Head(q)] = "ready"
  BY <1>1, <1>2 DEF Moved
<1> QED BY <1>1, <1>3

\* RendezvousWakes after a step.
RendezvousWakesNext ==
    /\ \A f \in Fibers : at'[f] \notin {"offerExpired", "waitExpired"}
    /\ slot_' = NoFiber /\ waiting_producers_' # <<>> => \E p \in Producers : at'[p] = "ready"
    /\ slot_' # NoFiber /\ waiting_consumers_' # <<>> => \E c \in Consumers : at'[c] = "ready"

LEMMA RendezvousWakesStep ==
    ASSUME RendezvousInv, RendezvousInv', RendezvousWakes, Rendezvous!Next
    PROVE  RendezvousWakes'
<1>1. /\ \A f \in Fibers : at[f] \notin {"offerExpired", "waitExpired"}
      /\ slot_ = NoFiber /\ waiting_producers_ # <<>> => \E p \in Producers : at[p] = "ready"
      /\ slot_ # NoFiber /\ waiting_consumers_ # <<>> => \E c \in Consumers : at[c] = "ready"
  BY DEF RendezvousWakes, Rendezvous!NobodyIsStranded
<1>2. \A W, f, place : Moved(W, f, place) /\ place \notin {"offerExpired", "waitExpired"} =>
        \A g \in Fibers : at'[g] \notin {"offerExpired", "waitExpired"}
  BY <1>1 DEF Moved
<1>3. /\ {"runs", "offers", "waits"} \subseteq Places
      /\ waiting_producers_ \in Seq(Producers) /\ waiting_consumers_ \in Seq(Consumers)
      /\ IsLinkedOnce(Producers, waiting_producers_, "waitExpired")
      /\ IsLinkedOnce(Consumers, waiting_consumers_, "waitExpired")
      /\ \A p \in Producers : p \in Fibers /\ p \notin Consumers
      /\ \A c \in Consumers : c \in Fibers
  BY RendezvousConstants DEF Places, TimedRendezvous!Places, RendezvousInv, TimedRendezvous!TypeOK
<1>4. SUFFICES RendezvousWakesNext
  BY DEF RendezvousWakes, RendezvousWakesNext, Rendezvous!NobodyIsStranded
<1>5. ASSUME NEW p \in Producers, TimedRendezvous!TryPush(p), at[p] \in {"runs", "ready"}
      PROVE  RendezvousWakesNext
  <2>1. CASE TimedRendezvous!Refused(p)
    <3>1. closed_ /\ at' = [at EXCEPT ![p] = "runs"] /\ UNCHANGED <<waiting_producers_, waiting_consumers_>>
      BY <2>1 DEF TimedRendezvous!Refused
    <3>2. waiting_producers_' = <<>> /\ waiting_consumers_' = <<>>
      BY <3>1 DEF RendezvousInv
    <3>3. Moved({}, p, "runs")
      BY <1>3, <3>1, ExceptMoves
    <3> QED BY <1>2, <3>2, <3>3 DEF RendezvousWakesNext
  <2>2. CASE TimedRendezvous!Offer(p)
    <3>1. /\ slot_' = p /\ waiting_consumers_' = Popped(waiting_consumers_)
          /\ TimedRendezvous!WakeUp(NotifyOne(waiting_consumers_), p, "offers")
      BY <2>2, RendezvousQueues DEF TimedRendezvous!Offer
    <3>2. Moved(NotifyOne(waiting_consumers_), p, "offers")
      BY <1>3, <3>1, WakeUpMoves
    <3>3. waiting_consumers_ # <<>> => \E c \in Consumers : at'[c] = "ready"
      BY <1>3, <1>5, <3>2, FirstIsReady
    <3>4. waiting_consumers_' # <<>> => waiting_consumers_ # <<>>
      BY <3>1 DEF Popped
    <3> QED BY <1>2, <1>3, <3>1, <3>2, <3>3, <3>4, RendezvousConstants DEF RendezvousWakesNext
  <2>3. CASE TimedRendezvous!WaitForSlot(p)
    <3>1. /\ slot_ # NoFiber /\ at' = [at EXCEPT ![p] = "waits"]
          /\ UNCHANGED <<slot_, waiting_consumers_>>
      BY <2>3 DEF TimedRendezvous!WaitForSlot
    <3>2. Moved({}, p, "waits")
      BY <1>3, <3>1, ExceptMoves
    <3>3. \A c \in Consumers : at'[c] = at[c]
      BY <1>3, <3>2 DEF Moved
    <3> QED BY <1>1, <1>2, <3>1, <3>2, <3>3 DEF RendezvousWakesNext
  <2> QED BY <1>5, <2>1, <2>2, <2>3 DEF TimedRendezvous!TryPush
<1>6. ASSUME NEW p \in Producers, TimedRendezvous!PushReturns(p)
      PROVE  RendezvousWakesNext
  <2>1. /\ at[p] = "consumed" /\ at' = [at EXCEPT ![p] = "runs"]
        /\ UNCHANGED <<slot_, waiting_producers_, waiting_consumers_>>
    BY <1>6 DEF TimedRendezvous!PushReturns
  <2>2. Moved({}, p, "runs")
    BY <1>3, <2>1, ExceptMoves
  <2>3. \A g \in Fibers : at[g] = "ready" => at'[g] = "ready"
    BY <2>1, <2>2 DEF Moved
  <2> QED BY <1>1, <1>2, <1>3, <2>1, <2>2, <2>3 DEF RendezvousWakesNext
<1>7. ASSUME NEW c \in Consumers, TimedRendezvous!TryPop(c), at[c] \in {"runs", "ready"}
      PROVE  RendezvousWakesNext
  <2>1. CASE TimedRendezvous!Take(c)
    <3>1. /\ slot_' = NoFiber /\ waiting_producers_' = Popped(waiting_producers_)
          /\ TimedRendezvous!WakeUp(NotifyOne(waiting_producers_) \cup {slot_}, c, "runs")
      BY <2>1, RendezvousQueues DEF TimedRendezvous!Take
    <3>2. Moved(NotifyOne(waiting_producers_) \cup {slot_}, c, "runs")
      BY <1>3, <3>1, WakeUpMoves
    <3>3. waiting_producers_ # <<>> => \E p \in Producers : at'[p] = "ready"
      BY <1>3, <1>7, <3>2, FirstIsReady
    <3>4. waiting_producers_' # <<>> => waiting_producers_ # <<>>
      BY <3>1 DEF Popped
    <3> QED BY <1>2, <1>3, <3>1, <3>2, <3>3, <3>4 DEF RendezvousWakesNext
  <2>2. CASE TimedRendezvous!Closed(c)
    <3>1. closed_ /\ at' = [at EXCEPT ![c] = "runs"] /\ UNCHANGED <<waiting_producers_, waiting_consumers_>>
      BY <2>2 DEF TimedRendezvous!Closed
    <3>2. waiting_producers_' = <<>> /\ waiting_consumers_' = <<>>
      BY <3>1 DEF RendezvousInv
    <3>3. Moved({}, c, "runs")
      BY <1>3, <3>1, ExceptMoves
    <3> QED BY <1>2, <3>2, <3>3 DEF RendezvousWakesNext
  <2>3. CASE TimedRendezvous!WaitForValue(c)
    <3>1. /\ slot_ = NoFiber /\ at' = [at EXCEPT ![c] = "waits"]
          /\ UNCHANGED <<slot_, waiting_producers_>>
      BY <2>3 DEF TimedRendezvous!WaitForValue, TimedRendezvous!HasValue
    <3>2. Moved({}, c, "waits")
      BY <1>3, <3>1, ExceptMoves
    <3>3. \A p \in Producers : at'[p] = at[p]
      BY <1>3, <3>2 DEF Moved
    <3> QED BY <1>1, <1>2, <3>1, <3>2, <3>3 DEF RendezvousWakesNext
  <2> QED BY <1>7, <2>1, <2>2, <2>3 DEF TimedRendezvous!TryPop
<1>8. ASSUME NEW f \in Fibers, TimedRendezvous!Close(f)
      PROVE  RendezvousWakesNext
  <2>1. /\ waiting_producers_' = <<>> /\ waiting_consumers_' = <<>>
        /\ TimedRendezvous!WakeUp(TimedRendezvous!AllWaiting, f, "runs")
    BY <1>8 DEF TimedRendezvous!Close
  <2>2. Moved(TimedRendezvous!AllWaiting, f, "runs")
    BY <1>3, <2>1, WakeUpMoves
  <2> QED BY <1>2, <2>1, <2>2 DEF RendezvousWakesNext
<1>9. CASE Rendezvous!Destroy
  <2>1. /\ \A f \in Fibers : at[f] = "runs" \/ at[f] = "offers"
        /\ closed_' = TRUE /\ at' = [f \in Fibers |-> Rendezvous!Readied(at[f])]
    BY <1>9, SameCalls DEF Rendezvous!Destroy
  <2>2. waiting_producers_' = <<>> /\ waiting_consumers_' = <<>>
    BY <2>1 DEF RendezvousInv
  <2>3. \A f \in Fibers : at'[f] \notin {"offerExpired", "waitExpired"}
    BY <2>1 DEF Rendezvous!Readied
  <2> QED BY <2>2, <2>3 DEF RendezvousWakesNext
<1>10. CASE TimedRendezvous!Construct
  <2>1. /\ \A f \in Fibers : at[f] = "runs"
        /\ slot_' = NoFiber /\ UNCHANGED <<waiting_producers_, at>>
    BY <1>10, RendezvousConstants DEF TimedRendezvous!Construct
  <2>2. \A g \in ToSet(waiting_producers_) : g \in Fibers /\ at[g] = "waits"
    BY <1>1, <1>3, NobodyLinked DEF IsLinkedOnce
  <2>3. waiting_producers_ = <<>>
    <3>1. ToSet(waiting_producers_) = {}
      BY <2>1, <2>2
    <3> QED BY <1>3, <3>1, NobodyLinked
  <2> QED BY <2>1, <2>3 DEF RendezvousWakesNext
<1> QED
  <2>1. CASE \E p \in Producers : Rendezvous!Push(p) \/ Rendezvous!PushAgain(p)
    BY <1>5, <2>1, SameCalls DEF TimedRendezvous!Push, TimedRendezvous!PushAgain
  <2>2. CASE \E c \in Consumers : Rendezvous!Pop(c) \/ Rendezvous!PopAgain(c)
    BY <1>7, <2>2, SameCalls DEF TimedRendezvous!Pop, TimedRendezvous!PopAgain
  <2>3. CASE \E p \in Producers : Rendezvous!PushReturns(p)
    BY <1>6, <2>3, SameCalls
  <2>4. CASE \E f \in Fibers : Rendezvous!Close(f)
    BY <1>8, <2>4, SameCalls
  <2>5. CASE Rendezvous!Destroy \/ Rendezvous!Construct
    BY <1>9, <1>10, <2>5, SameCalls
  <2> QED BY <2>1, <2>2, <2>3, <2>4, <2>5, SameCalls DEF Rendezvous!Next

(***************************************************************************)
(* bounded_channel and unbounded_channel.                                  *)
(***************************************************************************)

QueuePlaces == {"runs", "waits", "notified", "overdue"}

LEMMA QueueConstants ==
    /\ Producers \cap Consumers = {} /\ NoValue \notin Values
    /\ Fibers = Producers \cup Consumers
    /\ BoundedQueue!Fibers = Fibers /\ UnboundedQueue!Fibers = Fibers
    /\ Hwm \in Nat /\ Lwm \in Nat /\ Lwm < Hwm /\ MaxSize \in Nat
    /\ \A p \in Producers : p \in Fibers /\ p \notin Consumers
    /\ \A c \in Consumers : c \in Fibers /\ c \notin Producers
<1>1. /\ BoundedQueue!Fibers = Fibers /\ UnboundedQueue!Fibers = Fibers
      /\ Fibers = Producers \cup Consumers
  BY DEF BoundedQueue!Fibers, UnboundedQueue!Fibers, Fibers
<1>2. BoundedQueue!QueueChannelAssumption /\ BoundedQueue!WatermarkAssumption
      /\ UnboundedQueue!WatermarkAssumption
  BY ChannelsAssumption
<1>3. Producers \cap Consumers = {} /\ NoValue \notin Values
  BY <1>2 DEF BoundedQueue!QueueChannelAssumption
<1>4. Hwm \in Nat /\ Lwm \in Nat /\ Lwm < Hwm /\ MaxSize \in Nat
  BY <1>2 DEF BoundedQueue!WatermarkAssumption, UnboundedQueue!WatermarkAssumption
<1> QED BY <1>1, <1>3, <1>4

LEMMA QueueQueues ==
    ASSUME NEW q, NEW f
    PROVE  /\ BoundedQueue!First(q) = NotifyOne(q) /\ BoundedQueue!Rest(q) = Popped(q)
           /\ BoundedQueue!ToSet(q) = ToSet(q) /\ BoundedQueue!Without(q, f) = Without(q, f)
           /\ BoundedQueue!IsInjective(q) = IsInjective(q)
           /\ UnboundedQueue!ToSet(q) = ToSet(q)
BY DEF BoundedQueue!First, BoundedQueue!Rest, BoundedQueue!ToSet,
       BoundedQueue!Without, BoundedQueue!IsInjective, BoundedQueue!RemoveAt, UnboundedQueue!ToSet,
       NotifyOne, Popped, ToSet, Without, IsInjective, RemoveAt

\* Where everybody is once the fibers of W have been notified and f has gone to place.
Went(W, f, place) ==
    /\ at' \in [Fibers -> QueuePlaces] /\ at'[f] = place
    /\ \A g \in Fibers \ {f} : at'[g] = IF g \in W /\ at[g] = "waits" THEN "notified" ELSE at[g]

LEMMA GoesOnTo ==
    ASSUME at \in [Fibers -> QueuePlaces], NEW W, NEW f \in Fibers, NEW place \in QueuePlaces,
           \/ BoundedQueue!GoOn(f, place, W)
           \/ UnboundedQueue!GoOn(f, place, W)
           \/ W = {} /\ at' = [at EXCEPT ![f] = place]
    PROVE  Went(W, f, place)
BY QueueConstants DEF BoundedQueue!GoOn, UnboundedQueue!GoOn, Went, QueuePlaces

LEMMA InsideFew ==
    ASSUME IsFiniteSet(Inside), NEW f, \A g \in Fibers \ {f} : at[g] = "runs" => at'[g] = "runs"
    PROVE  IsFiniteSet(Inside')
<1>1. IsFiniteSet(Inside \cup {f})
  BY FS_AddElement
<1>2. Inside' \subseteq Inside \cup {f}
  BY DEF Inside
<1> QED BY <1>1, <1>2, FS_Subset

LEMMA WokenAreFew ==
    ASSUME IsFiniteSet(Inside)
    PROVE  IsFiniteSet(Woken) /\ Cardinality(Woken) \in Nat
<1>1. Woken \subseteq Inside
  BY QueueConstants DEF Woken, Inside
<1> QED BY <1>1, FS_Subset, FS_CardinalityType

\* A value that is stored has a consumer woken for it, if any sleeps.
LEMMA EnqueueStep ==
    ASSUME QueueInv, NEW p \in Producers, NEW v \in Values, at[p] # "waits",
           BoundedQueue!Enqueue(p, v)
    PROVE  QueueInv'
<1> DEFINE N == NotifyOne(not_empty_)
<1>1. /\ queue_' = Append(queue_, v) /\ not_empty_' = Popped(not_empty_)
      /\ not_full_' = Without(not_full_, p)
      /\ BoundedQueue!GoOn(p, "runs", N)
      /\ value' = [value EXCEPT ![p] = NoValue]
      /\ UNCHANGED <<closed_, popped>>
  BY QueueQueues DEF BoundedQueue!Enqueue, BoundedQueue!PushTail
<1>2. /\ queue_ \in Seq(Values) /\ at \in [Fibers -> QueuePlaces]
      /\ not_empty_ \in Seq(Consumers) /\ not_full_ \in Seq(Producers)
      /\ IsLinkedOnce(Producers, not_full_, "overdue")
      /\ IsLinkedOnce(Consumers, not_empty_, "overdue")
      /\ IsInjective(not_empty_) /\ IsInjective(not_full_) /\ IsFiniteSet(Inside)
  BY DEF QueueInv, QueuePlaces, IsLinkedOnce
<1>3. /\ not_empty_' \in Seq(Consumers) /\ IsInjective(not_empty_')
      /\ N \subseteq ToSet(not_empty_) /\ ToSet(not_empty_) \subseteq Consumers
      /\ ToSet(not_empty_') = ToSet(not_empty_) \ N
  BY <1>1, <1>2, UnlinkOne, NobodyLinked
<1>4. /\ not_full_' \in Seq(Producers) /\ IsInjective(not_full_')
      /\ ToSet(not_full_') = ToSet(not_full_) \ {p} /\ ToSet(not_full_) \subseteq Producers
  BY <1>1, <1>2, UnlinkAny, NobodyLinked
<1> HIDE DEF N
<1>5. Went(N, p, "runs")
  BY <1>1, <1>2, GoesOnTo, QueueConstants DEF QueuePlaces
<1>6. /\ \A q \in Producers \ {p} : at'[q] = at[q]
      /\ \A c \in Consumers : at'[c] = IF c \in N /\ at[c] = "waits" THEN "notified" ELSE at[c]
      /\ at'[p] = "runs" /\ at' \in [Fibers -> QueuePlaces]
  BY <1>3, <1>5, QueueConstants DEF Went
<1>7. LinkedNext(Producers, not_full_', "overdue")
  <2>1. Relinks(Producers, not_full_, not_full_', "overdue", p)
    BY <1>4, <1>6 DEF Relinks
  <2> QED BY <1>2, <2>1, LinksMove
<1>8. LinkedNext(Consumers, not_empty_', "overdue")
  <2>1. Relinks(Consumers, not_empty_, not_empty_', "overdue", p)
    BY <1>3, <1>6, QueueConstants DEF Relinks
  <2> QED BY <1>2, <2>1, LinksMove
<1>9. IsFiniteSet(Inside')
  <2>1. \A g \in Fibers \ {p} : at[g] = "runs" => at'[g] = "runs"
    BY <1>5 DEF Went
  <2> QED BY <1>2, <2>1, InsideFew
<1>10. ASSUME NEW c \in Consumers, at'[c] = "waits"
       PROVE  ~closed_' /\ Len(queue_') <= Cardinality(Woken')
  <2>1. at[c] = "waits" /\ ~closed_ /\ Len(queue_) <= Cardinality(Woken)
    BY <1>6, <1>10 DEF QueueInv
  <2>2. not_empty_ # <<>>
    BY <1>2, <2>1, NobodyLinked DEF IsLinkedOnce
  <2>3. PICK h \in Consumers : N = {h} /\ h \in ToSet(not_empty_)
    BY <1>3, <2>2 DEF N, NotifyOne
  <2>4. at[h] \in {"waits", "overdue"}
    BY <1>2, <2>3 DEF IsLinkedOnce
  <2>5. Woken' = Woken \cup {h} /\ h \notin Woken
    BY <1>3, <1>6, <2>3, <2>4 DEF Woken
  <2>6. Cardinality(Woken') = Cardinality(Woken) + 1
    BY <1>2, <2>5, WokenAreFew, FS_AddElement
  <2>7. Len(queue_') = Len(queue_) + 1 /\ Len(queue_) \in Nat
    BY <1>1, <1>2
  <2> QED BY <1>1, <1>2, <2>1, <2>6, <2>7, WokenAreFew
<1>11. \A q \in Producers : at'[q] # "runs" => value'[q] \in Values
  BY <1>1, <1>6 DEF QueueInv
<1>12. queue_' \in Seq(Values) /\ value' \in [Producers -> Values \cup {NoValue}]
  BY <1>1, <1>2 DEF QueueInv
<1> QED BY <1>1, <1>3, <1>4, <1>6, <1>7, <1>8, <1>9, <1>10, <1>11, <1>12
        DEF QueueInv, QueuePlaces, LinkedNext, IsLinkedOnce

\* A step of producers only leaves the consumers as they were.
LEMMA ConsumersRest ==
    ASSUME QueueInv, UNCHANGED <<queue_, closed_, not_empty_>>, \A c \in Consumers : at'[c] = at[c]
    PROVE  /\ LinkedNext(Consumers, not_empty_', "overdue")
           /\ \A c \in Consumers : at'[c] = "waits" => ~closed_' /\ Len(queue_') <= Cardinality(Woken')
<1>1. IsLinkedOnce(Consumers, not_empty_, "overdue") /\ not_empty_ \in Seq(Consumers)
  BY DEF QueueInv
<1>2. LinkedNext(Consumers, not_empty_, "overdue")
  BY <1>1, LinksStay
<1>3. Woken' = Woken
  BY DEF Woken
<1> QED BY <1>2, <1>3 DEF QueueInv

\* A step of consumers only leaves the producers as they were.
LEMMA ProducersRest ==
    ASSUME QueueInv, UNCHANGED <<not_full_, value>>, \A p \in Producers : at'[p] = at[p]
    PROVE  /\ LinkedNext(Producers, not_full_', "overdue")
           /\ \A p \in Producers : at'[p] # "runs" => value'[p] \in Values
<1>1. IsLinkedOnce(Producers, not_full_, "overdue") /\ not_full_ \in Seq(Producers)
  BY DEF QueueInv
<1>2. LinkedNext(Producers, not_full_, "overdue")
  BY <1>1, LinksStay
<1> QED BY <1>2 DEF QueueInv

LEMMA QueueNext ==
    ASSUME /\ queue_' \in Seq(Values)
           /\ closed_' \in BOOLEAN
           /\ not_empty_' \in Seq(Consumers) /\ not_full_' \in Seq(Producers)
           /\ at' \in [Fibers -> QueuePlaces]
           /\ value' \in [Producers -> Values \cup {NoValue}]
           /\ popped' \in Values \cup {NoValue},
           /\ \A p \in Producers : at'[p] # "runs" => value'[p] \in Values
           /\ LinkedNext(Producers, not_full_', "overdue")
           /\ LinkedNext(Consumers, not_empty_', "overdue")
           /\ IsFiniteSet(Inside')
           /\ \A c \in Consumers : at'[c] = "waits" => ~closed_' /\ Len(queue_') <= Cardinality(Woken')
    PROVE  QueueInv'
BY DEF QueueInv, QueuePlaces, LinkedNext, IsLinkedOnce

LEMMA WaitForRoomStep ==
    ASSUME QueueInv, NEW p \in Producers, NEW v \in Values, at[p] # "waits",
           BoundedQueue!WaitForRoom(p, v)
    PROVE  QueueInv'
<1>1. /\ not_full_' = Append(Without(not_full_, p), p)
      /\ at' = [at EXCEPT ![p] = "waits"]
      /\ value' = [value EXCEPT ![p] = v]
      /\ UNCHANGED <<queue_, closed_, not_empty_, popped>>
  BY QueueQueues DEF BoundedQueue!WaitForRoom
<1>2. /\ at \in [Fibers -> QueuePlaces] /\ not_full_ \in Seq(Producers)
      /\ IsLinkedOnce(Producers, not_full_, "overdue")
      /\ IsInjective(not_full_) /\ IsFiniteSet(Inside)
  BY DEF QueueInv, QueuePlaces, IsLinkedOnce
<1>3. Went({}, p, "waits")
  BY <1>1, <1>2, GoesOnTo, QueueConstants DEF QueuePlaces
<1>4. /\ \A g \in Fibers \ {p} : at'[g] = at[g]
      /\ at' \in [Fibers -> QueuePlaces] /\ at'[p] = "waits"
  BY <1>3 DEF Went
<1>5. /\ Without(not_full_, p) \in Seq(Producers) /\ IsInjective(Without(not_full_, p))
      /\ ToSet(Without(not_full_, p)) = ToSet(not_full_) \ {p}
  BY <1>2, UnlinkAny
<1>6. /\ not_full_' \in Seq(Producers) /\ IsInjective(not_full_')
      /\ ToSet(not_full_') = (ToSet(not_full_) \ {p}) \cup {p}
  BY <1>1, <1>5, LinkLast
<1>7. LinkedNext(Producers, not_full_', "overdue")
  <2>1. Relinks(Producers, not_full_, not_full_', "overdue", p)
    BY <1>4, <1>6, QueueConstants DEF Relinks
  <2> QED BY <1>2, <2>1, LinksMove
<1>8. \A c \in Consumers : at'[c] = at[c]
  BY <1>4, QueueConstants
<1>9. /\ LinkedNext(Consumers, not_empty_', "overdue")
      /\ \A c \in Consumers : at'[c] = "waits" => ~closed_' /\ Len(queue_') <= Cardinality(Woken')
  BY <1>1, <1>8, ConsumersRest
<1>10. IsFiniteSet(Inside')
  BY <1>2, <1>4, InsideFew
<1>11. \A q \in Producers : at'[q] # "runs" => value'[q] \in Values
  BY <1>1, <1>4, QueueConstants DEF QueueInv
<1>12. /\ queue_' \in Seq(Values) /\ value' \in [Producers -> Values \cup {NoValue}]
       /\ closed_' \in BOOLEAN /\ not_empty_' \in Seq(Consumers) /\ popped' \in Values \cup {NoValue}
  BY <1>1 DEF QueueInv
<1> QED BY <1>4, <1>6, <1>7, <1>9, <1>10, <1>11, <1>12, QueueNext

LEMMA GivesUpStep ==
    ASSUME QueueInv, NEW p \in Producers, at[p] # "waits", BoundedQueue!PushTimesOut(p)
    PROVE  QueueInv'
<1>1. /\ not_full_' = Without(not_full_, p)
      /\ at' = [at EXCEPT ![p] = "runs"]
      /\ value' = [value EXCEPT ![p] = NoValue]
      /\ UNCHANGED <<queue_, closed_, not_empty_, popped>>
  BY QueueQueues DEF BoundedQueue!PushTimesOut
<1>2. /\ at \in [Fibers -> QueuePlaces] /\ not_full_ \in Seq(Producers)
      /\ IsLinkedOnce(Producers, not_full_, "overdue")
      /\ IsInjective(not_full_) /\ IsFiniteSet(Inside)
  BY DEF QueueInv, QueuePlaces, IsLinkedOnce
<1>3. Went({}, p, "runs")
  BY <1>1, <1>2, GoesOnTo, QueueConstants DEF QueuePlaces
<1>4. /\ \A g \in Fibers \ {p} : at'[g] = at[g]
      /\ at' \in [Fibers -> QueuePlaces] /\ at'[p] = "runs"
  BY <1>3 DEF Went
<1>6. /\ not_full_' \in Seq(Producers) /\ IsInjective(not_full_')
      /\ ToSet(not_full_') = ToSet(not_full_) \ {p}
  BY <1>1, <1>2, UnlinkAny
<1>7. LinkedNext(Producers, not_full_', "overdue")
  <2>1. Relinks(Producers, not_full_, not_full_', "overdue", p)
    BY <1>4, <1>6, QueueConstants DEF Relinks
  <2> QED BY <1>2, <2>1, LinksMove
<1>8. \A c \in Consumers : at'[c] = at[c]
  BY <1>4, QueueConstants
<1>9. /\ LinkedNext(Consumers, not_empty_', "overdue")
      /\ \A c \in Consumers : at'[c] = "waits" => ~closed_' /\ Len(queue_') <= Cardinality(Woken')
  BY <1>1, <1>8, ConsumersRest
<1>10. IsFiniteSet(Inside')
  BY <1>2, <1>4, InsideFew
<1>11. \A q \in Producers : at'[q] # "runs" => value'[q] \in Values
  BY <1>1, <1>4, QueueConstants DEF QueueInv
<1>12. /\ queue_' \in Seq(Values) /\ value' \in [Producers -> Values \cup {NoValue}]
       /\ closed_' \in BOOLEAN /\ not_empty_' \in Seq(Consumers) /\ popped' \in Values \cup {NoValue}
  BY <1>1 DEF QueueInv
<1> QED BY <1>4, <1>6, <1>7, <1>9, <1>10, <1>11, <1>12, QueueNext

\* value_pop_(): W are the producers that it notifies.
Taken(c, W) ==
    /\ queue_' = Tail(queue_) /\ popped' = Head(queue_)
    /\ not_empty_' = Without(not_empty_, c)
    /\ Went(W, c, "runs")
    /\ \/ W = ToSet(not_full_) /\ not_full_' = <<>>
       \/ W = {} /\ not_full_' = not_full_
    /\ UNCHANGED <<closed_, value>>

LEMMA DequeueTakes ==
    ASSUME at \in [Fibers -> QueuePlaces], NEW c \in Consumers,
           BoundedQueue!Dequeue(c) \/ UnboundedQueue!Dequeue(c)
    PROVE  \E W : Taken(c, W)
<1>1. BoundedQueue!Without(not_empty_, c) = Without(not_empty_, c)
      /\ UnboundedQueue!Without(not_empty_, c) = Without(not_empty_, c)
      /\ BoundedQueue!ToSet(not_full_) = ToSet(not_full_)
      /\ UnboundedQueue!ToSet(not_full_) = ToSet(not_full_)
  BY QueueQueues DEF BoundedQueue!Without, UnboundedQueue!Without, BoundedQueue!ToSet, UnboundedQueue!ToSet,
     BoundedQueue!RemoveAt, UnboundedQueue!RemoveAt, Without, ToSet, RemoveAt
<1>2. /\ queue_' = Tail(queue_) /\ popped' = Head(queue_)
      /\ not_empty_' = Without(not_empty_, c)
      /\ UNCHANGED <<closed_, value>>
  BY <1>1 DEF BoundedQueue!Dequeue, UnboundedQueue!Dequeue
<1>3. CASE not_full_' = <<>> /\ (BoundedQueue!GoOn(c, "runs", ToSet(not_full_))
                                 \/ UnboundedQueue!GoOn(c, "runs", ToSet(not_full_)))
  <2>1. Went(ToSet(not_full_), c, "runs")
    BY <1>3, GoesOnTo, QueueConstants DEF QueuePlaces
  <2>2. Taken(c, ToSet(not_full_))
    BY <1>2, <1>3, <2>1 DEF Taken
  <2> QED BY <2>2
<1>4. CASE UNCHANGED not_full_ /\ (BoundedQueue!GoOn(c, "runs", {}) \/ UnboundedQueue!GoOn(c, "runs", {}))
  <2>1. Went({}, c, "runs")
    BY <1>4, GoesOnTo, QueueConstants DEF QueuePlaces
  <2>2. Taken(c, {})
    BY <1>2, <1>4, <2>1 DEF Taken
  <2> QED BY <2>2
<1> QED BY <1>1, <1>3, <1>4 DEF BoundedQueue!Dequeue, UnboundedQueue!Dequeue

\* The value that is taken had a consumer woken for it: the one that takes it, or
\* one that finds the next value.
LEMMA DequeueStep ==
    ASSUME QueueInv, NEW c \in Consumers, NEW W, at[c] # "waits", queue_ # <<>>, Taken(c, W)
    PROVE  QueueInv'
<1>1. /\ queue_' = Tail(queue_) /\ popped' = Head(queue_)
      /\ not_empty_' = Without(not_empty_, c)
      /\ Went(W, c, "runs") /\ UNCHANGED <<closed_, value>>
      /\ \/ W = ToSet(not_full_) /\ not_full_' = <<>>
         \/ W = {} /\ not_full_' = not_full_
  BY DEF Taken
<1>2. /\ queue_ \in Seq(Values) /\ at \in [Fibers -> QueuePlaces]
      /\ not_empty_ \in Seq(Consumers) /\ not_full_ \in Seq(Producers)
      /\ IsLinkedOnce(Producers, not_full_, "overdue")
      /\ IsLinkedOnce(Consumers, not_empty_, "overdue")
      /\ IsInjective(not_empty_) /\ IsInjective(not_full_) /\ IsFiniteSet(Inside)
  BY DEF QueueInv, QueuePlaces, IsLinkedOnce
<1>3. /\ not_empty_' \in Seq(Consumers) /\ IsInjective(not_empty_')
      /\ ToSet(not_empty_') = ToSet(not_empty_) \ {c}
  BY <1>1, <1>2, UnlinkAny
<1>4. /\ not_full_' \in Seq(Producers) /\ IsInjective(not_full_')
      /\ ToSet(not_full_') = ToSet(not_full_) \ W
      /\ W \subseteq ToSet(not_full_) /\ ToSet(not_full_) \subseteq Producers
  <2>1. ToSet(not_full_) \subseteq Producers /\ ToSet(<<>>) = {} /\ IsInjective(<<>>)
        /\ <<>> \in Seq(Producers)
    BY <1>2, NobodyLinked
  <2>2. CASE W = ToSet(not_full_) /\ not_full_' = <<>>
    <3>1. ToSet(not_full_') = {} /\ IsInjective(not_full_') /\ not_full_' \in Seq(Producers)
      BY <2>1, <2>2
    <3> QED BY <2>1, <2>2, <3>1
  <2>3. CASE W = {} /\ not_full_' = not_full_
    BY <1>2, <2>1, <2>3
  <2> QED BY <1>1, <2>2, <2>3
<1>5. /\ \A d \in Consumers \ {c} : at'[d] = at[d]
      /\ \A p \in Producers : at'[p] = IF p \in W /\ at[p] = "waits" THEN "notified" ELSE at[p]
      /\ at'[c] = "runs" /\ at' \in [Fibers -> QueuePlaces]
  BY <1>1, <1>4, QueueConstants DEF Went
<1>6. LinkedNext(Producers, not_full_', "overdue")
  <2>1. Relinks(Producers, not_full_, not_full_', "overdue", c)
    BY <1>4, <1>5, QueueConstants DEF Relinks
  <2> QED BY <1>2, <2>1, LinksMove
<1>7. LinkedNext(Consumers, not_empty_', "overdue")
  <2>1. Relinks(Consumers, not_empty_, not_empty_', "overdue", c)
    BY <1>3, <1>5 DEF Relinks
  <2> QED BY <1>2, <2>1, LinksMove
<1>8. IsFiniteSet(Inside')
  <2>1. \A g \in Fibers \ {c} : at[g] = "runs" => at'[g] = "runs"
    BY <1>1 DEF Went
  <2> QED BY <1>2, <2>1, InsideFew
<1>9. ASSUME NEW d \in Consumers, at'[d] = "waits"
      PROVE  ~closed_' /\ Len(queue_') <= Cardinality(Woken')
  <2>1. at[d] = "waits" /\ ~closed_ /\ Len(queue_) <= Cardinality(Woken)
    BY <1>5, <1>9 DEF QueueInv
  <2>2. Woken' = Woken \ {c}
    BY <1>3, <1>5 DEF Woken
  <2>3. Cardinality(Woken') >= Cardinality(Woken) - 1
    <3>1. IsFiniteSet(Woken) /\ Cardinality(Woken) \in Nat
      BY <1>2, WokenAreFew
    <3> DEFINE n == Cardinality(Woken)
               m == Cardinality(Woken')
    <3>2. m = IF c \in Woken THEN n - 1 ELSE n
      BY <2>2, <3>1, FS_RemoveElement
    <3>3. n \in Nat
      BY <3>1
    <3> HIDE DEF n, m
    <3>4. m >= n - 1
      BY <3>2, <3>3
    <3> QED BY <3>4 DEF n, m
  <2>4. Len(queue_') = Len(queue_) - 1 /\ Len(queue_) \in Nat
    BY <1>1, <1>2
  <2>5. IsFiniteSet(Woken') /\ Cardinality(Woken') \in Nat
    BY <1>2, <2>2, WokenAreFew, FS_RemoveElement, FS_CardinalityType
  <2> QED BY <1>1, <1>2, <2>1, <2>3, <2>4, <2>5, WokenAreFew
<1>10. \A q \in Producers : at'[q] # "runs" => value'[q] \in Values
  BY <1>1, <1>5 DEF QueueInv
<1>11. /\ queue_' \in Seq(Values) /\ popped' \in Values \cup {NoValue}
       /\ value' \in [Producers -> Values \cup {NoValue}] /\ closed_' \in BOOLEAN
  BY <1>1, <1>2 DEF QueueInv
<1> QED BY <1>3, <1>4, <1>5, <1>6, <1>7, <1>8, <1>9, <1>10, <1>11, QueueNext

\* A consumer of an empty channel gives up, or waits again.
LEMMA EmptyStep ==
    ASSUME QueueInv, NEW c \in Consumers, at[c] # "waits", queue_ = <<>>,
           \/ BoundedQueue!PopFails(c)
           \/ ~closed_ /\ BoundedQueue!WaitForValue(c)
    PROVE  QueueInv'
<1>2. /\ queue_ \in Seq(Values) /\ at \in [Fibers -> QueuePlaces]
      /\ not_empty_ \in Seq(Consumers)
      /\ IsLinkedOnce(Consumers, not_empty_, "overdue")
      /\ IsInjective(not_empty_) /\ IsFiniteSet(Inside)
  BY DEF QueueInv, QueuePlaces, IsLinkedOnce
<1>3. /\ Without(not_empty_, c) \in Seq(Consumers) /\ IsInjective(Without(not_empty_, c))
      /\ ToSet(Without(not_empty_, c)) = ToSet(not_empty_) \ {c}
  BY <1>2, UnlinkAny
<1>4. UNCHANGED <<queue_, closed_, not_full_, value, popped>>
  BY DEF BoundedQueue!PopFails, BoundedQueue!WaitForValue
<1>5. PICK place \in {"runs", "waits"} :
          /\ at' = [at EXCEPT ![c] = place]
          /\ not_empty_' \in Seq(Consumers) /\ IsInjective(not_empty_')
          /\ ToSet(not_empty_') = (ToSet(not_empty_) \ {c}) \cup (IF place = "waits" THEN {c} ELSE {})
          /\ place = "waits" => ~closed_
  <2>1. CASE BoundedQueue!PopFails(c)
    BY <1>3, <2>1, QueueQueues DEF BoundedQueue!PopFails
  <2>2. CASE ~closed_ /\ BoundedQueue!WaitForValue(c)
    <3>1. not_empty_' = Append(Without(not_empty_, c), c) /\ at' = [at EXCEPT ![c] = "waits"]
      BY <2>2, QueueQueues DEF BoundedQueue!WaitForValue
    <3> QED BY <1>3, <2>2, <3>1, LinkLast
  <2> QED BY <2>1, <2>2
<1>6. /\ \A g \in Fibers \ {c} : at'[g] = at[g]
      /\ at' \in [Fibers -> QueuePlaces] /\ at'[c] = place
  <2>1. c \in Fibers /\ place \in QueuePlaces
    BY QueueConstants DEF QueuePlaces
  <2> QED BY <1>2, <1>5, <2>1
<1>7. LinkedNext(Consumers, not_empty_', "overdue")
  <2>1. Relinks(Consumers, not_empty_, not_empty_', "overdue", c)
    BY <1>5, <1>6, QueueConstants DEF Relinks
  <2> QED BY <1>2, <2>1, LinksMove
<1>8. \A p \in Producers : at'[p] = at[p]
  BY <1>6, QueueConstants
<1>9. /\ LinkedNext(Producers, not_full_', "overdue")
      /\ \A p \in Producers : at'[p] # "runs" => value'[p] \in Values
  BY <1>4, <1>8, ProducersRest
<1>10. IsFiniteSet(Inside')
  BY <1>2, <1>6, InsideFew
<1>11. ASSUME NEW d \in Consumers, at'[d] = "waits"
       PROVE  ~closed_' /\ Len(queue_') <= Cardinality(Woken')
  <2>1. ~closed_
    BY <1>5, <1>6, <1>11 DEF QueueInv
  <2>2. Woken' \subseteq Inside'
    BY QueueConstants DEF Woken, Inside
  <2>3. Cardinality(Woken') \in Nat
    BY <1>10, <2>2, FS_Subset, FS_CardinalityType
  <2>4. Len(queue_') = 0
    BY <1>4
  <2> QED BY <1>4, <2>1, <2>3, <2>4
<1>12. /\ queue_' \in Seq(Values) /\ value' \in [Producers -> Values \cup {NoValue}]
       /\ closed_' \in BOOLEAN /\ not_full_' \in Seq(Producers) /\ popped' \in Values \cup {NoValue}
  BY <1>4 DEF QueueInv
<1> QED BY <1>5, <1>6, <1>7, <1>9, <1>10, <1>11, <1>12, QueueNext

LEMMA QueueExpires ==
    ASSUME QueueInv, NEW f \in Fibers, BoundedQueue!Expire(f)
    PROVE  QueueInv'
<1>1. /\ at[f] = "waits" /\ at' = [at EXCEPT ![f] = "overdue"]
      /\ UNCHANGED <<queue_, closed_, not_empty_, not_full_, value, popped>>
  BY DEF BoundedQueue!Expire
<1>2. /\ at \in [Fibers -> QueuePlaces]
      /\ not_empty_ \in Seq(Consumers) /\ not_full_ \in Seq(Producers)
      /\ IsLinkedOnce(Producers, not_full_, "overdue")
      /\ IsLinkedOnce(Consumers, not_empty_, "overdue") /\ IsFiniteSet(Inside)
  BY DEF QueueInv, QueuePlaces
<1>3. /\ \A g \in Fibers \ {f} : at'[g] = at[g]
      /\ at' \in [Fibers -> QueuePlaces] /\ at'[f] = "overdue"
  <2>1. Went({}, f, "overdue")
    BY <1>1, <1>2, GoesOnTo, QueueConstants DEF QueuePlaces
  <2> QED BY <2>1 DEF Went
<1>4. \A g \in Fibers : at'[g] # at[g] => at'[g] = "overdue"
  BY <1>3
<1>5. LinkedNext(Producers, not_full_, "overdue")
  BY <1>2, <1>4, LinksStay, QueueConstants
<1>6. LinkedNext(Consumers, not_empty_, "overdue")
  BY <1>2, <1>4, LinksStay, QueueConstants
<1>7. IsFiniteSet(Inside')
  BY <1>2, <1>3, InsideFew
<1>8. Woken' = Woken
  <2>1. f \in Consumers => f \in ToSet(not_empty_)
    BY <1>1, <1>2 DEF IsLinkedOnce
  <2> QED BY <1>1, <1>3, <2>1, QueueConstants DEF Woken
<1>9. \A c \in Consumers : at'[c] = "waits" => at[c] = "waits"
  BY <1>3, QueueConstants
<1>10. \A c \in Consumers : at'[c] = "waits" => ~closed_' /\ Len(queue_') <= Cardinality(Woken')
  BY <1>1, <1>8, <1>9 DEF QueueInv
<1>11. \A q \in Producers : at'[q] # "runs" => value'[q] \in Values
  BY <1>1, <1>3, QueueConstants DEF QueueInv
<1> QED BY <1>1, <1>3, <1>5, <1>6, <1>7, <1>10, <1>11, QueueNext DEF QueueInv

LEMMA QueueCloses ==
    ASSUME QueueInv, NEW f \in Fibers, BoundedQueue!Close(f)
    PROVE  QueueInv'
<1> DEFINE W == ToSet(not_empty_) \cup ToSet(not_full_)
<1>1. /\ at[f] = "runs" /\ closed_' = TRUE /\ not_empty_' = <<>> /\ not_full_' = <<>>
      /\ BoundedQueue!GoOn(f, "runs", W)
      /\ UNCHANGED <<queue_, value, popped>>
  BY QueueQueues DEF BoundedQueue!Close, BoundedQueue!NotifiedAll
<1>2. /\ at \in [Fibers -> QueuePlaces]
      /\ not_empty_ \in Seq(Consumers) /\ not_full_ \in Seq(Producers)
      /\ IsLinkedOnce(Producers, not_full_, "overdue")
      /\ IsLinkedOnce(Consumers, not_empty_, "overdue") /\ IsFiniteSet(Inside)
  BY DEF QueueInv, QueuePlaces
<1> HIDE DEF W
<1>3. Went(W, f, "runs")
  BY <1>1, <1>2, GoesOnTo DEF QueuePlaces
<1>4. \A g \in Fibers : at'[g] # "waits" /\ (at[g] = "runs" => at'[g] = "runs")
  <2>1. \A g \in Fibers : at[g] = "waits" => g \in W
    BY <1>2, QueueConstants DEF W, IsLinkedOnce
  <2> QED BY <1>1, <1>3, <2>1 DEF Went
<1>5. LinkedNext(Producers, not_full_', "overdue") /\ LinkedNext(Consumers, not_empty_', "overdue")
  BY <1>1, <1>4, NobodyLinked, QueueConstants DEF LinkedNext, ToSet, IsInjective
<1>6. IsFiniteSet(Inside')
  BY <1>2, <1>4, InsideFew
<1>7. \A q \in Producers : at'[q] # "runs" => value'[q] \in Values
  BY <1>1, <1>4, QueueConstants DEF QueueInv
<1>8. \A c \in Consumers : at'[c] = "waits" => ~closed_' /\ Len(queue_') <= Cardinality(Woken')
  BY <1>4, QueueConstants
<1>9. at' \in [Fibers -> QueuePlaces]
  BY <1>3 DEF Went
<1> QED BY <1>1, <1>5, <1>6, <1>7, <1>8, <1>9, QueueNext DEF QueueInv

\* Each action of an unbounded_channel that looks at no watermark is one of a
\* bounded_channel.
LEMMA SameQueueCalls ==
    /\ \A p, v : UnboundedQueue!Enqueue(p, v) <=> BoundedQueue!Enqueue(p, v)
    /\ \A c : UnboundedQueue!PopFails(c) <=> BoundedQueue!PopFails(c)
    /\ \A c : UnboundedQueue!WaitForValue(c) <=> BoundedQueue!WaitForValue(c)
    /\ \A f : UnboundedQueue!Expire(f) <=> BoundedQueue!Expire(f)
    /\ \A f : UnboundedQueue!Close(f) <=> BoundedQueue!Close(f)
<1>1. \A q, f : UnboundedQueue!Without(q, f) = BoundedQueue!Without(q, f)
  BY DEF UnboundedQueue!Without, BoundedQueue!Without, UnboundedQueue!ToSet, BoundedQueue!ToSet,
         UnboundedQueue!RemoveAt, BoundedQueue!RemoveAt
<1>2. \A q : /\ UnboundedQueue!ToSet(q) = BoundedQueue!ToSet(q)
             /\ UnboundedQueue!First(q) = BoundedQueue!First(q)
             /\ UnboundedQueue!Rest(q) = BoundedQueue!Rest(q)
  BY DEF UnboundedQueue!ToSet, BoundedQueue!ToSet, UnboundedQueue!First, BoundedQueue!First,
         UnboundedQueue!Rest, BoundedQueue!Rest
<1>3. \A f, place, W : UnboundedQueue!GoOn(f, place, W) <=> BoundedQueue!GoOn(f, place, W)
  BY DEF UnboundedQueue!GoOn, BoundedQueue!GoOn, UnboundedQueue!Fibers, BoundedQueue!Fibers
<1>4. \A p, v : UnboundedQueue!Enqueue(p, v) <=> BoundedQueue!Enqueue(p, v)
  BY <1>1, <1>2, <1>3 DEF UnboundedQueue!Enqueue, BoundedQueue!Enqueue,
                           UnboundedQueue!PushTail, BoundedQueue!PushTail
<1>5. \A c : UnboundedQueue!PopFails(c) <=> BoundedQueue!PopFails(c)
  BY <1>1 DEF UnboundedQueue!PopFails, BoundedQueue!PopFails
<1>6. \A c : UnboundedQueue!WaitForValue(c) <=> BoundedQueue!WaitForValue(c)
  BY <1>1 DEF UnboundedQueue!WaitForValue, BoundedQueue!WaitForValue
<1>7. \A f : UnboundedQueue!Expire(f) <=> BoundedQueue!Expire(f)
  BY DEF UnboundedQueue!Expire, BoundedQueue!Expire
<1>8. \A f : UnboundedQueue!Close(f) <=> BoundedQueue!Close(f)
  BY <1>2, <1>3 DEF UnboundedQueue!Close, BoundedQueue!Close,
                    UnboundedQueue!NotifiedAll, BoundedQueue!NotifiedAll
<1> QED BY <1>4, <1>5, <1>6, <1>7, <1>8

\* What a bounded_channel does, fiber by fiber.
QueuePushes(p) ==
    \/ \E v \in Values : at[p] = "runs" /\ ~BoundedQueue!IsFull /\ ~closed_ /\ BoundedQueue!Enqueue(p, v)
    \/ \E v \in Values : at[p] = "runs" /\ BoundedQueue!IsFull /\ BoundedQueue!WaitForRoom(p, v)
    \/ BoundedQueue!PushResumes(p)
    \/ at[p] # "waits" /\ BoundedQueue!PushTimesOut(p)

QueuePops(c) ==
    \/ at[c] # "waits" /\ queue_ # <<>> /\ BoundedQueue!Dequeue(c)
    \/ at[c] # "waits" /\ queue_ = <<>> /\ BoundedQueue!PopFails(c)
    \/ at[c] # "waits" /\ queue_ = <<>> /\ ~closed_ /\ BoundedQueue!WaitForValue(c)

LEMMA BoundedActions ==
    ASSUME BoundedQueue!Next
    PROVE  \/ \E p \in Producers : QueuePushes(p)
           \/ \E c \in Consumers : QueuePops(c)
           \/ \E f \in Fibers : BoundedQueue!Expire(f) \/ BoundedQueue!Close(f)
<1>1. ASSUME NEW p \in Producers, NEW v \in Values,
             \/ BoundedQueue!Push(p, v) \/ BoundedQueue!PushWaitUntil(p, v)
             \/ BoundedQueue!TryPush(p, v) \/ BoundedQueue!PushUnbounded(p, v)
      PROVE  QueuePushes(p)
  BY <1>1 DEF QueuePushes, BoundedQueue!Push, BoundedQueue!PushWaitUntil, BoundedQueue!TryPush,
              BoundedQueue!PushUnbounded, BoundedQueue!PushOrWait
<1>2. ASSUME NEW p \in Producers, BoundedQueue!PushResumes(p) \/ BoundedQueue!PushTimesOut(p)
      PROVE  QueuePushes(p)
  <2>1. BoundedQueue!PushTimesOut(p) => at[p] # "waits"
    BY DEF BoundedQueue!PushTimesOut
  <2> QED BY <1>2, <2>1 DEF QueuePushes
<1>3. ASSUME NEW c \in Consumers,
             BoundedQueue!Pop(c) \/ BoundedQueue!PopResumes(c) \/ BoundedQueue!PopTimesOut(c)
      PROVE  QueuePops(c)
  BY <1>3 DEF QueuePops, BoundedQueue!Pop, BoundedQueue!PopResumes, BoundedQueue!PopTimesOut,
              BoundedQueue!IsEmpty
<1> QED BY <1>1, <1>2, <1>3, QueueConstants DEF BoundedQueue!Next

LEMMA BoundedKeepsQueue ==
    ASSUME QueueInv, BoundedQueue!Next
    PROVE  QueueInv'
<1>1. ASSUME NEW p \in Producers, QueuePushes(p) PROVE QueueInv'
  <2>1. at[p] # "runs" => value[p] \in Values
    BY DEF QueueInv
  <2> QED BY <1>1, <2>1, EnqueueStep, WaitForRoomStep, GivesUpStep DEF QueuePushes, BoundedQueue!PushResumes
<1>2. ASSUME NEW c \in Consumers, QueuePops(c) PROVE QueueInv'
  <2>1. at \in [Fibers -> QueuePlaces]
    BY DEF QueueInv, QueuePlaces
  <2> QED BY <1>2, <2>1, DequeueTakes, DequeueStep, EmptyStep DEF QueuePops
<1> QED BY <1>1, <1>2, BoundedActions, QueueExpires, QueueCloses

\* A bounded_channel wakes its producers before it runs low.
LEMMA BoundedStep ==
    ASSUME QueueInv, BoundedInv, BoundedQueue!Next
    PROVE  BoundedInv'
<1>1. /\ queue_ \in Seq(Values) /\ Len(queue_) \in Nat /\ at \in [Fibers -> QueuePlaces]
      /\ Len(queue_) <= Hwm /\ \A p \in Producers : at[p] = "waits" => Len(queue_) > Lwm
      /\ \A p \in Producers : at[p] = "waits" => p \in ToSet(not_full_)
      /\ Hwm \in Nat /\ Lwm \in Nat /\ Lwm < Hwm
      /\ not_empty_ \in Seq(Consumers)
  BY QueueConstants DEF QueueInv, BoundedInv, IsLinkedOnce, QueuePlaces
<1>2. ASSUME NEW p \in Producers, NEW v, ~BoundedQueue!IsFull, BoundedQueue!Enqueue(p, v), v \in Values
      PROVE  BoundedInv'
  <2>1. queue_' = Append(queue_, v) /\ BoundedQueue!GoOn(p, "runs", NotifyOne(not_empty_))
    BY <1>2, QueueQueues DEF BoundedQueue!Enqueue, BoundedQueue!PushTail
  <2>2. Went(NotifyOne(not_empty_), p, "runs")
    BY <1>1, <2>1, GoesOnTo, QueueConstants DEF QueuePlaces
  <2>3. \A q \in Producers : at'[q] = "waits" => at[q] = "waits"
    BY <2>2, QueueConstants DEF Went
  <2>4. Len(queue_') = Len(queue_) + 1 /\ Len(queue_) < Hwm
    BY <1>1, <1>2, <2>1 DEF BoundedQueue!IsFull
  <2> QED BY <1>1, <2>3, <2>4 DEF BoundedInv
<1>3. ASSUME NEW p \in Producers, NEW v, BoundedQueue!IsFull, BoundedQueue!WaitForRoom(p, v)
      PROVE  BoundedInv'
  <2>1. queue_' = queue_ /\ Len(queue_) > Lwm
    BY <1>1, <1>3 DEF BoundedQueue!WaitForRoom, BoundedQueue!IsFull
  <2> QED BY <1>1, <2>1 DEF BoundedInv
<1>4. ASSUME NEW p \in Producers, BoundedQueue!PushTimesOut(p)
      PROVE  BoundedInv'
  <2>1. queue_' = queue_ /\ at' = [at EXCEPT ![p] = "runs"]
    BY <1>4 DEF BoundedQueue!PushTimesOut
  <2>2. \A q \in Producers : at'[q] = "waits" => at[q] = "waits"
    BY <1>1, <2>1, QueueConstants
  <2> QED BY <1>1, <2>1, <2>2 DEF BoundedInv
<1>5. ASSUME NEW c \in Consumers, queue_ # <<>>, BoundedQueue!Dequeue(c)
      PROVE  BoundedInv'
  <2>1. queue_' = Tail(queue_) /\ Len(queue_') = Len(queue_) - 1
    BY <1>1, <1>5 DEF BoundedQueue!Dequeue
  <2>2. CASE Len(queue_) - 1 <= Lwm
    <3>1. BoundedQueue!GoOn(c, "runs", ToSet(not_full_))
      BY <1>5, <2>2, QueueQueues DEF BoundedQueue!Dequeue, BoundedQueue!IsLow
    <3>2. Went(ToSet(not_full_), c, "runs")
      BY <1>1, <3>1, GoesOnTo, QueueConstants DEF QueuePlaces
    <3>3. \A q \in Producers : at'[q] # "waits"
      BY <1>1, <3>2, QueueConstants DEF Went
    <3> QED BY <1>1, <2>1, <3>3 DEF BoundedInv
  <2>3. CASE ~(Len(queue_) - 1 <= Lwm)
    BY <1>1, <2>1, <2>3 DEF BoundedInv
  <2> QED BY <2>2, <2>3
<1>6. ASSUME NEW c \in Consumers, BoundedQueue!PopFails(c) \/ BoundedQueue!WaitForValue(c)
      PROVE  BoundedInv'
  <2>1. queue_' = queue_ /\ \E place \in QueuePlaces : at' = [at EXCEPT ![c] = place]
    BY <1>6 DEF BoundedQueue!PopFails, BoundedQueue!WaitForValue, QueuePlaces
  <2>2. \A q \in Producers : at'[q] = at[q]
    BY <1>1, <2>1, QueueConstants
  <2> QED BY <1>1, <2>1, <2>2 DEF BoundedInv
<1>7. ASSUME NEW f \in Fibers, BoundedQueue!Expire(f) \/ BoundedQueue!Close(f)
      PROVE  BoundedInv'
  <2>1. queue_' = queue_ /\ \A g \in Fibers : at'[g] = "waits" => at[g] = "waits"
    BY <1>1, <1>7, QueueConstants DEF BoundedQueue!Expire, BoundedQueue!Close, BoundedQueue!GoOn
  <2> QED BY <1>1, <2>1, QueueConstants DEF BoundedInv
<1>8. ASSUME NEW p \in Producers, QueuePushes(p) PROVE BoundedInv'
  <2>1. at[p] # "runs" => value[p] \in Values
    BY DEF QueueInv
  <2> QED BY <1>2, <1>3, <1>4, <1>8, <2>1 DEF QueuePushes, BoundedQueue!PushResumes
<1>9. ASSUME NEW c \in Consumers, QueuePops(c) PROVE BoundedInv'
  BY <1>5, <1>6, <1>9 DEF QueuePops
<1> QED BY <1>7, <1>8, <1>9, BoundedActions

\* An unbounded_channel keeps nobody back who pushes.
LEMMA UnboundedStep ==
    ASSUME QueueInv, UnboundedInv, UnboundedQueue!Next
    PROVE  QueueInv' /\ UnboundedInv'
<1>1. /\ queue_ \in Seq(Values) /\ Len(queue_) \in Nat /\ at \in [Fibers -> QueuePlaces]
      /\ Len(queue_) <= MaxSize /\ MaxSize \in Nat /\ \A p \in Producers : at[p] = "runs"
      /\ not_empty_ \in Seq(Consumers) /\ not_full_ \in Seq(Producers)
  BY QueueConstants DEF QueueInv, UnboundedInv, QueuePlaces
<1>2. ASSUME NEW p \in Producers, NEW v \in Values, Len(queue_) < MaxSize, BoundedQueue!Enqueue(p, v)
      PROVE  QueueInv' /\ UnboundedInv'
  <2>1. queue_' = Append(queue_, v) /\ BoundedQueue!GoOn(p, "runs", NotifyOne(not_empty_))
    BY <1>2, QueueQueues DEF BoundedQueue!Enqueue, BoundedQueue!PushTail
  <2>2. Went(NotifyOne(not_empty_), p, "runs")
    BY <1>1, <2>1, GoesOnTo, QueueConstants DEF QueuePlaces
  <2>3. \A q \in Producers : at'[q] = "runs"
    BY <1>1, <2>2, QueueConstants DEF Went
  <2>4. Len(queue_') = Len(queue_) + 1
    BY <1>1, <2>1
  <2> QED BY <1>1, <1>2, <2>3, <2>4, EnqueueStep DEF UnboundedInv
<1>3. ASSUME NEW c \in Consumers, NEW W, at[c] # "waits", queue_ # <<>>, Taken(c, W)
      PROVE  QueueInv' /\ UnboundedInv'
  <2>1. Len(queue_') = Len(queue_) - 1
    BY <1>1, <1>3 DEF Taken
  <2>2. \A q \in Producers : at'[q] = "runs"
    BY <1>1, <1>3, QueueConstants DEF Taken, Went
  <2> QED BY <1>1, <1>3, <2>1, <2>2, DequeueStep DEF UnboundedInv
<1>4. ASSUME NEW c \in Consumers, at[c] # "waits", queue_ = <<>>,
             \/ BoundedQueue!PopFails(c)
             \/ ~closed_ /\ BoundedQueue!WaitForValue(c)
      PROVE  QueueInv' /\ UnboundedInv'
  <2>1. queue_' = queue_ /\ \E place \in QueuePlaces : at' = [at EXCEPT ![c] = place]
    BY <1>4 DEF BoundedQueue!PopFails, BoundedQueue!WaitForValue, QueuePlaces
  <2>2. \A q \in Producers : at'[q] = at[q]
    BY <1>1, <2>1, QueueConstants
  <2> QED BY <1>1, <1>4, <2>1, <2>2, EmptyStep DEF UnboundedInv
<1>5. ASSUME NEW f \in Fibers, BoundedQueue!Expire(f) \/ BoundedQueue!Close(f)
      PROVE  QueueInv' /\ UnboundedInv'
  <2>1. queue_' = queue_ /\ \A g \in Fibers : at[g] = "runs" => at'[g] = "runs"
    BY <1>1, <1>5, QueueConstants DEF BoundedQueue!Expire, BoundedQueue!Close, BoundedQueue!GoOn
  <2> QED BY <1>1, <1>5, <2>1, QueueConstants, QueueExpires, QueueCloses DEF UnboundedInv
<1>6. ASSUME NEW p \in Producers, NEW v \in Values,
             \/ UnboundedQueue!Push(p, v) \/ UnboundedQueue!PushWaitUntil(p, v)
             \/ UnboundedQueue!TryPush(p, v) \/ UnboundedQueue!PushUnbounded(p, v)
      PROVE  QueueInv' /\ UnboundedInv'
  <2>1. UnboundedQueue!Enqueue(p, v) /\ Len(queue_) < MaxSize
    BY <1>1, <1>6 DEF UnboundedQueue!Push, UnboundedQueue!PushWaitUntil, UnboundedQueue!TryPush,
                      UnboundedQueue!PushUnbounded, UnboundedQueue!IsFull
  <2> QED BY <1>2, <2>1, SameQueueCalls
<1>7. ASSUME NEW p \in Producers, UnboundedQueue!PushResumes(p) \/ UnboundedQueue!PushTimesOut(p)
      PROVE  FALSE
  BY <1>1, <1>7 DEF UnboundedQueue!PushResumes, UnboundedQueue!PushTimesOut
<1>8. ASSUME NEW c \in Consumers,
             UnboundedQueue!Pop(c) \/ UnboundedQueue!PopResumes(c) \/ UnboundedQueue!PopTimesOut(c)
      PROVE  QueueInv' /\ UnboundedInv'
  <2>1. /\ at[c] # "waits"
        /\ \/ queue_ # <<>> /\ UnboundedQueue!Dequeue(c)
           \/ queue_ = <<>> /\ UnboundedQueue!PopFails(c)
           \/ queue_ = <<>> /\ ~closed_ /\ UnboundedQueue!WaitForValue(c)
    BY <1>8 DEF UnboundedQueue!Pop, UnboundedQueue!PopResumes, UnboundedQueue!PopTimesOut,
                UnboundedQueue!IsEmpty
  <2> QED BY <1>1, <1>3, <1>4, <2>1, DequeueTakes, SameQueueCalls
<1> QED BY <1>5, <1>6, <1>7, <1>8, SameQueueCalls, QueueConstants DEF UnboundedQueue!Next

LEMMA QueueInit == BoundedQueue!Init => QueueInv /\ BoundedInv /\ UnboundedInv
<1> SUFFICES ASSUME BoundedQueue!Init PROVE QueueInv /\ BoundedInv /\ UnboundedInv
  OBVIOUS
<1>1. /\ queue_ = <<>> /\ closed_ = FALSE /\ not_empty_ = <<>> /\ not_full_ = <<>>
      /\ at = [f \in Fibers |-> "runs"] /\ value = [p \in Producers |-> NoValue]
      /\ popped = NoValue
  BY QueueConstants DEF BoundedQueue!Init
<1>2. IsFiniteSet(Inside)
  <2>1. Inside = {}
    BY <1>1 DEF Inside
  <2> QED BY <2>1, FS_EmptySet
<1>3. \A f \in Fibers : at[f] = "runs"
  BY <1>1
<1>4. IsLinkedOnce(Producers, not_full_, "overdue") /\ IsLinkedOnce(Consumers, not_empty_, "overdue")
  <2>1. ToSet(<<>>) = {} /\ IsInjective(<<>>)
    BY DEF ToSet, IsInjective
  <2> QED BY <1>1, <1>3, <2>1, QueueConstants DEF IsLinkedOnce
<1>5. QueueInv
  <2>1. /\ queue_ \in Seq(Values) /\ closed_ \in BOOLEAN
        /\ not_empty_ \in Seq(Consumers) /\ not_full_ \in Seq(Producers)
        /\ at \in [Fibers -> QueuePlaces]
        /\ value \in [Producers -> Values \cup {NoValue}]
        /\ popped \in Values \cup {NoValue}
    <3>1. <<>> \in Seq(Values) /\ <<>> \in Seq(Consumers) /\ <<>> \in Seq(Producers)
      OBVIOUS
    <3>2. at \in [Fibers -> QueuePlaces] /\ value \in [Producers -> Values \cup {NoValue}]
      BY <1>1 DEF QueuePlaces
    <3> QED BY <1>1, <3>1, <3>2
  <2>2. /\ \A p \in Producers : at[p] # "runs" => value[p] \in Values
        /\ \A c \in Consumers : at[c] # "waits"
    BY <1>3, QueueConstants
  <2> QED BY <1>2, <1>4, <2>1, <2>2 DEF QueueInv, QueuePlaces
<1>6. BoundedInv /\ UnboundedInv
  BY <1>1, <1>3, QueueConstants DEF BoundedInv, UnboundedInv
<1> QED BY <1>5, <1>6

LEMMA QueueIsLinked ==
    ASSUME QueueInv
    PROVE  /\ BoundedQueue!SleepersAreLinked
           /\ BoundedInv => BoundedQueue!TypeOK
           /\ UnboundedInv => UnboundedQueue!TypeOK
<1>1. BoundedQueue!SleepersAreLinked
  <2>1. ASSUME NEW side, NEW q \in Seq(side), IsLinkedOnce(side, q, "overdue")
        PROVE  LET Linked == ToSet(q)
                   Asleep == {f \in side : at[f] = "waits"} IN
               /\ IsInjective(q)
               /\ Asleep \subseteq Linked
               /\ Linked \subseteq Asleep \cup {f \in side : at[f] = "overdue"}
    BY <2>1, NobodyLinked DEF IsLinkedOnce
  <2>2. /\ IsLinkedOnce(Producers, not_full_, "overdue") /\ not_full_ \in Seq(Producers)
        /\ IsLinkedOnce(Consumers, not_empty_, "overdue") /\ not_empty_ \in Seq(Consumers)
    BY DEF QueueInv
  <2>3. SUFFICES ASSUME NEW role \in {<<Producers, not_full_>>, <<Consumers, not_empty_>>}
                 PROVE  LET Linked == BoundedQueue!ToSet(role[2])
                            Asleep == {f \in role[1] : at[f] = "waits"} IN
                        /\ BoundedQueue!IsInjective(role[2])
                        /\ Asleep \subseteq Linked
                        /\ Linked \subseteq Asleep \cup {f \in role[1] : at[f] = "overdue"}
    BY DEF BoundedQueue!SleepersAreLinked
  <2>4. PICK side, q : role[1] = side /\ role[2] = q /\ IsLinkedOnce(side, q, "overdue") /\ q \in Seq(side)
    BY <2>2
  <2>5. BoundedQueue!ToSet(q) = ToSet(q) /\ BoundedQueue!IsInjective(q) = IsInjective(q)
    BY QueueQueues
  <2>6. IsInjective(q) => BoundedQueue!IsInjective(q)
    BY DEF IsInjective, BoundedQueue!IsInjective
  <2> QED BY <2>1, <2>4, <2>5, <2>6
<1>2. BoundedInv => BoundedQueue!TypeOK
  BY QueueConstants DEF QueueInv, BoundedInv, BoundedQueue!TypeOK
<1>3. UnboundedInv => UnboundedQueue!TypeOK
  BY QueueConstants DEF QueueInv, UnboundedInv, UnboundedQueue!TypeOK
<1> QED BY <1>1, <1>2, <1>3

LEMMA QueueWakes ==
    ASSUME QueueInv
    PROVE  /\ BoundedQueue!ValuesAwaitNobody /\ UnboundedQueue!ValuesAwaitNobody
           /\ BoundedInv => BoundedQueue!SleepersAwaitLowWatermark
<1> DEFINE Late == {c \in Consumers : at[c] \in {"notified", "overdue"}}
<1>1. Late \subseteq Inside /\ Woken \subseteq Late
  BY QueueConstants DEF Inside, Woken
<1>2. IsFiniteSet(Late)
  BY <1>1, FS_Subset DEF QueueInv
<1>3. Cardinality(Woken) <= Cardinality(Late) /\ Cardinality(Late) \in Nat /\ Cardinality(Woken) \in Nat
  <2>1. IsFiniteSet(Woken) /\ Cardinality(Woken) <= Cardinality(Late)
    BY <1>1, <1>2, FS_Subset
  <2> QED BY <1>2, <2>1, FS_CardinalityType
<1>4. ASSUME NEW c \in Consumers, at[c] = "waits"
      PROVE  ~closed_ /\ Len(queue_) <= Cardinality(Late)
  <2>1. ~closed_ /\ Len(queue_) <= Cardinality(Woken) /\ Len(queue_) \in Nat
    BY <1>4 DEF QueueInv
  <2> QED BY <1>3, <2>1
<1>5. BoundedQueue!ValuesAwaitNobody /\ UnboundedQueue!ValuesAwaitNobody
  <2>1. (\E c \in Consumers : at[c] = "waits") => ~closed_ /\ Len(queue_) <= Cardinality(Late)
    BY <1>4
  <2>2. /\ BoundedQueue!Cardinality(Late) = Cardinality(Late)
        /\ UnboundedQueue!Cardinality(Late) = Cardinality(Late)
    BY DEF Cardinality, BoundedQueue!Cardinality, UnboundedQueue!Cardinality
  <2> QED BY <2>1, <2>2 DEF BoundedQueue!ValuesAwaitNobody, UnboundedQueue!ValuesAwaitNobody
<1> QED BY <1>5 DEF BoundedInv, BoundedQueue!SleepersAwaitLowWatermark

LEMMA BoundedIsBuffer ==
    ASSUME QueueInv, BoundedInv, BoundedQueue!Next
    PROVE  BoundedQueue!AsChannel!Next \/ UNCHANGED BoundedQueue!AsChannel!channelVars
<1>1. queue_ \in Seq(Values) /\ Len(queue_) <= Hwm /\ Hwm \in Nat
      /\ \A p \in Producers : at[p] # "runs" => value[p] \in Values
  BY QueueConstants DEF QueueInv, BoundedInv
<1>2. ASSUME NEW p \in Producers, NEW v \in Values, ~BoundedQueue!IsFull, BoundedQueue!Enqueue(p, v)
      PROVE  BoundedQueue!AsChannel!Next
  <2>1. BoundedQueue!AsChannel!Accept(v)
    BY <1>1, <1>2 DEF BoundedQueue!AsChannel!Accept, BoundedQueue!Enqueue, BoundedQueue!PushTail,
                      BoundedQueue!IsFull
  <2> QED BY <2>1 DEF BoundedQueue!AsChannel!Next
<1>3. ASSUME NEW p \in Producers, QueuePushes(p)
      PROVE  BoundedQueue!AsChannel!Next \/ UNCHANGED <<queue_, closed_, popped>>
  BY <1>1, <1>2, <1>3 DEF QueuePushes, BoundedQueue!PushResumes, BoundedQueue!WaitForRoom,
                          BoundedQueue!PushTimesOut
<1>4. ASSUME NEW c \in Consumers, QueuePops(c)
      PROVE  BoundedQueue!AsChannel!Next \/ UNCHANGED <<queue_, closed_, popped>>
  <2>1. CASE queue_ # <<>> /\ BoundedQueue!Dequeue(c)
    BY <2>1 DEF BoundedQueue!Dequeue, BoundedQueue!AsChannel!Deliver, BoundedQueue!AsChannel!Next
  <2> QED BY <1>4, <2>1 DEF QueuePops, BoundedQueue!PopFails, BoundedQueue!WaitForValue
<1>5. ASSUME NEW f \in Fibers, BoundedQueue!Expire(f) \/ BoundedQueue!Close(f)
      PROVE  BoundedQueue!AsChannel!Next \/ UNCHANGED <<queue_, closed_, popped>>
  BY <1>5 DEF BoundedQueue!Expire, BoundedQueue!Close, BoundedQueue!AsChannel!Close,
              BoundedQueue!AsChannel!Next
<1> QED BY <1>3, <1>4, <1>5, BoundedActions DEF BoundedQueue!AsChannel!channelVars

LEMMA UnboundedIsBuffer ==
    ASSUME QueueInv, UnboundedInv, UnboundedQueue!Next
    PROVE  UnboundedQueue!AsChannel!Next \/ UNCHANGED UnboundedQueue!AsChannel!channelVars
<1>1. queue_ \in Seq(Values) /\ Len(queue_) <= MaxSize /\ MaxSize \in Nat
      /\ \A p \in Producers : at[p] = "runs"
  BY QueueConstants DEF QueueInv, UnboundedInv
<1>2. ASSUME NEW p \in Producers, NEW v \in Values,
             \/ UnboundedQueue!Push(p, v) \/ UnboundedQueue!PushWaitUntil(p, v)
             \/ UnboundedQueue!TryPush(p, v) \/ UnboundedQueue!PushUnbounded(p, v)
      PROVE  UnboundedQueue!AsChannel!Next
  <2>1. UnboundedQueue!Enqueue(p, v) /\ Len(queue_) < MaxSize /\ ~closed_
    BY <1>1, <1>2 DEF UnboundedQueue!Push, UnboundedQueue!PushWaitUntil, UnboundedQueue!TryPush,
                      UnboundedQueue!PushUnbounded, UnboundedQueue!IsFull
  <2>2. UnboundedQueue!AsChannel!Accept(v)
    BY <2>1 DEF UnboundedQueue!AsChannel!Accept, UnboundedQueue!Enqueue, UnboundedQueue!PushTail
  <2> QED BY <2>2 DEF UnboundedQueue!AsChannel!Next
<1>3. ASSUME NEW p \in Producers, UnboundedQueue!PushResumes(p) \/ UnboundedQueue!PushTimesOut(p)
      PROVE  FALSE
  BY <1>1, <1>3 DEF UnboundedQueue!PushResumes, UnboundedQueue!PushTimesOut
<1>4. ASSUME NEW c \in Consumers,
             UnboundedQueue!Pop(c) \/ UnboundedQueue!PopResumes(c) \/ UnboundedQueue!PopTimesOut(c)
      PROVE  UnboundedQueue!AsChannel!Next \/ UNCHANGED <<queue_, closed_, popped>>
  <2>1. \/ queue_ # <<>> /\ UnboundedQueue!Dequeue(c)
        \/ UnboundedQueue!PopFails(c)
        \/ UnboundedQueue!WaitForValue(c)
    BY <1>4 DEF UnboundedQueue!Pop, UnboundedQueue!PopResumes, UnboundedQueue!PopTimesOut,
                UnboundedQueue!IsEmpty
  <2>2. CASE queue_ # <<>> /\ UnboundedQueue!Dequeue(c)
    BY <2>2 DEF UnboundedQueue!Dequeue, UnboundedQueue!AsChannel!Deliver, UnboundedQueue!AsChannel!Next
  <2> QED BY <2>1, <2>2 DEF UnboundedQueue!PopFails, UnboundedQueue!WaitForValue
<1>5. ASSUME NEW f \in Fibers, UnboundedQueue!Expire(f) \/ UnboundedQueue!Close(f)
      PROVE  UnboundedQueue!AsChannel!Next \/ UNCHANGED <<queue_, closed_, popped>>
  BY <1>5 DEF UnboundedQueue!Expire, UnboundedQueue!Close, UnboundedQueue!AsChannel!Close,
              UnboundedQueue!AsChannel!Next
<1> QED BY <1>2, <1>3, <1>4, <1>5, QueueConstants
        DEF UnboundedQueue!Next, UnboundedQueue!AsChannel!channelVars

LEMMA RingFacts ==
    ASSUME RingLinks
    PROVE  /\ TypeOK /\ at \in [Fibers -> RingPlaces]
           /\ waiting_producers_ \in Seq(Producers) /\ waiting_consumers_ \in Seq(Consumers)
           /\ IsLinkedOnce(Producers, waiting_producers_, "expired")
           /\ IsLinkedOnce(Consumers, waiting_consumers_, "expired")
           /\ \A f \in Fibers : at[f] \in {"runs", "ready"} =>
                f \notin ToSet(waiting_producers_) /\ f \notin ToSet(waiting_consumers_)
           /\ \A p \in Producers : p \in Fibers /\ p \notin Consumers /\ p \notin ToSet(waiting_consumers_)
           /\ \A c \in Consumers : c \in Fibers /\ c \notin Producers /\ c \notin ToSet(waiting_producers_)
           /\ value \in [Producers -> Values \cup {NoValue}]
           /\ \A p \in Producers : at[p] # "runs" => value[p] \in Values
           /\ closed_ \in BOOLEAN
           /\ closed_ => waiting_producers_ = <<>> /\ waiting_consumers_ = <<>>
           /\ Producers \cap Consumers = {}
           /\ {"runs", "waits", "expired"} \subseteq RingPlaces
<1>1. /\ TypeOK /\ at \in [Fibers -> RingPlaces]
      /\ waiting_producers_ \in Seq(Producers) /\ waiting_consumers_ \in Seq(Consumers)
      /\ IsLinkedOnce(Producers, waiting_producers_, "expired")
      /\ IsLinkedOnce(Consumers, waiting_consumers_, "expired")
      /\ value \in [Producers -> Values \cup {NoValue}] /\ closed_ \in BOOLEAN
  BY DEF RingLinks, TypeOK, RingPlaces
<1>2. ToSet(waiting_producers_) \subseteq Producers /\ ToSet(waiting_consumers_) \subseteq Consumers
  BY <1>1, NobodyLinked
<1>3. \A f \in Fibers : at[f] \in {"runs", "ready"} =>
                f \notin ToSet(waiting_producers_) /\ f \notin ToSet(waiting_consumers_)
  BY <1>1 DEF IsLinkedOnce
<1> QED BY <1>1, <1>2, <1>3, RingConstants DEF RingLinks, RingPlaces

LEMMA RingPushStep ==
    ASSUME RingLinks, NEW p \in Producers, NEW v \in Values, at[p] \in {"runs", "ready"},
           PushFrom(p, v), UNCHANGED closed_
    PROVE  RingLinks'
<1>1. CASE /\ WakeUp({}, p, "runs")
           /\ value' = [value EXCEPT ![p] = NoValue]
           /\ UNCHANGED <<ringVars, queueVars>>
  <2>1. RingWent({}, p, "runs")
    BY <1>1, RingFacts, RingGoesOn
  <2>2. UNCHANGED <<waiting_producers_, waiting_consumers_>> /\ RingTyped'
    BY <1>1, RingFacts, RingKeepsTypes DEF queueVars
  <2>3. /\ Relinks(Producers, waiting_producers_, waiting_producers_, "expired", p)
        /\ Relinks(Consumers, waiting_consumers_, waiting_consumers_, "expired", p)
    BY <2>1, RingFacts, QueueStays
  <2>4. \A q \in Producers : at'[q] # "runs" => value'[q] \in Values
    BY <1>1, <2>1, RingFacts DEF RingWent
  <2>5. value' \in [Producers -> Values \cup {NoValue}]
    BY <1>1, RingFacts
  <2>7. RingMoves({}, p, "runs")
    BY <2>1, <2>2, <2>3, <2>4, <2>5, RingFacts DEF RingMoves
  <2> QED BY <2>7, RingLinksNext
<1>2. CASE /\ ~closed_ /\ Store(v)
           /\ waiting_consumers_' = Popped(waiting_consumers_)
           /\ WakeUp(NotifyOne(waiting_consumers_), p, "runs")
           /\ value' = [value EXCEPT ![p] = NoValue]
           /\ UNCHANGED waiting_producers_
  <2>1. RingWent(NotifyOne(waiting_consumers_), p, "runs")
    BY <1>2, RingFacts, RingGoesOn
  <2>2. RingTyped'
    BY <1>2, RingFacts, RingKeepsTypes
  <2>3. /\ Relinks(Consumers, waiting_consumers_, waiting_consumers_', "expired", p)
        /\ NotifyOne(waiting_consumers_) \cap Producers = {}
    BY <1>2, <2>1, RingFacts, FirstLeaves
  <2>4. Relinks(Producers, waiting_producers_, waiting_producers_', "expired", p)
    BY <1>2, <2>1, <2>3, RingFacts, QueueStays
  <2>5. \A q \in Producers : at'[q] # "runs" => value'[q] \in Values
    BY <1>2, <2>1, <2>3, RingFacts DEF RingWent
  <2>6. value' \in [Producers -> Values \cup {NoValue}]
    BY <1>2, RingFacts
  <2>7. RingMoves(NotifyOne(waiting_consumers_), p, "runs")
    BY <1>2, <2>1, <2>2, <2>3, <2>4, <2>5, <2>6, RingFacts DEF RingMoves
  <2> QED BY <2>7, RingLinksNext
<1>3. CASE /\ ~closed_
           /\ waiting_producers_' = Append(waiting_producers_, p)
           /\ WakeUp({}, p, "waits")
           /\ value' = [value EXCEPT ![p] = v]
           /\ UNCHANGED <<ringVars, waiting_consumers_>>
  <2>1. RingWent({}, p, "waits")
    BY <1>3, RingFacts, RingGoesOn
  <2>2. RingTyped'
    BY <1>3, RingFacts, RingKeepsTypes
  <2>3. Relinks(Producers, waiting_producers_, waiting_producers_', "expired", p)
    BY <1>3, <2>1, RingFacts, JoinsLast
  <2>4. Relinks(Consumers, waiting_consumers_, waiting_consumers_', "expired", p)
    BY <1>3, <2>1, RingFacts, QueueStays
  <2>5. \A q \in Producers : at'[q] # "runs" => value'[q] \in Values
    BY <1>3, <2>1, RingFacts DEF RingWent
  <2>6. value' \in [Producers -> Values \cup {NoValue}]
    BY <1>3, RingFacts
  <2>7. RingMoves({}, p, "waits")
    BY <1>3, <2>1, <2>2, <2>3, <2>4, <2>5, <2>6, RingFacts DEF RingMoves
  <2> QED BY <2>7, RingLinksNext
<1> QED BY <1>1, <1>2, <1>3 DEF PushFrom

LEMMA RingPopStep ==
    ASSUME RingLinks, NEW c \in Consumers, at[c] \in {"runs", "ready"},
           PopFrom(c), UNCHANGED <<closed_, value>>
    PROVE  RingLinks'
<1>1. ASSUME NEW W, NEW place, RingWent(W, c, place)
      PROVE  \A q \in Producers : at'[q] # "runs" => value'[q] \in Values
  BY <1>1, RingFacts DEF RingWent
<1>2. CASE /\ Fetch
           /\ waiting_producers_' = Popped(waiting_producers_)
           /\ WakeUp(NotifyOne(waiting_producers_), c, "runs")
           /\ UNCHANGED waiting_consumers_
  <2>1. RingWent(NotifyOne(waiting_producers_), c, "runs")
    BY <1>2, RingFacts, RingGoesOn
  <2>2. RingTyped'
    BY <1>2, RingFacts, RingKeepsTypes
  <2>3. /\ Relinks(Producers, waiting_producers_, waiting_producers_', "expired", c)
        /\ NotifyOne(waiting_producers_) \cap Consumers = {}
    BY <1>2, <2>1, RingFacts, FirstLeaves
  <2>4. Relinks(Consumers, waiting_consumers_, waiting_consumers_', "expired", c)
    BY <1>2, <2>1, <2>3, RingFacts, QueueStays
  <2>5. closed_' => waiting_producers_' = <<>> /\ waiting_consumers_' = <<>>
    BY <1>2, RingFacts DEF Popped
  <2>7. RingMoves(NotifyOne(waiting_producers_), c, "runs")
    BY <1>1, <2>1, <2>2, <2>3, <2>4, <2>5, RingFacts DEF RingMoves
  <2> QED BY <2>7, RingLinksNext
<1>3. CASE WakeUp({}, c, "runs") /\ UNCHANGED <<ringVars, queueVars>>
  <2>1. RingWent({}, c, "runs")
    BY <1>3, RingFacts, RingGoesOn
  <2>2. UNCHANGED <<waiting_producers_, waiting_consumers_>> /\ RingTyped'
    BY <1>3, RingFacts, RingKeepsTypes DEF queueVars
  <2>3. /\ Relinks(Producers, waiting_producers_, waiting_producers_, "expired", c)
        /\ Relinks(Consumers, waiting_consumers_, waiting_consumers_, "expired", c)
    BY <2>1, RingFacts, QueueStays
  <2>7. RingMoves({}, c, "runs")
    BY <1>1, <2>1, <2>2, <2>3, RingFacts DEF RingMoves
  <2> QED BY <2>7, RingLinksNext
<1>4. CASE /\ ~closed_
           /\ waiting_consumers_' = Append(waiting_consumers_, c)
           /\ WakeUp({}, c, "waits")
           /\ UNCHANGED <<ringVars, waiting_producers_>>
  <2>1. RingWent({}, c, "waits")
    BY <1>4, RingFacts, RingGoesOn
  <2>2. RingTyped'
    BY <1>4, RingFacts, RingKeepsTypes
  <2>3. Relinks(Consumers, waiting_consumers_, waiting_consumers_', "expired", c)
    BY <1>4, <2>1, RingFacts, JoinsLast
  <2>4. Relinks(Producers, waiting_producers_, waiting_producers_', "expired", c)
    BY <1>4, <2>1, RingFacts, QueueStays
  <2>7. RingMoves({}, c, "waits")
    BY <1>1, <1>4, <2>1, <2>2, <2>3, <2>4, RingFacts DEF RingMoves
  <2> QED BY <2>7, RingLinksNext
<1> QED BY <1>2, <1>3, <1>4 DEF PopFrom

\* A call that neither waits nor wakes anybody.
LEMMA RingTryStep ==
    ASSUME RingLinks, (\E v \in Values : Store(v)) \/ Fetch, UNCHANGED <<closed_, queueVars, at, value>>
    PROVE  RingLinks'
<1>1. RingTyped'
  BY RingFacts, RingKeepsTypes
<1>2. UNCHANGED <<closed_, waiting_producers_, waiting_consumers_, at, value>>
  BY DEF queueVars
<1>3. TypeOK'
  BY <1>1, <1>2, RingFacts DEF TypeOK, RingTyped, RingPlaces
<1> QED BY <1>2, <1>3 DEF RingLinks, IsLinkedOnce

LEMMA RingExpireStep ==
    ASSUME RingLinks, NEW f \in Fibers, Expire(f)
    PROVE  RingLinks'
<1>1. /\ at[f] = "waits" /\ at' = [at EXCEPT ![f] = "expired"]
      /\ UNCHANGED <<ringVars, closed_, queueVars, value>>
  BY DEF Expire
<1>2. RingTyped' /\ UNCHANGED <<closed_, waiting_producers_, waiting_consumers_, value>>
  BY <1>1, RingFacts, RingKeepsTypes DEF queueVars
<1>3. RingWent({}, f, "expired")
  BY <1>1, RingFacts DEF RingWent, RingPlaces
<1>4. \A g \in Fibers : at'[g] # at[g] => at'[g] = "expired"
  BY <1>3 DEF RingWent
<1>5. /\ LinkedNext(Producers, waiting_producers_, "expired")
      /\ LinkedNext(Consumers, waiting_consumers_, "expired")
  BY <1>4, LinksStay, RingFacts
<1>6. \A p \in Producers : at'[p] # "runs" => value'[p] \in Values
  BY <1>1, <1>2, <1>3, RingFacts DEF RingWent
<1>7. TypeOK'
  BY <1>2, <1>3, RingFacts DEF TypeOK, RingTyped, RingWent, RingPlaces
<1> QED BY <1>2, <1>5, <1>6, <1>7, RingFacts DEF RingLinks, LinkedNext, IsLinkedOnce

LEMMA RingTimesOutStep ==
    ASSUME RingLinks, (\E p \in Producers : PushTimesOut(p)) \/ (\E c \in Consumers : PopTimesOut(c))
    PROVE  RingLinks'
<1>1. ASSUME NEW p \in Producers, PushTimesOut(p) PROVE RingLinks'
  <2>1. /\ waiting_producers_' = Without(waiting_producers_, p)
        /\ WakeUp({}, p, "runs")
        /\ value' = [value EXCEPT ![p] = NoValue]
        /\ UNCHANGED <<ringVars, closed_, waiting_consumers_>>
    BY <1>1 DEF PushTimesOut
  <2>2. RingWent({}, p, "runs") /\ RingTyped'
    BY <2>1, RingFacts, RingGoesOn, RingKeepsTypes
  <2>3. /\ Relinks(Producers, waiting_producers_, waiting_producers_', "expired", p)
        /\ waiting_producers_ = <<>> => waiting_producers_' = <<>>
    BY <2>1, <2>2, RingFacts, LeavesLate
  <2>4. Relinks(Consumers, waiting_consumers_, waiting_consumers_', "expired", p)
    BY <2>1, <2>2, RingFacts, QueueStays
  <2>5. \A q \in Producers : at'[q] # "runs" => value'[q] \in Values
    BY <2>1, <2>2, RingFacts DEF RingWent
  <2>6. value' \in [Producers -> Values \cup {NoValue}]
    BY <2>1, RingFacts
  <2>7. RingMoves({}, p, "runs")
    BY <2>1, <2>2, <2>3, <2>4, <2>5, <2>6, RingFacts DEF RingMoves
  <2> QED BY <2>7, RingLinksNext
<1>2. ASSUME NEW c \in Consumers, PopTimesOut(c) PROVE RingLinks'
  <2>1. /\ waiting_consumers_' = Without(waiting_consumers_, c)
        /\ WakeUp({}, c, "runs")
        /\ UNCHANGED <<ringVars, closed_, waiting_producers_, value>>
    BY <1>2 DEF PopTimesOut
  <2>2. RingWent({}, c, "runs") /\ RingTyped'
    BY <2>1, RingFacts, RingGoesOn, RingKeepsTypes
  <2>3. /\ Relinks(Consumers, waiting_consumers_, waiting_consumers_', "expired", c)
        /\ waiting_consumers_ = <<>> => waiting_consumers_' = <<>>
    BY <2>1, <2>2, RingFacts, LeavesLate
  <2>4. Relinks(Producers, waiting_producers_, waiting_producers_', "expired", c)
    BY <2>1, <2>2, RingFacts, QueueStays
  <2>5. \A q \in Producers : at'[q] # "runs" => value'[q] \in Values
    BY <2>1, <2>2, RingFacts DEF RingWent
  <2>7. RingMoves({}, c, "runs")
    BY <2>1, <2>2, <2>3, <2>4, <2>5, RingFacts DEF RingMoves
  <2> QED BY <2>7, RingLinksNext
<1> QED BY <1>1, <1>2

LEMMA RingCloseStep ==
    ASSUME RingLinks, NEW f \in Fibers, Close(f)
    PROVE  RingLinks'
<1> DEFINE W == ToSet(waiting_producers_) \cup ToSet(waiting_consumers_)
<1>1. /\ at[f] = "runs" /\ closed_' = TRUE
      /\ waiting_producers_' = <<>> /\ waiting_consumers_' = <<>>
      /\ WakeUp(W, f, "runs") /\ UNCHANGED <<ringVars, value>>
  BY DEF Close
<1>2. \A g \in Fibers : at[g] = "waits" => g \in W
  BY RingFacts, RingConstants DEF IsLinkedOnce
<1> HIDE DEF W
<1>3. RingWent(W, f, "runs") /\ RingTyped'
  BY <1>1, RingFacts, RingGoesOn, RingKeepsTypes
<1>4. \A g \in Fibers : at'[g] # "waits"
  BY <1>2, <1>3 DEF RingWent
<1>5. ToSet(<<>>) = {} /\ IsInjective(<<>>)
  BY DEF ToSet, IsInjective
<1>6. \A p \in Producers : at'[p] # "runs" => value'[p] \in Values
  BY <1>1, <1>3, RingFacts DEF RingWent
<1>7. TypeOK'
  BY <1>1, <1>3, RingFacts DEF TypeOK, RingTyped, RingWent, RingPlaces
<1> QED BY <1>1, <1>4, <1>5, <1>6, <1>7, RingConstants DEF RingLinks, IsLinkedOnce

\* Without deadlines the calls are the same.
LEMMA SameRingCalls ==
    /\ \A p, v : Waiting!PushFrom(p, v) <=> PushFrom(p, v)
    /\ \A c : Waiting!PopFrom(c) <=> PopFrom(c)
    /\ \A f : Waiting!Close(f) <=> Close(f)
    /\ Waiting!Fibers = Fibers
<1>1. Waiting!Fibers = Fibers
  BY DEF Waiting!Fibers, Fibers
<1>2. ASSUME NEW p, NEW v PROVE Waiting!PushFrom(p, v) <=> PushFrom(p, v)
  BY DEF Waiting!PushFrom, PushFrom, Waiting!Store, Store, Waiting!WakeUp, WakeUp,
         Waiting!Readied, Readied, Waiting!Fibers, Fibers, Waiting!NotifyOne, NotifyOne,
         Waiting!Popped, Popped, Waiting!IsFull, IsFull, Waiting!Diff, Diff, Waiting!SlotOf, SlotOf,
         Waiting!ringVars, ringVars, Waiting!queueVars, queueVars
<1>3. ASSUME NEW c PROVE Waiting!PopFrom(c) <=> PopFrom(c)
  BY DEF Waiting!PopFrom, PopFrom, Waiting!Fetch, Fetch, Waiting!WakeUp, WakeUp,
         Waiting!Readied, Readied, Waiting!Fibers, Fibers, Waiting!NotifyOne, NotifyOne,
         Waiting!Popped, Popped, Waiting!IsEmpty, IsEmpty, Waiting!Diff, Diff, Waiting!SlotOf, SlotOf,
         Waiting!FirstValue, FirstValue, Waiting!NextCycle, NextCycle,
         Waiting!ringVars, ringVars, Waiting!queueVars, queueVars
<1>4. ASSUME NEW f PROVE Waiting!Close(f) <=> Close(f)
  BY DEF Waiting!Close, Close, Waiting!WakeUp, WakeUp, Waiting!Readied, Readied,
         Waiting!Fibers, Fibers, Waiting!ToSet, ToSet, Waiting!ringVars, ringVars
<1> QED BY <1>1, <1>2, <1>3, <1>4

\* The steps of the ring; those of push() and pop() without deadlines are the first three.
UntimedStep ==
    \/ \E p \in Producers : \E v \in Values :
        at[p] \in {"runs", "ready"} /\ PushFrom(p, v) /\ UNCHANGED closed_
    \/ \E c \in Consumers : at[c] \in {"runs", "ready"} /\ PopFrom(c) /\ UNCHANGED <<closed_, value>>
    \/ \E f \in Fibers : Close(f)

OtherStep ==
    \/ /\ (\E v \in Values : ~closed_ /\ Store(v)) \/ Fetch
       /\ UNCHANGED <<closed_, queueVars, at, value>>
    \/ \E f \in Fibers : Expire(f)
    \/ \E p \in Producers : PushTimesOut(p)
    \/ \E c \in Consumers : PopTimesOut(c)

LEMMA RingActions ==
    ASSUME RingLinks
    PROVE  /\ Waiting!Next => UntimedStep
           /\ Next => UntimedStep \/ OtherStep
<1>1. \A p \in Producers : at[p] = "ready" => value[p] \in Values
  BY DEF RingLinks
<1>2. Waiting!Next => UntimedStep
  <2>1. ASSUME NEW p \in Producers, NEW v \in Values, Waiting!Push(p, v) \/ Waiting!TryPush(p, v)
        PROVE  UntimedStep
    BY <2>1, SameRingCalls DEF Waiting!Push, Waiting!TryPush, UntimedStep
  <2>2. ASSUME NEW p \in Producers, Waiting!PushAgain(p) \/ Waiting!PushTimesOut(p)
        PROVE  UntimedStep
    BY <1>1, <2>2, SameRingCalls DEF Waiting!PushAgain, Waiting!PushTimesOut, UntimedStep
  <2>3. ASSUME NEW c \in Consumers,
               Waiting!Pop(c) \/ Waiting!PopAgain(c) \/ Waiting!TryPop(c) \/ Waiting!PopTimesOut(c)
        PROVE  UntimedStep
    BY <2>3, SameRingCalls DEF Waiting!Pop, Waiting!PopAgain, Waiting!TryPop, Waiting!PopTimesOut,
                               UntimedStep
  <2>4. ASSUME NEW f \in Fibers, Waiting!Expire(f) \/ Waiting!Close(f)
        PROVE  UntimedStep
    BY <2>4, SameRingCalls DEF Waiting!Expire, UntimedStep
  <2> QED BY <2>1, <2>2, <2>3, <2>4, SameRingCalls DEF Waiting!Next
<1>3. Next => UntimedStep \/ OtherStep
  <2>1. ASSUME NEW p \in Producers, NEW v \in Values, Push(p, v) \/ TryPush(p, v)
        PROVE  UntimedStep \/ OtherStep
    BY <2>1 DEF Push, TryPush, UntimedStep, OtherStep
  <2>2. ASSUME NEW p \in Producers, PushAgain(p) \/ PushTimesOut(p)
        PROVE  UntimedStep \/ OtherStep
    BY <1>1, <2>2 DEF PushAgain, UntimedStep, OtherStep
  <2>3. ASSUME NEW c \in Consumers, Pop(c) \/ PopAgain(c) \/ TryPop(c) \/ PopTimesOut(c)
        PROVE  UntimedStep \/ OtherStep
    BY <2>3 DEF Pop, PopAgain, TryPop, UntimedStep, OtherStep
  <2> QED BY <2>1, <2>2, <2>3 DEF Next, UntimedStep, OtherStep
<1> QED BY <1>2, <1>3

LEMMA RingStep == RingLinks /\ (Waiting!Next \/ Next) => RingLinks'
<1> SUFFICES ASSUME RingLinks, Waiting!Next \/ Next PROVE RingLinks'
  OBVIOUS
<1>1. CASE UntimedStep
  BY <1>1, RingPushStep, RingPopStep, RingCloseStep DEF UntimedStep
<1>2. CASE OtherStep
  BY <1>2, RingTryStep, RingExpireStep, RingTimesOutStep DEF OtherStep
<1> QED BY <1>1, <1>2, RingActions

\* What becomes of the ring itself.
LEMMA RingChanges ==
    ASSUME RingLinks, Waiting!Next \/ Next
    PROVE  \/ (\E v \in Values : ~closed_ /\ Store(v)) /\ UNCHANGED closed_
           \/ Fetch /\ UNCHANGED closed_
           \/ UNCHANGED <<ringVars, closed_>>
           \/ UNCHANGED ringVars /\ closed_' = TRUE
<1>1. CASE UntimedStep
  BY <1>1 DEF UntimedStep, PushFrom, PopFrom, Close
<1>2. CASE OtherStep
  BY <1>2 DEF OtherStep, Expire, PushTimesOut, PopTimesOut
<1> QED BY <1>1, <1>2, RingActions

LEMMA CyclesStep ==
    ASSUME RingLinks, CyclesInv, Capacity > 1, Waiting!Next \/ Next
    PROVE  CyclesInv' /\ (AsChannel!Next \/ UNCHANGED AsChannel!channelVars)
<1>1. TypeOK
  BY DEF RingLinks
<1>2. CASE (\E v \in Values : ~closed_ /\ Store(v)) /\ UNCHANGED closed_
  <2>1. PICK v \in Values : ~closed_ /\ Store(v)
    BY <1>2
  <2>2. /\ CyclesInv' /\ Count < Capacity /\ Content' = Append(Content, v) /\ popped' = popped
    BY <1>1, <2>1, StoreFills
  <2>3. Len(Content) = Count
    BY <1>1, RingIndices DEF Content
  <2>4. AsChannel!Accept(v)
    BY <1>2, <2>1, <2>2, <2>3 DEF AsChannel!Accept
  <2> QED BY <2>2, <2>4 DEF AsChannel!Next
<1>3. CASE Fetch /\ UNCHANGED closed_
  <2>1. /\ CyclesInv' /\ Content # <<>> /\ popped' = Head(Content) /\ Content' = Tail(Content)
    BY <1>1, <1>3, FetchFrees
  <2> QED BY <1>3, <2>1 DEF AsChannel!Deliver, AsChannel!Next
<1>4. CASE UNCHANGED <<ringVars, closed_>>
  BY <1>4, CyclesRest DEF AsChannel!channelVars
<1>5. CASE UNCHANGED ringVars /\ closed_' = TRUE
  <2>1. CyclesInv' /\ Content' = Content /\ popped' = popped
    BY <1>5, CyclesRest
  <2> QED BY <1>5, <2>1 DEF AsChannel!Close, AsChannel!Next
<1> QED BY <1>2, <1>3, <1>4, <1>5, RingChanges

\* Who has been notified, and what becomes of them in a step.
Ready(side) == {f \in side : at[f] = "ready"}
ReadyNext(side) == {f \in side : at'[f] = "ready"}

LEMMA ReadyAreFew ==
    ASSUME IsFiniteSet(Inside), NEW side \in {Producers, Consumers}
    PROVE  IsFiniteSet(Ready(side)) /\ Cardinality(Ready(side)) \in Nat
<1>1. Ready(side) \subseteq Inside
  BY RingConstants DEF Ready, Inside
<1> QED BY <1>1, FS_Subset, FS_CardinalityType

\* At most f itself is not ready any more.
LEMMA ReadyStay ==
    ASSUME IsFiniteSet(Inside), NEW side \in {Producers, Consumers}, NEW W, NEW f \in Fibers,
           NEW place \in {"runs", "waits"}, RingWent(W, f, place), W \cap side = {}
    PROVE  /\ Cardinality(ReadyNext(side)) \in Nat
           /\ Cardinality(ReadyNext(side)) >= Cardinality(Ready(side)) - 1
           /\ f \notin side => Cardinality(ReadyNext(side)) = Cardinality(Ready(side))
<1>1. side \subseteq Fibers
  BY RingConstants
<1>2. ReadyNext(side) = Ready(side) \ {f}
  BY <1>1 DEF ReadyNext, Ready, RingWent
<1>3. IsFiniteSet(Ready(side)) /\ Cardinality(Ready(side)) \in Nat
  BY ReadyAreFew
<1> DEFINE m == Cardinality(ReadyNext(side))
           n == Cardinality(Ready(side))
<1>4. m = IF f \in Ready(side) THEN n - 1 ELSE n
  BY <1>2, <1>3, FS_RemoveElement
<1>5. m \in Nat /\ n \in Nat
  BY <1>2, <1>3, FS_RemoveElement, FS_CardinalityType
<1>6. f \notin side => f \notin Ready(side)
  BY DEF Ready
<1> HIDE DEF m, n
<1>7. m >= n - 1 /\ (f \notin side => m = n)
  BY <1>4, <1>5, <1>6
<1> QED BY <1>5, <1>7 DEF m, n

\* Whoever is notified is ready, and was not before.
LEMMA ReadyGain ==
    ASSUME IsFiniteSet(Inside), NEW side \in {Producers, Consumers}, NEW q \in Seq(side), q # <<>>,
           IsLinkedOnce(side, q, "expired"), \A g \in Fibers : at[g] # "expired",
           NEW f \in Fibers, f \notin side, NEW place, RingWent(NotifyOne(q), f, place)
    PROVE  Cardinality(ReadyNext(side)) = Cardinality(Ready(side)) + 1
<1>1. side \subseteq Fibers /\ IsInjective(q)
  BY RingConstants DEF IsLinkedOnce
<1>2. PICK h : h \in side /\ h \in ToSet(q) /\ NotifyOne(q) = {h}
  BY <1>1, UnlinkFirst DEF NotifyOne
<1>3. at[h] = "waits"
  BY <1>1, <1>2 DEF IsLinkedOnce
<1>4. ReadyNext(side) = Ready(side) \cup {h} /\ h \notin Ready(side)
  BY <1>1, <1>2, <1>3 DEF ReadyNext, Ready, RingWent
<1> QED BY <1>4, ReadyAreFew, FS_AddElement

\* RingWakes after a step, of a ring that holds n values then.
RingWakesNext(n) ==
    /\ waiting_producers_' # <<>> => Capacity - n <= Cardinality(ReadyNext(Producers))
    /\ waiting_consumers_' # <<>> => n <= Cardinality(ReadyNext(Consumers))

LEMMA RingWakesStep ==
    ASSUME RingLinks, RingLinks', CyclesInv, Capacity > 1, RingWakes, UntimedStep
    PROVE  RingWakes'
<1>1. /\ TypeOK /\ IsFiniteSet(Inside) /\ \A f \in Fibers : at[f] # "expired"
      /\ waiting_producers_ # <<>> => Capacity - Count <= Cardinality(Ready(Producers))
      /\ waiting_consumers_ # <<>> => Count <= Cardinality(Ready(Consumers))
      /\ Count \in 0 .. Capacity /\ Capacity \in Nat
      /\ IsFull => Count = Capacity
      /\ IsEmpty => Count = 0
      /\ Cardinality(Ready(Producers)) \in Nat /\ Cardinality(Ready(Consumers)) \in Nat
  <2>1. TypeOK /\ IsFiniteSet(Inside) /\ \A f \in Fibers : at[f] # "expired"
    BY DEF RingLinks, RingWakes
  <2> QED BY <2>1, RingIndices, CyclesTell, ReadyAreFew, RingConstants
          DEF RingWakes, NobodyIsStranded, Ready, CyclesTellCount
<1>2. ASSUME NEW W, NEW f \in Fibers, at[f] # "waits", NEW place \in {"runs", "waits"},
             RingWent(W, f, place), NEW n, n = Count', RingWakesNext(n)
      PROVE  RingWakes'
  <2>1. IsFiniteSet(Inside')
    <3>1. \A g \in Fibers \ {f} : at[g] = "runs" => at'[g] = "runs"
      BY <1>2 DEF RingWent
    <3> QED BY <1>1, <3>1, InsideFew
  <2>2. \A g \in Fibers : at'[g] # "expired"
    BY <1>1, <1>2 DEF RingWent
  <2>3. NobodyIsStranded'
    BY <1>2 DEF NobodyIsStranded, RingWakesNext, ReadyNext
  <2> QED BY <2>1, <2>2, <2>3 DEF RingWakes
<1>3. ASSUME NEW W, NEW f \in Fibers, at[f] # "waits", RingWent(W, f, "runs"), closed_'
      PROVE  RingWakes'
  <2>1. waiting_producers_' = <<>> /\ waiting_consumers_' = <<>>
    BY <1>3 DEF RingLinks
  <2>2. PICK n : n = Count'
    OBVIOUS
  <2>3. RingWakesNext(n)
    BY <2>1 DEF RingWakesNext
  <2> QED BY <1>2, <1>3, <2>2, <2>3
<1>4. ASSUME NEW p \in Producers, NEW v \in Values, at[p] \in {"runs", "ready"},
             PushFrom(p, v), UNCHANGED closed_
      PROVE  RingWakes'
  <2>1. CASE closed_ /\ WakeUp({}, p, "runs")
    <3>1. RingWent({}, p, "runs")
      BY <2>1, RingFacts, RingGoesOn
    <3> QED BY <1>3, <1>4, <2>1, <3>1, RingFacts
  <2>2. CASE /\ ~closed_ /\ Store(v)
             /\ waiting_consumers_' = Popped(waiting_consumers_)
             /\ WakeUp(NotifyOne(waiting_consumers_), p, "runs")
             /\ UNCHANGED waiting_producers_
    <3>1. RingWent(NotifyOne(waiting_consumers_), p, "runs")
      BY <2>2, RingFacts, RingGoesOn
    <3>2. Count' = Count + 1
      BY <1>1, <2>2, StoreFills
    <3>3. NotifyOne(waiting_consumers_) \cap Producers = {}
      BY <3>1, RingFacts, FirstLeaves
    <3>4. /\ Cardinality(ReadyNext(Producers)) \in Nat
          /\ Cardinality(ReadyNext(Producers)) >= Cardinality(Ready(Producers)) - 1
      BY <1>1, <3>1, <3>3, RingFacts, ReadyStay
    <3>5. waiting_consumers_ # <<>> =>
            Cardinality(ReadyNext(Consumers)) = Cardinality(Ready(Consumers)) + 1
      BY <1>1, <3>1, RingFacts, ReadyGain
    <3>6. waiting_consumers_' # <<>> => waiting_consumers_ # <<>>
      BY <2>2 DEF Popped
    <3>7. RingWakesNext(Count + 1)
      <4> DEFINE n == Count
                 a == Cardinality(Ready(Producers))
                 b == Cardinality(ReadyNext(Producers))
      <4>1. n \in Int /\ a \in Int /\ b \in Int /\ b >= a - 1 /\ Capacity \in Int
        BY <1>1, <3>4
      <4>2. waiting_producers_' # <<>> => Capacity - n <= a
        BY <1>1, <2>2
      <4> HIDE DEF n, a, b
      <4>3. waiting_producers_' # <<>> => Capacity - (n + 1) <= b
        BY <4>1, <4>2
      <4>4. waiting_producers_' # <<>> => Capacity - (Count + 1) <= Cardinality(ReadyNext(Producers))
        BY <4>3 DEF n, b
      <4>5. waiting_consumers_' # <<>> => Count + 1 <= Cardinality(ReadyNext(Consumers))
        BY <1>1, <3>5, <3>6
      <4> QED BY <4>4, <4>5 DEF RingWakesNext
    <3> QED BY <1>2, <1>4, <3>1, <3>2, <3>7, RingFacts
  <2>3. CASE /\ IsFull /\ WakeUp({}, p, "waits") /\ UNCHANGED <<ringVars, waiting_consumers_>>
    <3>1. RingWent({}, p, "waits")
      BY <2>3, RingFacts, RingGoesOn
    <3>2. Count' = Count
      BY <2>3, CyclesRest
    <3>3. /\ Cardinality(ReadyNext(Producers)) \in Nat
          /\ Cardinality(ReadyNext(Consumers)) = Cardinality(Ready(Consumers))
      BY <1>1, <3>1, RingFacts, ReadyStay
    <3>4. RingWakesNext(Count)
      BY <1>1, <2>3, <3>3 DEF RingWakesNext
    <3> QED BY <1>2, <1>4, <3>1, <3>2, <3>4, RingFacts
  <2> QED BY <1>4, <2>1, <2>2, <2>3 DEF PushFrom
<1>5. ASSUME NEW c \in Consumers, at[c] \in {"runs", "ready"}, PopFrom(c), UNCHANGED <<closed_, value>>
      PROVE  RingWakes'
  <2>1. CASE closed_ /\ WakeUp({}, c, "runs")
    <3>1. RingWent({}, c, "runs")
      BY <2>1, RingFacts, RingGoesOn
    <3> QED BY <1>3, <1>5, <2>1, <3>1, RingFacts
  <2>2. CASE /\ Fetch
             /\ waiting_producers_' = Popped(waiting_producers_)
             /\ WakeUp(NotifyOne(waiting_producers_), c, "runs")
             /\ UNCHANGED waiting_consumers_
    <3>1. RingWent(NotifyOne(waiting_producers_), c, "runs")
      BY <2>2, RingFacts, RingGoesOn
    <3>2. Count' = Count - 1
      BY <1>1, <2>2, FetchFrees
    <3>3. NotifyOne(waiting_producers_) \cap Consumers = {}
      BY <3>1, RingFacts, FirstLeaves
    <3>4. /\ Cardinality(ReadyNext(Consumers)) \in Nat
          /\ Cardinality(ReadyNext(Consumers)) >= Cardinality(Ready(Consumers)) - 1
      BY <1>1, <3>1, <3>3, RingFacts, ReadyStay
    <3>5. waiting_producers_ # <<>> =>
            Cardinality(ReadyNext(Producers)) = Cardinality(Ready(Producers)) + 1
      BY <1>1, <3>1, RingFacts, ReadyGain
    <3>6. waiting_producers_' # <<>> => waiting_producers_ # <<>>
      BY <2>2 DEF Popped
    <3>7. RingWakesNext(Count - 1)
      <4> DEFINE n == Count
                 a == Cardinality(Ready(Consumers))
                 b == Cardinality(ReadyNext(Consumers))
                 d == Cardinality(Ready(Producers))
                 e == Cardinality(ReadyNext(Producers))
      <4>1. n \in Int /\ a \in Int /\ b \in Int /\ b >= a - 1 /\ Capacity \in Int /\ d \in Int
        BY <1>1, <3>4
      <4>2. waiting_consumers_' # <<>> => n <= a
        BY <1>1, <2>2
      <4>3. waiting_producers_' # <<>> => Capacity - n <= d /\ e = d + 1
        BY <1>1, <3>5, <3>6
      <4> HIDE DEF n, a, b, d, e
      <4>4. waiting_consumers_' # <<>> => n - 1 <= b
        BY <4>1, <4>2
      <4>5. waiting_producers_' # <<>> => Capacity - (n - 1) <= e
        BY <4>1, <4>3
      <4> QED BY <4>4, <4>5 DEF RingWakesNext, n, b, e
    <3> QED BY <1>2, <1>5, <3>1, <3>2, <3>7, RingFacts
  <2>3. CASE /\ IsEmpty /\ WakeUp({}, c, "waits") /\ UNCHANGED <<ringVars, waiting_producers_>>
    <3>1. RingWent({}, c, "waits")
      BY <2>3, RingFacts, RingGoesOn
    <3>2. Count' = Count
      BY <2>3, CyclesRest
    <3>3. /\ Cardinality(ReadyNext(Consumers)) \in Nat
          /\ Cardinality(ReadyNext(Producers)) = Cardinality(Ready(Producers))
      BY <1>1, <3>1, RingFacts, ReadyStay
    <3>4. RingWakesNext(Count)
      BY <1>1, <2>3, <3>3 DEF RingWakesNext
    <3> QED BY <1>2, <1>5, <3>1, <3>2, <3>4, RingFacts
  <2> QED BY <1>5, <2>1, <2>2, <2>3 DEF PopFrom
<1>6. ASSUME NEW f \in Fibers, Close(f)
      PROVE  RingWakes'
  <2>1. /\ at[f] = "runs" /\ closed_' = TRUE
        /\ WakeUp(ToSet(waiting_producers_) \cup ToSet(waiting_consumers_), f, "runs")
    BY <1>6 DEF Close
  <2>2. RingWent(ToSet(waiting_producers_) \cup ToSet(waiting_consumers_), f, "runs")
    BY <2>1, RingFacts, RingGoesOn
  <2> QED BY <1>3, <2>1, <2>2
<1> QED BY <1>4, <1>5, <1>6 DEF UntimedStep

(***************************************************************************)
(* The channels together.                                                  *)
(***************************************************************************)

IsBounded == kind = "bounded queue"
IsUnbounded == kind = "unbounded queue"

\* What links the fibers, and what passes values on by hand.
LinksInv ==
    /\ IsRing => RingLinks
    /\ IsRendezvous => RendezvousInv
    /\ IsQueue => QueueInv
    /\ IsBounded => BoundedInv
    /\ IsUnbounded => UnboundedInv
    /\ kind = "rendezvous" => RendezvousWakes
    /\ ~IsRendezvous => slot_ = NoFiber /\ status = [p \in Producers |-> "none"]
    /\ IsRing \/ IsRendezvous \/ IsBounded \/ IsUnbounded

\* What a ring of at least two slots counts.
SlotsInv ==
    /\ IsRing => CyclesInv
    /\ kind = "ring" => RingWakes

LEMMA RingInit == Init => RingLinks /\ CyclesInv /\ RingWakes /\ Content = <<>>
<1> SUFFICES ASSUME Init PROVE RingLinks /\ CyclesInv /\ RingWakes /\ Content = <<>>
  OBVIOUS
<1>1. /\ producer_idx_ = 0 /\ consumer_idx_ = 0
      /\ cycle = [i \in Slots |-> i] /\ storage = [i \in Slots |-> NoValue]
      /\ closed_ = FALSE /\ waiting_producers_ = <<>> /\ waiting_consumers_ = <<>>
      /\ at = [f \in Fibers |-> "runs"] /\ value = [p \in Producers |-> NoValue]
      /\ popped = NoValue
  BY DEF Init
<1>2. \A f \in Fibers : at[f] = "runs"
  BY <1>1
<1>3. Slots \subseteq Words /\ 0 \in Words
  BY RingConstants DEF Slots, Words
<1>4. TypeOK
  <2>1. <<>> \in Seq(Producers) /\ <<>> \in Seq(Consumers)
    OBVIOUS
  <2>2. /\ at \in [Fibers -> {"runs", "waits", "ready", "expired"}]
        /\ value \in [Producers -> Values \cup {NoValue}]
        /\ storage \in [Slots -> Values \cup {NoValue}] /\ cycle \in [Slots -> Words]
    BY <1>1, <1>3
  <2> QED BY <1>1, <1>3, <2>1, <2>2 DEF TypeOK
<1>5. RingLinks
  <2>1. ToSet(<<>>) = {} /\ IsInjective(<<>>)
    BY DEF ToSet, IsInjective
  <2> QED BY <1>1, <1>2, <1>4, <2>1, RingConstants DEF RingLinks, IsLinkedOnce
<1>6. Count = 0
  BY <1>1, <1>3, SmallWords DEF Count
<1>7. CyclesInv
  <2>1. ASSUME NEW i \in Slots
        PROVE  cycle[SlotOf(0 + i)] = (0 + i) % Word
    <3>1. i \in 0 .. Capacity - 1 /\ i = Capacity * 0 + i /\ i \in Words /\ 0 + i = i /\ i \in Int
      BY <1>3, RingConstants DEF Slots
    <3>2. i % Capacity = i
      BY <3>1, Remainder, RingConstants
    <3>3. i % Word = i
      BY <3>1, SmallWords
    <3> QED BY <1>1, <3>1, <3>2, <3>3 DEF SlotOf
  <2>2. \A i \in Slots : ~(i < 0)
    BY RingConstants DEF Slots
  <2> SUFFICES ASSUME NEW i \in Slots
               PROVE  cycle[SlotOf(consumer_idx_ + i)] = (consumer_idx_ + i) % Word
    BY <1>6, <2>2, RingConstants DEF CyclesInv
  <2> QED BY <1>1, <2>1
<1>8. RingWakes
  <2>1. Inside = {}
    BY <1>2 DEF Inside
  <2> QED BY <1>1, <1>2, <2>1, FS_EmptySet DEF RingWakes, NobodyIsStranded
<1>9. Content = <<>>
  BY <1>6 DEF Content
<1> QED BY <1>5, <1>7, <1>8, <1>9

LEMMA ChannelsStart == ChannelsInit => LinksInv /\ SlotsInv
<1> SUFFICES ASSUME ChannelsInit PROVE LinksInv /\ SlotsInv
  OBVIOUS
<1>1. /\ RingLinks /\ CyclesInv /\ RingWakes /\ RendezvousInv
      /\ QueueInv /\ BoundedInv /\ UnboundedInv
  BY RingInit, RendezvousInit, QueueInit DEF ChannelsInit
<1>2. RendezvousWakes
  BY RendezvousConstants DEF ChannelsInit, TimedRendezvous!Init, RendezvousWakes,
                             Rendezvous!NobodyIsStranded
<1>3. slot_ = NoFiber /\ status = [p \in Producers |-> "none"]
  BY DEF ChannelsInit, TimedRendezvous!Init
<1>4. IsRing \/ IsRendezvous \/ IsBounded \/ IsUnbounded
  BY DEF ChannelsInit, IsRing, IsRendezvous, IsBounded, IsUnbounded
<1> QED BY <1>1, <1>2, <1>3, <1>4 DEF LinksInv, SlotsInv

\* Nothing happens.
LEMMA ChannelsStutter ==
    ASSUME UNCHANGED channelsVars
    PROVE  /\ LinksInv => LinksInv'
           /\ SlotsInv => SlotsInv'
<1>1. /\ UNCHANGED <<producer_idx_, consumer_idx_, cycle, storage, popped>>
      /\ UNCHANGED <<closed_, waiting_producers_, waiting_consumers_, at, value>>
      /\ UNCHANGED <<kind, slot_, taken, status, destroyed, queue_, not_empty_, not_full_>>
  BY DEF channelsVars, vars, ringVars, queueVars, slotVars, listVars
<1>2. UNCHANGED ringVars
  BY <1>1 DEF ringVars
<1>3. RingLinks => RingLinks'
  BY <1>1 DEF RingLinks, TypeOK, IsLinkedOnce
<1>4. RingWakes => RingWakes'
  <2>1. Inside' = Inside
    BY <1>1 DEF Inside
  <2>2. Count' = Count
    BY <1>2, CyclesRest
  <2> QED BY <1>1, <2>1, <2>2 DEF RingWakes, NobodyIsStranded
<1>5. CyclesInv => CyclesInv'
  BY <1>2, CyclesRest
<1>6. RendezvousInv => RendezvousInv'
  BY <1>1 DEF RendezvousInv, TimedRendezvous!TypeOK, IsLinkedOnce, TimedRendezvous!SlotIsAlive,
              ProducerKnows, TimedRendezvous!SuccessMeansConsumed,
              TimedRendezvous!ClosedMeansNotConsumed
<1>7. RendezvousWakes => RendezvousWakes'
  BY <1>1 DEF RendezvousWakes, Rendezvous!NobodyIsStranded
<1>8. QueueInv => QueueInv'
  <2>1. Inside' = Inside /\ Woken' = Woken
    BY <1>1 DEF Inside, Woken
  <2> QED BY <1>1, <2>1 DEF QueueInv, IsLinkedOnce
<1>9. (BoundedInv => BoundedInv') /\ (UnboundedInv => UnboundedInv')
  BY <1>1 DEF BoundedInv, UnboundedInv
<1>10. LinksInv => LinksInv'
  BY <1>1, <1>3, <1>6, <1>7, <1>8, <1>9
     DEF LinksInv, IsRing, IsRendezvous, IsQueue, IsBounded, IsUnbounded
<1>11. SlotsInv => SlotsInv'
  BY <1>1, <1>4, <1>5 DEF SlotsInv, IsRing
<1> QED BY <1>10, <1>11

\* A step of a channel, by its kind.
LEMMA ChannelsSteps ==
    ASSUME ChannelsNext
    PROVE  /\ UNCHANGED kind
           /\ IsRing => Waiting!Next \/ Next
           /\ kind = "ring" => Waiting!Next
           /\ kind = "rendezvous" => Rendezvous!Next
           /\ kind = "timed rendezvous" => TimedRendezvous!Next
           /\ IsBounded => BoundedQueue!Next
           /\ IsUnbounded => UnboundedQueue!Next
           /\ ~IsRendezvous => UNCHANGED <<slot_, status>>
BY DEF ChannelsNext, IsRing, IsRendezvous, IsBounded, IsUnbounded, slotVars

LEMMA LinksStep == LinksInv /\ [ChannelsNext]_channelsVars => LinksInv'
<1> SUFFICES ASSUME LinksInv, ChannelsNext PROVE LinksInv'
  BY ChannelsStutter
<1>1. /\ UNCHANGED kind
      /\ IsRing' = IsRing /\ IsRendezvous' = IsRendezvous /\ IsQueue' = IsQueue
      /\ IsBounded' = IsBounded /\ IsUnbounded' = IsUnbounded
  BY ChannelsSteps DEF IsRing, IsRendezvous, IsQueue, IsBounded, IsUnbounded
<1>2. IsRing => RingLinks'
  BY ChannelsSteps, RingStep DEF LinksInv
<1>3. IsRendezvous => RendezvousInv'
  BY ChannelsSteps, RendezvousStep, TimedRendezvousStep DEF LinksInv, IsRendezvous
<1>4. kind = "rendezvous" => RendezvousWakes'
  BY <1>3, ChannelsSteps, RendezvousWakesStep DEF LinksInv, IsRendezvous
<1>5. IsBounded => QueueInv' /\ BoundedInv'
  BY ChannelsSteps, BoundedKeepsQueue, BoundedStep DEF LinksInv, IsBounded, IsQueue
<1>6. IsUnbounded => QueueInv' /\ UnboundedInv'
  BY ChannelsSteps, UnboundedStep DEF LinksInv, IsUnbounded, IsQueue
<1>7. IsQueue => IsBounded \/ IsUnbounded
  BY DEF IsQueue, IsBounded, IsUnbounded
<1>8. ~IsRendezvous => slot_' = NoFiber /\ status' = [p \in Producers |-> "none"]
  BY ChannelsSteps DEF LinksInv
<1> QED BY <1>1, <1>2, <1>3, <1>4, <1>5, <1>6, <1>7, <1>8 DEF LinksInv

LEMMA SlotsStep ==
    ASSUME Capacity > 1
    PROVE  LinksInv /\ LinksInv' /\ SlotsInv /\ [ChannelsNext]_channelsVars => SlotsInv'
<1> SUFFICES ASSUME LinksInv, LinksInv', SlotsInv, ChannelsNext PROVE SlotsInv'
  BY ChannelsStutter
<1>1. UNCHANGED kind /\ IsRing' = IsRing
  BY ChannelsSteps DEF IsRing
<1>2. IsRing => RingLinks /\ RingLinks' /\ CyclesInv
  BY <1>1 DEF LinksInv, SlotsInv
<1>3. IsRing => CyclesInv'
  BY <1>2, ChannelsSteps, CyclesStep
<1>4. kind = "ring" => RingWakes'
  BY <1>2, ChannelsSteps, RingActions, RingWakesStep DEF SlotsInv, IsRing
<1> QED BY <1>1, <1>3, <1>4 DEF SlotsInv

LEMMA LinksTheorem == ChannelsSpec => []LinksInv
<1>1. ChannelsInit => LinksInv
  BY ChannelsStart
<1>2. LinksInv /\ [ChannelsNext]_channelsVars => LinksInv'
  BY LinksStep
<1> QED BY <1>1, <1>2, PTL DEF ChannelsSpec

LEMMA SlotsTheorem ==
    ASSUME Capacity > 1
    PROVE  ChannelsSpec => [](LinksInv /\ SlotsInv)
<1>1. ChannelsInit => LinksInv /\ SlotsInv
  BY ChannelsStart
<1>2. LinksInv /\ [ChannelsNext]_channelsVars => LinksInv'
  BY LinksStep
<1>3. LinksInv /\ LinksInv' /\ SlotsInv /\ [ChannelsNext]_channelsVars => SlotsInv'
  BY SlotsStep
<1> QED BY <1>1, <1>2, <1>3, PTL DEF ChannelsSpec

LEMMA RingIsLinked == RingLinks => TypeOK /\ WaitersAreQueued
<1> SUFFICES ASSUME RingLinks PROVE TypeOK /\ WaitersAreQueued
  OBVIOUS
<1>1. /\ IsLinkedOnce(Producers, waiting_producers_, "expired")
      /\ IsLinkedOnce(Consumers, waiting_consumers_, "expired")
      /\ waiting_producers_ \in Seq(Producers) /\ waiting_consumers_ \in Seq(Consumers)
  BY RingFacts
<1>2. closed_ => ToSet(waiting_producers_) = {} /\ ToSet(waiting_consumers_) = {}
  BY RingFacts, NobodyLinked
<1>3. SUFFICES ASSUME NEW role \in {<<Producers, waiting_producers_>>, <<Consumers, waiting_consumers_>>}
               PROVE  LET Linked == ToSet(role[2])
                          Asleep == {f \in role[1] : at[f] = "waits"} IN
                      /\ IsInjective(role[2])
                      /\ Asleep \subseteq Linked
                      /\ Linked \subseteq Asleep \cup {f \in role[1] : at[f] = "expired"}
                      /\ closed_ => Linked = {}
  BY DEF WaitersAreQueued, RingLinks
<1>4. PICK side, q : role[1] = side /\ role[2] = q /\ IsLinkedOnce(side, q, "expired")
                     /\ q \in Seq(side) /\ (closed_ => ToSet(q) = {})
  BY <1>1, <1>2
<1>5. ToSet(q) \subseteq side
  BY <1>4, NobodyLinked
<1> QED BY <1>4, <1>5 DEF IsLinkedOnce

LEMMA RendezvousIsLinked == RendezvousInv => TimedRendezvous!TypeOK /\ TimedRendezvous!WaitersAreQueued
<1> SUFFICES ASSUME RendezvousInv PROVE TimedRendezvous!TypeOK /\ TimedRendezvous!WaitersAreQueued
  OBVIOUS
<1>1. /\ IsLinkedOnce(Producers, waiting_producers_, "waitExpired")
      /\ IsLinkedOnce(Consumers, waiting_consumers_, "waitExpired")
      /\ waiting_producers_ \in Seq(Producers) /\ waiting_consumers_ \in Seq(Consumers)
  BY DEF RendezvousInv, TimedRendezvous!TypeOK
<1>2. SUFFICES ASSUME NEW role \in {<<Producers, waiting_producers_>>, <<Consumers, waiting_consumers_>>}
               PROVE  LET Linked == TimedRendezvous!ToSet(role[2]) IN
                      /\ TimedRendezvous!IsInjective(role[2])
                      /\ {f \in role[1] : at[f] = "waits"} \subseteq Linked
                      /\ Linked \subseteq {f \in role[1] : at[f] \in {"waits", "waitExpired"}}
  BY DEF TimedRendezvous!WaitersAreQueued, RendezvousInv
<1>3. PICK side, q : role[1] = side /\ role[2] = q /\ IsLinkedOnce(side, q, "waitExpired")
                     /\ q \in Seq(side)
  BY <1>1
<1>4. ToSet(q) \subseteq side
  BY <1>3, NobodyLinked
<1>5. TimedRendezvous!ToSet(q) = ToSet(q) /\ (IsInjective(q) => TimedRendezvous!IsInjective(q))
  BY RendezvousQueues DEF IsInjective, TimedRendezvous!IsInjective
<1> QED BY <1>3, <1>4, <1>5 DEF IsLinkedOnce

\* The wait queues of every kind of channel hold each fiber that sleeps in the channel
\* once, so that none is forgotten and none is woken twice, and besides them only fibers
\* whose deadline has made them ready and that have not run since: context::wait_link()
\* and the unlinking of every call, for any number of fibers, with deadlines or without.
THEOREM SleepersAreLinked == ChannelsSpec => []EverySleeperIsLinked
<1>1. ASSUME LinksInv PROVE EverySleeperIsLinked
  <2>1. CASE IsRing
    <3>1. TypeOK /\ WaitersAreQueued
      BY <1>1, <2>1, RingIsLinked DEF LinksInv
    <3> QED BY <2>1, <3>1 DEF EverySleeperIsLinked, ChannelsTypeOK, IsRing, IsRendezvous
  <2>2. CASE IsRendezvous
    <3>1. TimedRendezvous!TypeOK /\ TimedRendezvous!WaitersAreQueued
      BY <1>1, <2>2, RendezvousIsLinked DEF LinksInv
    <3> QED BY <2>2, <3>1 DEF EverySleeperIsLinked, ChannelsTypeOK, IsRing, IsRendezvous
  <2>3. CASE IsBounded
    <3>1. BoundedQueue!TypeOK /\ BoundedQueue!SleepersAreLinked
      BY <1>1, <2>3, QueueIsLinked DEF LinksInv, IsQueue, IsBounded
    <3> QED BY <2>3, <3>1 DEF EverySleeperIsLinked, ChannelsTypeOK, IsRing, IsRendezvous, IsBounded
  <2>4. CASE IsUnbounded
    <3>1. UnboundedQueue!TypeOK /\ BoundedQueue!SleepersAreLinked
      BY <1>1, <2>4, QueueIsLinked DEF LinksInv, IsQueue, IsUnbounded
    <3> QED BY <2>4, <3>1 DEF EverySleeperIsLinked, ChannelsTypeOK, IsRing, IsRendezvous, IsUnbounded
  <2> QED BY <1>1, <2>1, <2>2, <2>3, <2>4 DEF LinksInv
<1> QED BY <1>1, LinksTheorem, PTL

\* A push() of an unbuffered_channel that answers success has handed its value over, as
\* long as the channel exists, and one that answers closed has not, whatever deadlines and
\* close() do meanwhile; and slot_ points into the stack of a producer that is still
\* inside its push, with a value that nobody has got.
THEOREM PushTellsTheTruth == ChannelsSpec => []AnswerIsTrue
<1>1. ASSUME LinksInv PROVE AnswerIsTrue
  <2>1. CASE IsRendezvous
    BY <1>1, <2>1 DEF LinksInv, RendezvousInv, AnswerIsTrue
  <2>2. CASE ~IsRendezvous
    BY <1>1, <2>2 DEF LinksInv, AnswerIsTrue, TimedRendezvous!SuccessMeansConsumed,
                      TimedRendezvous!ClosedMeansNotConsumed, TimedRendezvous!SlotIsAlive
  <2> QED BY <2>1, <2>2
<1> QED BY <1>1, LinksTheorem, PTL

\* No wakeup is lost: among push() and pop() without deadlines a fiber sleeps in a ring or
\* at a rendezvous only while each free slot and each value it could use has a fiber that
\* was woken for it, and in a bounded_channel or an unbounded_channel also with deadlines;
\* and the comparison of cycles with indices that wrap around tells exactly whether a ring
\* is full or empty, whichever calls are made, if it has more than one slot.
THEOREM NoWakeupIsLost ==
    ASSUME Capacity > 1
    PROVE  ChannelsSpec => []NobodySleepsBesideWork
<1>1. ASSUME LinksInv, SlotsInv PROVE NobodySleepsBesideWork
  <2>1. CASE kind = "ring"
    <3>1. NobodyIsStranded /\ CyclesTellCount
      BY <1>1, <2>1, CyclesTell DEF LinksInv, SlotsInv, IsRing, RingLinks, RingWakes
    <3> QED BY <2>1, <3>1 DEF NobodySleepsBesideWork
  <2>2. CASE kind = "ring, every call"
    <3>1. CyclesTellCount
      BY <1>1, <2>2, CyclesTell DEF LinksInv, SlotsInv, IsRing, RingLinks
    <3> QED BY <2>2, <3>1 DEF NobodySleepsBesideWork
  <2>3. CASE kind = "rendezvous"
    <3>1. RendezvousInv /\ RendezvousWakes
      BY <1>1, <2>3 DEF LinksInv, IsRendezvous
    <3>2. Rendezvous!NobodyIsStranded
      BY <3>1 DEF RendezvousWakes
    <3>3. Rendezvous!ClosedKeepsNobody
      <4>1. closed_ => ToSet(waiting_producers_) = {} /\ ToSet(waiting_consumers_) = {}
        BY <3>1, NobodyLinked DEF RendezvousInv, ToSet
      <4>2. \A f \in Fibers : at[f] = "waits" =>
              f \in ToSet(waiting_producers_) \/ f \in ToSet(waiting_consumers_)
        BY <3>1, RendezvousConstants DEF RendezvousInv, IsLinkedOnce
      <4> QED BY <4>1, <4>2, SameCalls DEF Rendezvous!ClosedKeepsNobody
    <3> QED BY <2>3, <3>2, <3>3 DEF NobodySleepsBesideWork
  <2>4. CASE kind = "timed rendezvous"
    BY <2>4 DEF NobodySleepsBesideWork
  <2>5. CASE IsBounded
    <3>1. BoundedQueue!SleepersAwaitLowWatermark /\ BoundedQueue!ValuesAwaitNobody
      BY <1>1, <2>5, QueueWakes DEF LinksInv, IsQueue, IsBounded
    <3> QED BY <2>5, <3>1 DEF NobodySleepsBesideWork, IsBounded
  <2>6. CASE IsUnbounded
    <3>1. UnboundedQueue!ValuesAwaitNobody
      BY <1>1, <2>6, QueueWakes DEF LinksInv, IsQueue, IsUnbounded
    <3> QED BY <2>6, <3>1 DEF NobodySleepsBesideWork, IsUnbounded
  <2> QED BY <1>1, <2>1, <2>2, <2>3, <2>4, <2>5, <2>6 DEF LinksInv, IsRing, IsRendezvous
<1> QED BY <1>1, SlotsTheorem, PTL

\* The buffering channels implement the FIFO buffer of Channel: push() appends to at most
\* as many values as the channel is for, pop() gets the oldest, and what was accepted can
\* be popped after close(), whatever the indices of the ring have wrapped around, if it
\* has more than one slot.
THEOREM ValuesStayInOrder ==
    ASSUME Capacity > 1
    PROVE  ChannelsSpec => BuffersInOrder
<1>1. ChannelsInit => AsChannel!Init /\ BoundedQueue!AsChannel!Init
  <2> SUFFICES ASSUME ChannelsInit PROVE AsChannel!Init /\ BoundedQueue!AsChannel!Init
    OBVIOUS
  <2>1. Content = <<>> /\ closed_ = FALSE /\ popped = NoValue /\ queue_ = <<>>
    BY RingInit DEF ChannelsInit, Init, BoundedQueue!Init
  <2> QED BY <2>1 DEF AsChannel!Init, BoundedQueue!AsChannel!Init
<1>2. LinksInv /\ SlotsInv /\ [ChannelsNext]_channelsVars =>
        /\ [IsRing => AsChannel!Next]_(AsChannel!channelVars)
        /\ [IsBounded => BoundedQueue!AsChannel!Next]_(BoundedQueue!AsChannel!channelVars)
        /\ [IsUnbounded => UnboundedQueue!AsChannel!Next]_(UnboundedQueue!AsChannel!channelVars)
  <2> SUFFICES ASSUME LinksInv, SlotsInv, [ChannelsNext]_channelsVars
               PROVE  /\ IsRing => AsChannel!Next \/ UNCHANGED AsChannel!channelVars
                      /\ IsBounded => \/ BoundedQueue!AsChannel!Next
                                      \/ UNCHANGED BoundedQueue!AsChannel!channelVars
                      /\ IsUnbounded => \/ UnboundedQueue!AsChannel!Next
                                        \/ UNCHANGED UnboundedQueue!AsChannel!channelVars
    OBVIOUS
  <2>1. CASE ChannelsNext
    <3>1. IsRing => AsChannel!Next \/ UNCHANGED AsChannel!channelVars
      BY <2>1, ChannelsSteps, CyclesStep DEF LinksInv, SlotsInv
    <3>2. IsBounded => BoundedQueue!AsChannel!Next \/ UNCHANGED BoundedQueue!AsChannel!channelVars
      BY <2>1, ChannelsSteps, BoundedIsBuffer DEF LinksInv, IsBounded, IsQueue
    <3>3. IsUnbounded => UnboundedQueue!AsChannel!Next \/ UNCHANGED UnboundedQueue!AsChannel!channelVars
      BY <2>1, ChannelsSteps, UnboundedIsBuffer DEF LinksInv, IsUnbounded, IsQueue
    <3> QED BY <3>1, <3>2, <3>3
  <2>2. CASE UNCHANGED channelsVars
    <3>1. UNCHANGED ringVars /\ UNCHANGED <<queue_, closed_, popped>>
      BY <2>2 DEF channelsVars, vars, ringVars, listVars
    <3>2. Content' = Content
      BY <3>1, CyclesRest
    <3> QED BY <3>1, <3>2 DEF AsChannel!channelVars, BoundedQueue!AsChannel!channelVars,
                              UnboundedQueue!AsChannel!channelVars
  <2> QED BY <2>1, <2>2
<1> QED BY <1>1, <1>2, SlotsTheorem, PTL DEF ChannelsSpec, BuffersInOrder, IsBounded, IsUnbounded
===============================================================================
