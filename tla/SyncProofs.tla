------------------------------- MODULE SyncProofs -------------------------------
(***************************************************************************)
(* Safety of the synchronisation objects, each by the inductive invariant  *)
(* of its kind, for any fibers: mutexes, recursive or not, a mutex with a  *)
(* condition variable, barriers, and the state of a promise.               *)
(***************************************************************************)
EXTENDS MCSync, FiniteSetTheorems, SequenceTheorems, TLAPS

(***************************************************************************)
(* What linking and unlinking does to a queue without repetitions.         *)
(***************************************************************************)

LEMMA LinkLast ==
    ASSUME NEW S, NEW q \in Seq(S), NEW e \in S, IsInjective(q), e \notin ToSet(q)
    PROVE  /\ Append(q, e) \in Seq(S)
           /\ IsInjective(Append(q, e))
           /\ ToSet(Append(q, e)) = ToSet(q) \cup {e}
           /\ Append(q, e) # <<>>
<1> DEFINE r == Append(q, e)
<1>1. /\ r \in Seq(S) /\ Len(r) = Len(q) + 1 /\ r # <<>>
      /\ \A i \in 1 .. Len(q) : r[i] = q[i]
      /\ r[Len(q) + 1] = e
  BY AppendProperties
<1>2. DOMAIN q = 1 .. Len(q) /\ DOMAIN r = 1 .. Len(q) + 1 /\ Len(q) \in Nat
  BY <1>1, LenProperties
<1> HIDE DEF r
<1>3. ToSet(r) = ToSet(q) \cup {e}
  BY <1>1, <1>2 DEF ToSet
<1>4. IsInjective(r)
  BY <1>1, <1>2 DEF ToSet, IsInjective
<1> QED BY <1>1, <1>3, <1>4 DEF r

LEMMA UnlinkFirst ==
    ASSUME NEW S, NEW q \in Seq(S), IsInjective(q), q # <<>>
    PROVE  /\ Head(q) \in S /\ Head(q) \in ToSet(q)
           /\ Tail(q) \in Seq(S)
           /\ IsInjective(Tail(q))
           /\ ToSet(Tail(q)) = ToSet(q) \ {Head(q)}
<1> DEFINE r == Tail(q)
<1>1. /\ Head(q) \in S /\ r \in Seq(S) /\ Len(r) = Len(q) - 1 /\ Head(q) = q[1]
      /\ \A i \in 1 .. Len(r) : r[i] = q[i + 1]
  BY HeadTailProperties
<1>2. DOMAIN q = 1 .. Len(q) /\ DOMAIN r = 1 .. Len(q) - 1 /\ Len(q) \in Nat \ {0}
  BY <1>1, LenProperties, EmptySeq
<1> HIDE DEF r
<1>3. IsInjective(r)
  BY <1>1, <1>2, SMTT(30) DEF IsInjective
<1>4. ToSet(r) = ToSet(q) \ {Head(q)}
  <2>1. ASSUME NEW x \in ToSet(q), x # Head(q)
        PROVE  x \in ToSet(r)
    <3>1. PICK i \in 1 .. Len(q) : q[i] = x
      BY <1>2 DEF ToSet
    <3>2. i - 1 \in 1 .. Len(q) - 1 /\ r[i - 1] = x
      BY <1>1, <1>2, <2>1, <3>1
    <3> QED BY <1>2, <3>2 DEF ToSet
  <2>2. ASSUME NEW x \in ToSet(r)
        PROVE  x \in ToSet(q) /\ x # Head(q)
    <3>1. PICK i \in 1 .. Len(q) - 1 : r[i] = x
      BY <1>2, <2>2 DEF ToSet
    <3>2. i + 1 \in 1 .. Len(q) /\ q[i + 1] = x /\ i + 1 # 1
      BY <1>1, <1>2, <3>1
    <3> QED BY <1>1, <1>2, <3>2 DEF ToSet, IsInjective
  <2> QED BY <2>1, <2>2
<1>5. Head(q) \in ToSet(q)
  BY <1>1, <1>2 DEF ToSet
<1> QED BY <1>1, <1>3, <1>4, <1>5 DEF r

LEMMA UnlinkAny ==
    ASSUME NEW S, NEW q \in Seq(S), NEW e, IsInjective(q)
    PROVE  /\ Unlink(q, e) \in Seq(S)
           /\ IsInjective(Unlink(q, e))
           /\ ToSet(Unlink(q, e)) = ToSet(q) \ {e}
           /\ q = <<>> => Unlink(q, e) = <<>>
<1>1. CASE e \notin ToSet(q)
  BY <1>1 DEF Unlink
<1>2. CASE e \in ToSet(q)
  <2> DEFINE k == CHOOSE i \in DOMAIN q : q[i] = e
             r == RemoveAt(q, k)
  <2>1. k \in DOMAIN q /\ q[k] = e
    BY <1>2 DEF ToSet
  <2>2. DOMAIN q = 1 .. Len(q) /\ Len(q) \in Nat
    BY LenProperties
  <2> HIDE DEF k
  <2> DEFINE front == SubSeq(q, 1, k - 1)
             back == SubSeq(q, k + 1, Len(q))
  <2>3. /\ front \in Seq(S) /\ Len(front) = k - 1
        /\ \A i \in 1 .. k - 1 : front[i] = q[i]
    BY <2>1, <2>2, SubSeqProperties, ElementOfSeq
  <2>4. /\ back \in Seq(S) /\ Len(back) = Len(q) - k
        /\ \A i \in 1 .. Len(q) - k : back[i] = q[k + i]
    BY <2>1, <2>2, SubSeqProperties, ElementOfSeq
  <2>5. /\ r \in Seq(S) /\ Len(r) = Len(q) - 1
        /\ \A i \in 1 .. Len(q) - 1 : r[i] = IF i < k THEN q[i] ELSE q[i + 1]
    <3>1. r = front \o back
      BY DEF RemoveAt
    <3> HIDE DEF front, back, r
    <3>2. /\ r \in Seq(S) /\ Len(r) = Len(front) + Len(back)
          /\ \A i \in 1 .. Len(front) + Len(back) :
                r[i] = IF i <= Len(front) THEN front[i] ELSE back[i - Len(front)]
      BY <2>3, <2>4, <3>1, ConcatProperties
    <3>3. ASSUME NEW i \in 1 .. Len(q) - 1
          PROVE  r[i] = IF i < k THEN q[i] ELSE q[i + 1]
      <4>1. CASE i < k
        BY <2>1, <2>2, <2>3, <2>4, <3>2, <4>1
      <4>2. CASE i >= k
        <5>1. r[i] = back[i - (k - 1)] /\ i - (k - 1) \in 1 .. Len(q) - k
          BY <2>1, <2>2, <2>3, <2>4, <3>2, <4>2
        <5>2. back[i - (k - 1)] = q[k + (i - (k - 1))] /\ k + (i - (k - 1)) = i + 1
          BY <2>1, <2>2, <2>4, <5>1
        <5> QED BY <2>1, <2>2, <4>2, <5>1, <5>2
      <4> QED BY <2>1, <2>2, <4>1, <4>2
    <3> QED BY <2>1, <2>2, <2>3, <2>4, <3>2, <3>3
  <2>6. DOMAIN r = 1 .. Len(q) - 1
    BY <2>5, LenProperties
  <2> HIDE DEF r
  <2>7. IsInjective(r)
    BY <2>1, <2>2, <2>5, <2>6, SMTT(30) DEF IsInjective
  <2>8. ToSet(r) = ToSet(q) \ {e}
    <3>1. ASSUME NEW x \in ToSet(q), x # e
          PROVE  x \in ToSet(r)
      <4>1. PICK i \in 1 .. Len(q) : q[i] = x
        BY <2>2 DEF ToSet
      <4>2. CASE i < k
        BY <2>1, <2>2, <2>5, <2>6, <4>1, <4>2 DEF ToSet
      <4>3. CASE i > k
        <5>1. i - 1 \in 1 .. Len(q) - 1 /\ r[i - 1] = x
          BY <2>1, <2>2, <2>5, <4>1, <4>3
        <5> QED BY <2>6, <5>1 DEF ToSet
      <4> QED BY <2>1, <2>2, <3>1, <4>1, <4>2, <4>3
    <3>2. ASSUME NEW x \in ToSet(r)
          PROVE  x \in ToSet(q) /\ x # e
      <4>1. PICK i \in 1 .. Len(q) - 1 : r[i] = x
        BY <2>6, <3>2 DEF ToSet
      <4>2. PICK j \in 1 .. Len(q) : j # k /\ q[j] = x
        BY <2>1, <2>2, <2>5, <4>1
      <4> QED BY <2>1, <2>2, <4>2 DEF ToSet, IsInjective
    <3> QED BY <3>1, <3>2
  <2>9. Unlink(q, e) = r
    BY <1>2 DEF Unlink, r, k
  <2>10. q # <<>>
    BY <2>1, <2>2, EmptySeq
  <2> QED BY <2>5, <2>7, <2>8, <2>9, <2>10
<1> QED BY <1>1, <1>2

--------------------------------------------------------------------------------

(***************************************************************************)
(* The invariant says nothing of the places that are not the mutex's: it   *)
(* is kept as well where the fibers may also be suspended elsewhere.       *)
(***************************************************************************)

Discipline(AllPlaces) ==
    /\ owner_ \in Fibers \cup {NoFiber}
    /\ count_ \in Nat
    /\ wait_queue_ \in Seq(Fibers)
    /\ at \in [Fibers -> AllPlaces]
    /\ held \in [Fibers -> Nat]
    /\ WaitersAreQueued /\ NoLostWakeup
    /\ HolderOwns /\ GrantedOwns /\ CountCovers

LEMMA InvIsDiscipline == Inv <=> Discipline(Places)
BY DEF Inv, TypeOK, Discipline, Places

LEMMA InitInv == Init => Inv
<1> SUFFICES ASSUME Init PROVE Inv
  OBVIOUS
<1>1. wait_queue_ \in Seq(Fibers) /\ IsInjective(wait_queue_) /\ ToSet(wait_queue_) = {}
  BY DEF Init, IsInjective, ToSet
<1> QED
  BY <1>1, MutexAssumption
     DEF Init, Inv, TypeOK, Places, WaitersAreQueued, NoLostWakeup, HolderOwns, GrantedOwns, CountCovers

\* A fiber that takes the free mutex.
LEMMA TakeKeepsDiscipline ==
    ASSUME NEW S, Places \subseteq S, Discipline(S), NEW f \in Fibers, IsFree, Take(f),
           at[f] \notin {"waits", "sleeps", "expired"}
    PROVE  Discipline(S)'
BY MutexAssumption
   DEF Places, Discipline, WaitersAreQueued, NoLostWakeup, HolderOwns, GrantedOwns, CountCovers,
       IsFree, Take

\* A fiber that waits for the mutex.
LEMMA QueueKeepsDiscipline ==
    ASSUME NEW S, Places \subseteq S, Discipline(S), NEW f \in Fibers, ~IsFree,
           at[f] \notin {"waits", "sleeps", "expired"},
           NEW place \in {"waits", "sleeps"}, Queue(f, place)
    PROVE  Discipline(S)'
<1>1. f \notin ToSet(wait_queue_)
  BY DEF Discipline, WaitersAreQueued
<1>2. /\ wait_queue_' \in Seq(Fibers)
      /\ IsInjective(wait_queue_')
      /\ ToSet(wait_queue_') = ToSet(wait_queue_) \cup {f}
  BY <1>1, LinkLast DEF Discipline, WaitersAreQueued, Queue
<1> QED
  BY <1>2, MutexAssumption
     DEF Places, Discipline, WaitersAreQueued, NoLostWakeup, HolderOwns, GrantedOwns, CountCovers,
         IsFree, Queue

LEMMA AcquireKeepsDiscipline ==
    ASSUME NEW S, Places \subseteq S, Discipline(S), NEW f \in Fibers, Acquire(f),
           at[f] \notin {"waits", "sleeps", "expired"}
    PROVE  Discipline(S)'
BY TakeKeepsDiscipline, QueueKeepsDiscipline DEF Acquire

LEMMA TryLockUntilKeepsDiscipline ==
    ASSUME NEW S, Places \subseteq S, Discipline(S), NEW f \in Fibers, TryLockUntil(f)
    PROVE  Discipline(S)'
BY TakeKeepsDiscipline, QueueKeepsDiscipline DEF TryLockUntil

\* The owner locks once more, by lock() or by try_lock().
LEMMA CountUpKeepsDiscipline ==
    ASSUME NEW S, Places \subseteq S, Discipline(S), NEW f \in Fibers,
           at[f] = "runs", owner_ = f, count_' = count_ + 1,
           UNCHANGED <<owner_, wait_queue_>>,
           \/ held' = [held EXCEPT ![f] = @ + 1] /\ UNCHANGED at
           \/ at' = [at EXCEPT ![f] = "tries"] /\ UNCHANGED held
    PROVE  Discipline(S)'
<1> USE MutexAssumption
    DEF Places, Discipline, WaitersAreQueued, NoLostWakeup, HolderOwns, GrantedOwns, CountCovers
<1>1. CASE held' = [held EXCEPT ![f] = @ + 1] /\ UNCHANGED at
  BY <1>1
<1>2. CASE at' = [at EXCEPT ![f] = "tries"] /\ UNCHANGED held
  BY <1>2
<1> QED BY <1>1, <1>2

\* The calls that leave the queue as it is.
LEMMA CallsKeepDiscipline ==
    ASSUME NEW S, Places \subseteq S, Discipline(S), NEW f \in Fibers,
           TryLock(f) \/ TryLockReturns(f) \/ LockReturns(f) \/ Expire(f) \/ InTime(f)
    PROVE  Discipline(S)'
<1> USE MutexAssumption
    DEF Places, Discipline, WaitersAreQueued, NoLostWakeup, HolderOwns, GrantedOwns, CountCovers
<1>1. CASE TryLock(f)
  BY <1>1 DEF TryLock, IsFree
<1>2. CASE TryLockReturns(f)
  BY <1>2 DEF TryLockReturns
<1>3. CASE LockReturns(f)
  BY <1>3 DEF LockReturns
<1>4. CASE Expire(f)
  BY <1>4 DEF Expire
<1>5. CASE InTime(f)
  BY <1>5 DEF InTime
<1> QED BY <1>1, <1>2, <1>3, <1>4, <1>5

LEMMA TooLateKeepsDiscipline ==
    ASSUME NEW S, Places \subseteq S, Discipline(S), NEW f \in Fibers, TooLate(f)
    PROVE  Discipline(S)'
<1>1. /\ wait_queue_' \in Seq(Fibers)
      /\ IsInjective(wait_queue_')
      /\ ToSet(wait_queue_') = ToSet(wait_queue_) \ {f}
      /\ wait_queue_ = <<>> => wait_queue_' = <<>>
  BY UnlinkAny DEF Discipline, WaitersAreQueued, TooLate
<1> QED
  BY <1>1, MutexAssumption
     DEF Places, Discipline, WaitersAreQueued, NoLostWakeup, HolderOwns, GrantedOwns, CountCovers, TooLate

\* Where a fiber is that is linked into the mutex, was given it or tries it.
Inside == Places \ {"runs"}

\* The last unlock() passes the mutex to the first fiber of the queue, and no
\* other fiber gets to or leaves a place of the mutex.
LEMMA HandOverKeepsDiscipline ==
    ASSUME NEW S, Places \subseteq S, Discipline(S), NEW f \in Fibers,
           at[f] = "runs", owner_ = f, count_ = 1,
           wait_queue_ # <<>>,
           owner_' = NextOwner, count_' = CountOfNextOwner, wait_queue_' = Others,
           held' = [held EXCEPT ![f] = 0],
           at' \in [Fibers -> S],
           at'[Head(wait_queue_)] = Readied(at[Head(wait_queue_)]),
           \A h \in Fibers \ {Head(wait_queue_)} :
                at'[h] = at[h] \/ (at[h] \notin Inside /\ at'[h] \notin Inside)
    PROVE  Discipline(S)'
<1> USE MutexAssumption
    DEF Places, Inside,
        Discipline, WaitersAreQueued, NoLostWakeup, HolderOwns, GrantedOwns, CountCovers
<1> DEFINE g == Head(wait_queue_)
<1>1. /\ g \in Fibers /\ g \in ToSet(wait_queue_)
      /\ wait_queue_' \in Seq(Fibers)
      /\ IsInjective(wait_queue_')
      /\ ToSet(wait_queue_') = ToSet(wait_queue_) \ {g}
  BY UnlinkFirst DEF Others
<1>2. at[g] \in {"waits", "sleeps", "expired"} /\ g # f /\ held[g] = 0
  BY <1>1
<1>3. \A h \in Fibers : held'[h] = 0
  OBVIOUS
<1>4. \A h \in Fibers : at[h] \notin {"granted", "woken"}
  OBVIOUS
<1>5. owner_' = g /\ count_' = 1
  BY DEF NextOwner, CountOfNextOwner
<1>6. at'[g] = Readied(at[g]) /\ Readied(at[g]) \in {"granted", "woken", "expired"}
  BY <1>2 DEF Readied
<1>7. \A h \in Fibers \ {g} : at'[h] = at[h] \/ (at[h] \notin Inside /\ at'[h] \notin Inside)
  OBVIOUS
<1> HIDE DEF g
<1>8. ASSUME NEW h \in Fibers
      PROVE  /\ h \in ToSet(wait_queue_)' => at'[h] \in {"waits", "sleeps", "expired"}
             /\ at'[h] \in {"waits", "sleeps"} => h \in ToSet(wait_queue_)'
             /\ at'[h] \in {"granted", "woken"} => h = g
  BY <1>1, <1>2, <1>4, <1>6, <1>7
<1>9. WaitersAreQueued' /\ GrantedOwns'
  BY <1>1, <1>5, <1>8
<1>10. NoLostWakeup' /\ HolderOwns' /\ CountCovers'
  BY <1>1, <1>3, <1>5
<1> QED BY <1>1, <1>2, <1>5, <1>9, <1>10

\* With nobody in the queue it sets the mutex free.
LEMMA SetFreeKeepsDiscipline ==
    ASSUME NEW S, Places \subseteq S, Discipline(S), NEW f \in Fibers,
           at[f] = "runs", owner_ = f, count_ = 1,
           wait_queue_ = <<>>,
           owner_' = NoFiber, count_' = 0, UNCHANGED wait_queue_,
           held' = [held EXCEPT ![f] = 0],
           at' \in [Fibers -> S],
           \A h \in Fibers : at'[h] = at[h] \/ (at[h] \notin Inside /\ at'[h] \notin Inside)
    PROVE  Discipline(S)'
<1> USE MutexAssumption
    DEF Places, Inside,
        Discipline, WaitersAreQueued, NoLostWakeup, HolderOwns, GrantedOwns, CountCovers
<1>1. ASSUME NEW h \in Fibers
      PROVE  at'[h] \notin {"waits", "sleeps", "granted", "woken"} /\ held'[h] = 0
  <2>1. ToSet(wait_queue_) = {}
    BY DEF ToSet
  <2>2. at[h] \notin {"waits", "sleeps", "granted", "woken"}
    BY <2>1
  <2> QED BY <2>2
<1>2. ToSet(wait_queue_') = {}
  BY DEF ToSet
<1>3. WaitersAreQueued'
  BY <1>1, <1>2
<1>4. HolderOwns' /\ GrantedOwns' /\ CountCovers' /\ NoLostWakeup'
  BY <1>1
<1> QED BY <1>3, <1>4

LEMMA UnlockKeepsDiscipline ==
    ASSUME NEW S, Places \subseteq S, Discipline(S), NEW f \in Fibers, Unlock(f)
    PROVE  Discipline(S)'
<1> USE MutexAssumption
    DEF Places, Discipline, WaitersAreQueued, NoLostWakeup, HolderOwns, GrantedOwns, CountCovers
<1>1. held[f] <= count_ /\ held[f] \in Nat \ {0} /\ count_ \in Nat
  BY DEF Unlock
<1>2. CASE count_ - 1 # 0
  BY <1>1, <1>2 DEF Unlock
<1>3. CASE count_ - 1 = 0
  <2>1. count_ = 1 /\ held[f] = 1 /\ at[f] = "runs" /\ owner_ = f
    BY <1>1, <1>3 DEF Unlock
  <2>2. held' = [held EXCEPT ![f] = 0]
    BY <2>1 DEF Unlock
  <2>3. CASE HandOver
    <3>1. /\ Head(wait_queue_) \in Fibers
          /\ at[Head(wait_queue_)] \in {"waits", "sleeps", "expired"}
      BY <2>3, UnlinkFirst DEF HandOver
    <3>2. Readied(at[Head(wait_queue_)]) \in Places
      BY <3>1 DEF Readied
    <3> QED BY <2>1, <2>2, <2>3, <3>1, <3>2, HandOverKeepsDiscipline DEF HandOver
  <2>4. CASE SetFree
    BY <2>1, <2>2, <2>4, SetFreeKeepsDiscipline DEF SetFree
  <2> QED BY <1>3, <2>3, <2>4 DEF Unlock
<1> QED BY <1>2, <1>3

LEMMA NextKeepsDiscipline ==
    ASSUME NEW S, Places \subseteq S, Discipline(S), [Next]_vars
    PROVE  Discipline(S)'
<1>1. CASE UNCHANGED vars
  BY <1>1 DEF vars, Discipline, WaitersAreQueued, NoLostWakeup, HolderOwns, GrantedOwns, CountCovers
<1>2. ASSUME NEW f \in Fibers, Lock(f) \/ LockAgain(f) \/ TryLockAgain(f)
      PROVE  Discipline(S)'
  BY <1>2, AcquireKeepsDiscipline, CountUpKeepsDiscipline DEF Lock, LockAgain, TryLockAgain
<1> QED
  BY <1>1, <1>2, TryLockUntilKeepsDiscipline, CallsKeepDiscipline, TooLateKeepsDiscipline,
     UnlockKeepsDiscipline DEF Next

LEMMA NextKeepsInv ==
    ASSUME Inv, [Next]_vars
    PROVE  Inv'
<1>1. Discipline(Places)'
  BY InvIsDiscipline, NextKeepsDiscipline
<1> QED BY <1>1 DEF Inv, TypeOK, Discipline

THEOREM InvHolds == Spec => []Inv
<1>1. Init => Inv
  BY InitInv
<1>2. Inv /\ [Next]_vars => Inv'
  BY NextKeepsInv
<1> QED BY <1>1, <1>2, PTL DEF Spec

--------------------------------------------------------------------------------

\* At most one fiber has a lock call of lock(), try_lock() or try_lock_until()
\* that succeeded and that unlock() has not undone.
THEOREM OneHolder == Spec => []MutualExclusion
<1>1. Inv => MutualExclusion
  BY DEF Inv, HolderOwns, MutualExclusion
<1> QED BY <1>1, InvHolds, PTL

\* No fiber is linked into the wait queue of a mutex that belongs to nobody.
THEOREM NobodyWaitsForFreeMutex == Spec => []NoLostWakeup
<1>1. Inv => NoLostWakeup
  BY DEF Inv
<1> QED BY <1>1, InvHolds, PTL

\* The wait queue holds every suspended fiber once, and no fiber that unlock()
\* has made the owner.
THEOREM WaitQueueIsExact == Spec => []WaitersAreQueued
<1>1. Inv => WaitersAreQueued
  BY DEF Inv
<1> QED BY <1>1, InvHolds, PTL

(***************************************************************************)
(* A mutex whose locks give no deadlines.                                  *)
(***************************************************************************)

\* No fiber is where only try_lock_until() leads, and the count is exact.
Untimed == CountIsHeld /\ \A f \in Fibers : at[f] \notin {"sleeps", "woken", "expired"}

LEMMA AcquireKeepsUntimed ==
    ASSUME NEW S, Places \subseteq S, Discipline(S), Untimed, NEW f \in Fibers,
           Acquire(f), at[f] \notin Inside
    PROVE  Untimed'
<1> USE MutexAssumption
    DEF Untimed, CountIsHeld, Discipline, HolderOwns, Inside, Places
<1>1. CASE IsFree /\ Take(f)
  BY <1>1 DEF IsFree, Take
<1>2. CASE ~IsFree /\ Queue(f, "waits")
  BY <1>2 DEF IsFree, Queue
<1> QED BY <1>1, <1>2 DEF Acquire

LEMMA CountUpKeepsUntimed ==
    ASSUME NEW S, Places \subseteq S, Discipline(S), Untimed, NEW f \in Fibers,
           at[f] = "runs", owner_ = f, count_' = count_ + 1,
           UNCHANGED <<owner_, wait_queue_>>,
           \/ held' = [held EXCEPT ![f] = @ + 1] /\ UNCHANGED at
           \/ at' = [at EXCEPT ![f] = "tries"] /\ UNCHANGED held
    PROVE  Untimed'
BY MutexAssumption DEF Untimed, CountIsHeld, Discipline, HolderOwns, Places

LEMMA CallsKeepUntimed ==
    ASSUME NEW S, Places \subseteq S, Discipline(S), Untimed, NEW f \in Fibers,
           TryLock(f) \/ TryLockReturns(f) \/ LockReturns(f)
    PROVE  Untimed'
<1> USE MutexAssumption
    DEF Untimed, CountIsHeld, Discipline, HolderOwns, GrantedOwns, Places
<1>1. CASE TryLock(f)
  BY <1>1 DEF TryLock, IsFree
<1>2. CASE TryLockReturns(f)
  BY <1>2 DEF TryLockReturns
<1>3. CASE LockReturns(f)
  BY <1>3 DEF LockReturns
<1> QED BY <1>1, <1>2, <1>3

\* The first fiber of the queue is one that lock() suspended.
LEMMA FirstWaits ==
    ASSUME NEW S, Discipline(S), Untimed, wait_queue_ # <<>>
    PROVE  /\ Head(wait_queue_) \in Fibers /\ Head(wait_queue_) \in ToSet(wait_queue_)
           /\ at[Head(wait_queue_)] = "waits" /\ Readied(at[Head(wait_queue_)]) = "granted"
<1>1. Head(wait_queue_) \in Fibers /\ Head(wait_queue_) \in ToSet(wait_queue_)
  BY UnlinkFirst DEF Discipline, WaitersAreQueued
<1>2. at[Head(wait_queue_)] = "waits"
  BY <1>1 DEF Discipline, WaitersAreQueued, Untimed
<1> QED BY <1>1, <1>2 DEF Readied

\* What the last unlock() of f does, in unlock(), in wait() and where the
\* state of a promise is made ready.
PassOn(f) ==
    /\ held' = [held EXCEPT ![f] = 0]
    /\ \/ /\ wait_queue_ = <<>> /\ UNCHANGED wait_queue_
          /\ owner_' = NoFiber /\ count_' = 0
       \/ /\ wait_queue_ # <<>> /\ wait_queue_' = Tail(wait_queue_)
          /\ owner_' = Head(wait_queue_) /\ count_' = 1
          /\ at'[Head(wait_queue_)] = "granted"

LEMMA PassOnKeepsMutex ==
    ASSUME NEW S, Places \subseteq S, Discipline(S), Untimed, NEW f \in Fibers,
           at[f] = "runs", owner_ = f, count_ = 1, PassOn(f),
           at' \in [Fibers -> S],
           \A h \in Fibers : \/ wait_queue_ # <<>> /\ h = Head(wait_queue_)
                             \/ at'[h] = at[h]
                             \/ (at[h] \notin Inside /\ at'[h] \notin Inside)
    PROVE  Discipline(S)' /\ Untimed'
<1>1. CASE wait_queue_ = <<>>
  <2>1. Discipline(S)'
    BY <1>1, SetFreeKeepsDiscipline DEF PassOn
  <2>2. Untimed'
    BY <1>1, MutexAssumption DEF Untimed, CountIsHeld, Discipline, PassOn, Inside, Places
  <2> QED BY <2>1, <2>2
<1>2. CASE wait_queue_ # <<>>
  <2> DEFINE g == Head(wait_queue_)
  <2>1. g \in Fibers /\ at[g] = "waits" /\ Readied(at[g]) = "granted"
    BY <1>2, FirstWaits
  <2>2. Discipline(S)'
    BY <1>2, <2>1, HandOverKeepsDiscipline
       DEF PassOn, NextOwner, CountOfNextOwner, Others
  <2>3. owner_' = g /\ count_' = 1 /\ at'[g] = "granted" /\ held'[g] = 0
    BY <1>2, <2>1 DEF PassOn, Discipline, HolderOwns
  <2>4. \A h \in Fibers : at'[h] \notin {"sleeps", "woken", "expired"}
    BY <2>3 DEF Untimed, Inside, Places
  <2> HIDE DEF g
  <2> QED BY <2>2, <2>3, <2>4 DEF Untimed, CountIsHeld
<1> QED BY <1>1, <1>2

\* Fibers that come from and go to places the mutex knows nothing of.
LEMMA ElsewhereKeepsMutex ==
    ASSUME NEW S, Places \subseteq S, Discipline(S), Untimed,
           UNCHANGED <<owner_, count_, wait_queue_, held>>,
           at' \in [Fibers -> S],
           \A h \in Fibers : at'[h] = at[h] \/ (at[h] \notin Inside /\ at'[h] \notin Inside)
    PROVE  Discipline(S)' /\ Untimed'
<1> USE DEF Untimed, CountIsHeld, Inside, Places,
            Discipline, WaitersAreQueued, NoLostWakeup, HolderOwns, GrantedOwns, CountCovers
<1>1. WaitersAreQueued' /\ NoLostWakeup' /\ HolderOwns' /\ GrantedOwns'
  OBVIOUS
<1>2. CountIsHeld' /\ CountCovers'
  OBVIOUS
<1> QED BY <1>1, <1>2

(***************************************************************************)
(* The recursive mutexes.                                                  *)
(***************************************************************************)

\* unlock() that is not the last one, and the one that is.
LEMMA UnlockKeepsUntimed ==
    ASSUME NEW S, Places \subseteq S, Discipline(S), Untimed, NEW f \in Fibers, Unlock(f)
    PROVE  Discipline(S)' /\ Untimed'
<1>1. Discipline(S)'
  BY UnlockKeepsDiscipline
<1>2. held[f] \in Nat \ {0} /\ count_ = held[f] /\ at[f] = "runs" /\ owner_ = f
  BY DEF Unlock, Untimed, CountIsHeld, Discipline
<1>3. CASE count_ - 1 # 0
  BY <1>1, <1>2, <1>3 DEF Unlock, Untimed, CountIsHeld, Discipline
<1>4. CASE count_ - 1 = 0
  <2> count_ = 1 /\ held[f] = 1
    BY <1>2, <1>4
  <2>1. count_ = 1 /\ held' = [held EXCEPT ![f] = 0]
    BY DEF Unlock
  <2>2. CASE HandOver
    <3>1. /\ Head(wait_queue_) \in Fibers
          /\ Readied(at[Head(wait_queue_)]) = "granted"
      BY <2>2, FirstWaits DEF HandOver
    <3>2. at' = [at EXCEPT ![Head(wait_queue_)] = "granted"]
      BY <2>2, <3>1 DEF HandOver
    <3>3. at' \in [Fibers -> S] /\ "granted" \in S
      BY <3>2 DEF Discipline, Places
    <3>4. PassOn(f)
      BY <2>1, <2>2, <3>1, <3>2
         DEF PassOn, HandOver, NextOwner, CountOfNextOwner, Others, Discipline
    <3>5. \A h \in Fibers : (wait_queue_ # <<>> /\ h = Head(wait_queue_)) \/ at'[h] = at[h]
      BY <2>2, <3>2 DEF Discipline, HandOver
    <3> QED BY <1>2, <2>1, <3>3, <3>4, <3>5, PassOnKeepsMutex
  <2>3. CASE SetFree
    <3>1. PassOn(f) /\ at' \in [Fibers -> S]
      BY <2>1, <2>3 DEF PassOn, SetFree, Discipline
    <3> QED BY <1>2, <2>1, <2>3, <3>1, PassOnKeepsMutex DEF SetFree
  <2> QED BY <1>4, <2>2, <2>3 DEF Unlock
<1> QED BY <1>3, <1>4

LEMMA RecursiveMutexKeepsInv ==
    ASSUME Inv, Untimed, Recursively!Next
    PROVE  Inv' /\ Untimed'
<1> SUFFICES Discipline(Places)' /\ Untimed'
  BY DEF Inv, TypeOK, Discipline
<1> PICK f \in Fibers :
        \/ Recursively!Lock(f) \/ Recursively!LockAgain(f)
        \/ Recursively!TryLock(f) \/ Recursively!TryLockAgain(f)
        \/ Recursively!TryLockReturns(f) \/ Recursively!Unlock(f) \/ Recursively!LockReturns(f)
        \/ Recursively!TryLockUntil(f) \/ Recursively!Expire(f)
        \/ Recursively!InTime(f) \/ Recursively!TooLate(f)
  BY DEF Recursively!Next
<1>1. Discipline(Places) /\ at \in [Fibers -> Places]
  BY InvIsDiscipline DEF Inv, TypeOK
<1>2. CASE Recursively!Lock(f)
  <2>1. Acquire(f) /\ at[f] = "runs"
    BY <1>2 DEF Recursively!Lock, Recursively!Acquire, Recursively!IsFree, Recursively!Take,
                Recursively!Queue, Acquire, IsFree, Take, Queue
  <2> QED
    BY <1>1, <2>1, AcquireKeepsDiscipline, AcquireKeepsUntimed DEF Inside
<1>3. CASE Recursively!LockAgain(f) \/ Recursively!TryLockAgain(f)
  <2>1. /\ at[f] = "runs" /\ owner_ = f /\ count_' = count_ + 1
        /\ UNCHANGED <<owner_, wait_queue_>>
        /\ \/ held' = [held EXCEPT ![f] = @ + 1] /\ UNCHANGED at
           \/ at' = [at EXCEPT ![f] = "tries"] /\ UNCHANGED held
    BY <1>3 DEF Recursively!LockAgain, Recursively!TryLockAgain
  <2> QED BY <1>1, <2>1, CountUpKeepsDiscipline, CountUpKeepsUntimed
<1>4. CASE Recursively!TryLock(f) \/ Recursively!TryLockReturns(f) \/ Recursively!LockReturns(f)
  <2>1. TryLock(f) \/ TryLockReturns(f) \/ LockReturns(f)
    BY <1>4 DEF Recursively!TryLock, Recursively!TryLockReturns, Recursively!LockReturns,
                Recursively!IsFree, TryLock, TryLockReturns, LockReturns, IsFree
  <2> QED BY <1>1, <2>1, CallsKeepDiscipline, CallsKeepUntimed
<1>5. CASE Recursively!Unlock(f)
  <2>1. Unlock(f)
    BY <1>5 DEF Recursively!Unlock, Recursively!HandOver, Recursively!SetFree,
                Recursively!NextOwner, Recursively!CountOfNextOwner, Recursively!Others,
                Recursively!Readied, Unlock, HandOver, SetFree,
                NextOwner, CountOfNextOwner, Others, Readied
  <2> QED BY <1>1, <2>1, UnlockKeepsUntimed
<1>6. ~ (Recursively!TryLockUntil(f) \/ Recursively!Expire(f)
            \/ Recursively!InTime(f) \/ Recursively!TooLate(f))
  BY DEF Untimed, Recursively!TryLockUntil, Recursively!Expire, Recursively!InTime,
         Recursively!TooLate
<1> QED BY <1>2, <1>3, <1>4, <1>5, <1>6

LEMMA RecursiveTimedMutexKeepsInv ==
    ASSUME Inv, RecursiveTimed!Next
    PROVE  Inv'
<1> SUFFICES Discipline(Places)'
  BY DEF Inv, TypeOK, Discipline
<1> PICK f \in Fibers :
        \/ RecursiveTimed!Lock(f) \/ RecursiveTimed!LockAgain(f)
        \/ RecursiveTimed!TryLock(f) \/ RecursiveTimed!TryLockAgain(f)
        \/ RecursiveTimed!TryLockReturns(f) \/ RecursiveTimed!Unlock(f)
        \/ RecursiveTimed!LockReturns(f)
        \/ RecursiveTimed!TryLockUntil(f) \/ RecursiveTimed!Expire(f)
        \/ RecursiveTimed!InTime(f) \/ RecursiveTimed!TooLate(f)
  BY DEF RecursiveTimed!Next
<1>1. Discipline(Places) /\ at \in [Fibers -> Places]
  BY InvIsDiscipline DEF Inv, TypeOK
<1>2. CASE RecursiveTimed!Lock(f) \/ RecursiveTimed!TryLockUntil(f)
  <2>1. Lock(f) \/ TryLockUntil(f)
    BY <1>2, CondAssumption
       DEF RecursiveTimed!Lock, RecursiveTimed!Acquire, RecursiveTimed!IsFree,
           RecursiveTimed!Take, RecursiveTimed!Queue, RecursiveTimed!TryLockUntil,
           Lock, TryLockUntil, Acquire, IsFree, Take, Queue
  <2> QED BY <1>1, <2>1, AcquireKeepsDiscipline, TryLockUntilKeepsDiscipline DEF Lock
<1>3. CASE RecursiveTimed!LockAgain(f) \/ RecursiveTimed!TryLockAgain(f)
  <2>1. /\ at[f] = "runs" /\ owner_ = f /\ count_' = count_ + 1
        /\ UNCHANGED <<owner_, wait_queue_>>
        /\ \/ held' = [held EXCEPT ![f] = @ + 1] /\ UNCHANGED at
           \/ at' = [at EXCEPT ![f] = "tries"] /\ UNCHANGED held
    BY <1>3 DEF RecursiveTimed!LockAgain, RecursiveTimed!TryLockAgain
  <2> QED BY <1>1, <2>1, CountUpKeepsDiscipline
<1>4. CASE \/ RecursiveTimed!TryLock(f) \/ RecursiveTimed!TryLockReturns(f)
           \/ RecursiveTimed!LockReturns(f) \/ RecursiveTimed!Expire(f)
           \/ RecursiveTimed!InTime(f)
  <2>1. TryLock(f) \/ TryLockReturns(f) \/ LockReturns(f) \/ Expire(f) \/ InTime(f)
    BY <1>4 DEF RecursiveTimed!TryLock, RecursiveTimed!TryLockReturns,
                RecursiveTimed!LockReturns, RecursiveTimed!IsFree, RecursiveTimed!Expire,
                RecursiveTimed!InTime, TryLock, TryLockReturns, LockReturns, IsFree,
                Expire, InTime
  <2> QED BY <1>1, <2>1, CallsKeepDiscipline
<1>5. CASE RecursiveTimed!Unlock(f)
  <2>1. Unlock(f)
    BY <1>5 DEF RecursiveTimed!Unlock, RecursiveTimed!HandOver, RecursiveTimed!SetFree,
                RecursiveTimed!NextOwner, RecursiveTimed!CountOfNextOwner,
                RecursiveTimed!Others, RecursiveTimed!Readied, Unlock, HandOver, SetFree,
                NextOwner, CountOfNextOwner, Others, Readied
  <2> QED BY <1>1, <2>1, UnlockKeepsDiscipline
<1>6. CASE RecursiveTimed!TooLate(f)
  <2>1. TooLate(f)
    BY <1>6 DEF RecursiveTimed!TooLate, RecursiveTimed!Unlink, RecursiveTimed!ToSet,
                RecursiveTimed!RemoveAt, TooLate, Unlink, ToSet, RemoveAt
  <2> QED BY <1>1, <2>1, TooLateKeepsDiscipline
<1> QED BY <1>2, <1>3, <1>4, <1>5, <1>6

(***************************************************************************)
(* A mutex and its condition variable.  To the mutex the fibers in wait()  *)
(* are elsewhere.                                                          *)
(***************************************************************************)

\* Where the fibers of a condition variable's mutex may be.
Everywhere == Places \cup CondPlaces

\* The mutex of a condition variable is neither timed nor recursive, and who is
\* in wait() does not hold it.
MutexOfWaiters ==
    /\ Discipline(Everywhere) /\ Untimed
    /\ held \in [Fibers -> 0..1]
    /\ owner_ # NoFiber => count_ = 1
    /\ \A f \in Fibers : at[f] \in CondPlaces => held[f] = 0

CondInv ==
    /\ MutexOfWaiters
    /\ cond_queue_ \in Seq(Fibers)
    /\ WaiterIsReachable

LEMMA WaitersTypeOK == CondInv => CondTypeOK
BY DEF CondInv, MutexOfWaiters, Discipline, Everywhere, CondTypeOK

\* The fibers linked into the condition variable are in wait(), so they are
\* neither the caller of another operation nor linked into the mutex.
LEMMA LinkedWait ==
    ASSUME CondInv
    PROVE  /\ \A f \in ToSet(cond_queue_) : f \in Fibers /\ at[f] \in CondPlaces \ {"notified"}
           /\ OneHookOneQueue
<1>1. \A f \in ToSet(cond_queue_) : f \in Fibers /\ at[f] \in CondPlaces \ {"notified"}
  BY DEF CondInv, WaiterIsReachable, CondPlaces
<1>2. \A f \in ToSet(wait_queue_) : at[f] \notin CondPlaces
  BY DEF CondInv, MutexOfWaiters, Discipline, WaitersAreQueued, CondPlaces
<1> QED BY <1>1, <1>2 DEF OneHookOneQueue

\* A fiber that runs, or whose wait() is over, unlinks itself and locks.
LEMMA AcquireKeepsCond ==
    ASSUME CondInv, NEW f \in Fibers, Acquire(f),
           at[f] \in {"runs", "notified", "overdue"}, cond_queue_' = Unlink(cond_queue_, f)
    PROVE  CondInv'
<1> USE DEF CondInv, MutexOfWaiters
<1>1. Discipline(Everywhere)' /\ Untimed'
  BY AcquireKeepsDiscipline, AcquireKeepsUntimed DEF Everywhere, Inside, Places
<1>2. /\ cond_queue_' \in Seq(Fibers) /\ IsInjective(cond_queue_')
      /\ ToSet(cond_queue_') = ToSet(cond_queue_) \ {f}
  BY UnlinkAny DEF WaiterIsReachable
<1>3. /\ at' = [at EXCEPT ![f] = at'[f]] /\ at'[f] \in {"runs", "waits"}
      /\ held' \in [Fibers -> 0..1]
      /\ owner_' # NoFiber => count_' = 1
      /\ \A g \in Fibers : g # f => held'[g] = held[g]
  BY DEF Acquire, Take, Queue, Discipline
<1>4. \A g \in Fibers : at'[g] \in CondPlaces => held'[g] = 0
  BY <1>3 DEF Discipline, CondPlaces
<1>5. WaiterIsReachable'
  BY <1>2, <1>3 DEF WaiterIsReachable, Discipline
<1> QED BY <1>1, <1>2, <1>3, <1>4, <1>5

LEMMA CallsKeepCond ==
    ASSUME CondInv, NEW f \in Fibers, UNCHANGED cond_queue_,
           TryLock(f) \/ TryLockReturns(f) \/ LockReturns(f)
    PROVE  CondInv'
<1> USE DEF CondInv, MutexOfWaiters
<1>1. Discipline(Everywhere)' /\ Untimed'
  BY CallsKeepDiscipline, CallsKeepUntimed DEF Everywhere
<1>2. /\ at' = [at EXCEPT ![f] = at'[f]]
      /\ at[f] \in {"runs", "tries", "granted"} /\ at'[f] \in {"runs", "tries"}
      /\ \A g \in Fibers : g # f => held'[g] = held[g]
  BY DEF TryLock, TryLockReturns, LockReturns, Discipline
<1>3. owner_' # NoFiber => count_' = 1
  BY DEF TryLock, TryLockReturns, LockReturns
<1>4. held' \in [Fibers -> 0..1]
  <2>1. CASE UNCHANGED held
    BY <2>1
  <2>2. CASE owner_ = f /\ at[f] \in {"tries", "granted"} /\ held' = [held EXCEPT ![f] = @ + 1]
    BY <2>2, MutexAssumption DEF Untimed, CountIsHeld
  <2> QED BY <2>1, <2>2 DEF TryLock, TryLockReturns, LockReturns, GrantedOwns, Discipline
<1>5. \A g \in Fibers : at'[g] \in CondPlaces => held'[g] = 0
  BY <1>2 DEF Discipline, CondPlaces
<1>6. WaiterIsReachable'
  BY <1>2 DEF WaiterIsReachable, Discipline
<1> QED BY <1>1, <1>3, <1>4, <1>5, <1>6

\* Who holds the mutex owns it, and locked it once.
LEMMA HolderLockedOnce ==
    ASSUME CondInv, NEW f \in Fibers, at[f] = "runs", held[f] > 0
    PROVE  owner_ = f /\ count_ = 1 /\ held[f] = 1
BY MutexAssumption DEF CondInv, MutexOfWaiters, Discipline, HolderOwns

\* unlock(), alone or in wait() or before a notification.
LEMMA PassOnKeepsWaiters ==
    ASSUME CondInv, NEW f \in Fibers, at[f] = "runs", held[f] > 0, PassOn(f),
           at' \in [Fibers -> Everywhere],
           \A h \in Fibers : \/ wait_queue_ # <<>> /\ h = Head(wait_queue_)
                             \/ at'[h] = at[h]
                             \/ (at[h] \notin Inside /\ at'[h] \notin Inside)
    PROVE  MutexOfWaiters'
<1>1. owner_ = f /\ count_ = 1 /\ held[f] = 1
  BY HolderLockedOnce
<1>2. Discipline(Everywhere)' /\ Untimed'
  BY <1>1, PassOnKeepsMutex DEF CondInv, MutexOfWaiters, Everywhere
<1>3. held' \in [Fibers -> 0..1] /\ \A h \in Fibers : held'[h] = 0
  <2>1. held \in [Fibers -> 0..1] /\ held' = [held EXCEPT ![f] = 0]
    BY DEF PassOn, CondInv, MutexOfWaiters
  <2>2. \A h \in Fibers \ {f} : held[h] = 0
    BY <1>1 DEF CondInv, MutexOfWaiters, Discipline, HolderOwns
  <2> QED BY <2>1, <2>2
<1>4. owner_' # NoFiber => count_' = 1
  BY DEF PassOn
<1> QED BY <1>2, <1>3, <1>4 DEF MutexOfWaiters

\* The fiber that is given the mutex was in lock().
LEMMA NextIsElsewhere ==
    ASSUME CondInv, wait_queue_ # <<>>
    PROVE  /\ Head(wait_queue_) \in Fibers /\ at[Head(wait_queue_)] = "waits"
           /\ Head(wait_queue_) \notin ToSet(cond_queue_)
           /\ Readied(at[Head(wait_queue_)]) = "granted"
<1>1. /\ Head(wait_queue_) \in Fibers /\ at[Head(wait_queue_)] = "waits"
      /\ Readied(at[Head(wait_queue_)]) = "granted"
  BY FirstWaits DEF CondInv, MutexOfWaiters
<1> QED BY <1>1, LinkedWait DEF CondPlaces

LEMMA UnlockKeepsCond ==
    ASSUME CondInv, NEW f \in Fibers, Unlock(f), UNCHANGED cond_queue_
    PROVE  CondInv'
<1>1. owner_ = f /\ count_ = 1 /\ held[f] = 1 /\ at[f] = "runs"
  BY HolderLockedOnce DEF Unlock
<1>2. held' = [held EXCEPT ![f] = 0] /\ (HandOver \/ SetFree)
  BY <1>1 DEF Unlock
<1>3. at' = IF wait_queue_ = <<>> THEN at ELSE [at EXCEPT ![Head(wait_queue_)] = "granted"]
  BY <1>2, NextIsElsewhere DEF HandOver, SetFree
<1>4. PassOn(f) /\ at' \in [Fibers -> Everywhere]
  BY <1>2, <1>3, NextIsElsewhere
     DEF PassOn, HandOver, SetFree, NextOwner, CountOfNextOwner, Others,
         CondInv, MutexOfWaiters, Discipline, Everywhere, Places
<1>5. \A h \in Fibers : (wait_queue_ # <<>> /\ h = Head(wait_queue_)) \/ at'[h] = at[h]
  BY <1>3 DEF CondInv, MutexOfWaiters, Discipline
<1>6. MutexOfWaiters'
  BY <1>1, <1>4, <1>5, PassOnKeepsWaiters
<1>7. WaiterIsReachable'
  BY <1>3, NextIsElsewhere DEF WaiterIsReachable, CondInv, MutexOfWaiters, Discipline
<1> QED BY <1>6, <1>7 DEF CondInv

\* wait() and wait_until() up to the suspension.
LEMMA WaitKeepsCond ==
    ASSUME CondInv, NEW f \in Fibers, Wait(f) \/ WaitUntil(f)
    PROVE  CondInv'
<1> PICK place \in {"blocked", "dozes"} : Release(f, place)
  BY DEF Wait, WaitUntil
<1>1. at[f] = "runs" /\ held[f] > 0 /\ cond_queue_' = Append(cond_queue_, f)
  BY DEF Wait, WaitUntil
<1>2. at \in [Fibers -> Everywhere] /\ cond_queue_ \in Seq(Fibers)
  BY DEF CondInv, MutexOfWaiters, Discipline
<1>3. /\ at' \in [Fibers -> Everywhere]
      /\ at'[f] = place
      /\ wait_queue_ # <<>> => at'[Head(wait_queue_)] = "granted"
      /\ \A h \in Fibers \ {f} : (wait_queue_ # <<>> /\ h = Head(wait_queue_)) \/ at'[h] = at[h]
  <2>1. CASE wait_queue_ = <<>>
    BY <1>1, <1>2, <2>1 DEF Release, Everywhere, CondPlaces
  <2>2. CASE wait_queue_ # <<>>
    <3>1. Head(wait_queue_) \in Fibers \ {f} /\ Readied(at[Head(wait_queue_)]) = "granted"
      BY <1>1, <2>2, NextIsElsewhere
    <3>2. at' = [at EXCEPT ![f] = place, ![Head(wait_queue_)] = "granted"]
      BY <2>2, <3>1 DEF Release
    <3> QED BY <1>2, <2>2, <3>1, <3>2 DEF Everywhere, CondPlaces, Places
  <2> QED BY <2>1, <2>2
<1>4. PassOn(f)
  BY <1>3 DEF Release, PassOn, NextOwner, CountOfNextOwner, Others
<1>5. MutexOfWaiters'
  BY <1>1, <1>3, <1>4, PassOnKeepsWaiters DEF Inside, Places
<1>6. f \notin ToSet(cond_queue_)
  BY <1>1, LinkedWait DEF CondPlaces
<1>7. /\ cond_queue_' \in Seq(Fibers) /\ IsInjective(cond_queue_')
      /\ ToSet(cond_queue_') = ToSet(cond_queue_) \cup {f}
  BY <1>1, <1>2, <1>6, LinkLast DEF CondInv, WaiterIsReachable
<1>8. WaiterIsReachable'
  BY <1>3, <1>7, NextIsElsewhere DEF WaiterIsReachable, CondInv
<1> QED BY <1>5, <1>7, <1>8 DEF CondInv

\* The notifications, and the deadlines of wait_until().
LEMMA NotifyKeepsCond ==
    ASSUME CondInv, NEW f \in Fibers, NotifyOne(f) \/ NotifyAll(f) \/ CondExpire(f)
    PROVE  CondInv'
<1>1. /\ at \in [Fibers -> Everywhere] /\ cond_queue_ \in Seq(Fibers)
      /\ IsInjective(cond_queue_)
  BY DEF CondInv, MutexOfWaiters, Discipline, WaiterIsReachable
<1>2. SUFFICES /\ at' \in [Fibers -> Everywhere]
               /\ \A h \in Fibers : at'[h] = at[h] \/ (at[h] \in CondPlaces /\ at'[h] \in CondPlaces)
               /\ UNCHANGED <<owner_, count_, wait_queue_, held>>
               /\ cond_queue_' \in Seq(Fibers)
               /\ WaiterIsReachable'
  <2> SUFFICES MutexOfWaiters'
    BY <1>2 DEF CondInv
  <2>1. Discipline(Everywhere)' /\ Untimed'
    BY <1>2, ElsewhereKeepsMutex
       DEF CondInv, MutexOfWaiters, Everywhere, Inside, Places, CondPlaces
  <2> QED BY <1>2, <2>1 DEF CondInv, MutexOfWaiters
<1>3. CASE NotifyOne(f)
  <2> DEFINE g == Head(cond_queue_)
  <2>1. /\ g \in Fibers /\ g \in ToSet(cond_queue_) /\ at[g] \in CondPlaces
        /\ cond_queue_' \in Seq(Fibers) /\ IsInjective(cond_queue_')
        /\ ToSet(cond_queue_') = ToSet(cond_queue_) \ {g}
    BY <1>1, <1>3, UnlinkFirst, LinkedWait DEF NotifyOne
  <2>2. at' = [at EXCEPT ![g] = "notified"]
    BY <1>3 DEF NotifyOne
  <2> HIDE DEF g
  <2>3. WaiterIsReachable'
    BY <1>1, <2>1, <2>2 DEF WaiterIsReachable, CondInv
  <2> QED BY <1>1, <1>3, <2>1, <2>2, <2>3 DEF NotifyOne, Everywhere, CondPlaces
<1>4. CASE NotifyAll(f)
  <2>1. /\ cond_queue_' = <<>>
        /\ at' = [g \in Fibers |-> IF g \in ToSet(cond_queue_) THEN "notified" ELSE at[g]]
    BY <1>4 DEF NotifyAll, AllLinked
  <2>2. WaiterIsReachable'
    BY <2>1 DEF WaiterIsReachable, CondInv, IsInjective, ToSet
  <2> QED BY <1>1, <1>4, <2>1, <2>2, LinkedWait DEF NotifyAll, Everywhere, CondPlaces
<1>5. CASE CondExpire(f)
  <2>1. WaiterIsReachable'
    BY <1>1, <1>5 DEF WaiterIsReachable, CondInv, CondExpire
  <2> QED BY <1>1, <1>5, <2>1 DEF CondExpire, Everywhere, CondPlaces
<1> QED BY <1>3, <1>4, <1>5

LEMMA CondKeepsInv ==
    ASSUME CondInv, CondNext
    PROVE  CondInv'
<1> PICK f \in Fibers :
        \/ OfMutex(Lock(f)) \/ OfMutex(TryLock(f)) \/ OfMutex(TryLockReturns(f))
        \/ OfMutex(Unlock(f)) \/ OfMutex(LockReturns(f))
        \/ Wait(f) \/ WaitUntil(f) \/ NotifyOne(f) \/ NotifyAll(f)
        \/ CondExpire(f) \/ WaitResumes(f)
  BY DEF CondNext
<1>1. CASE OfMutex(Lock(f))
  <2>1. f \notin ToSet(cond_queue_)
    BY <1>1, LinkedWait DEF OfMutex, Lock, CondPlaces
  <2> QED BY <1>1, <2>1, AcquireKeepsCond DEF OfMutex, Lock, Unlink
<1>2. CASE OfMutex(TryLock(f)) \/ OfMutex(TryLockReturns(f)) \/ OfMutex(LockReturns(f))
  BY <1>2, CallsKeepCond DEF OfMutex
<1>3. CASE OfMutex(Unlock(f))
  BY <1>3, UnlockKeepsCond DEF OfMutex
<1>4. CASE WaitResumes(f)
  BY <1>4, AcquireKeepsCond DEF WaitResumes, Unlinked
<1> QED BY <1>1, <1>2, <1>3, <1>4, WaitKeepsCond, NotifyKeepsCond

(***************************************************************************)
(* wait() uses the mutex as any client does.                               *)
(***************************************************************************)

\* What the mutex sees of where the fibers are.
Seen == [f \in Fibers |-> IF at[f] \in CondPlaces THEN "runs" ELSE at[f]]

LEMMA SeenInit == CondInit => AsSeenByMutex!Init
<1> SUFFICES ASSUME CondInit PROVE AsSeenByMutex!Init
  OBVIOUS
<1>1. Seen = [f \in Fibers |-> "runs"]
  BY DEF CondInit, Init, Seen, CondPlaces
<1> QED BY <1>1 DEF CondInit, Init, AsSeenByMutex!Init, Seen

\* One fiber goes somewhere.
LEMMA SeenMoves ==
    ASSUME at \in [Fibers -> Everywhere], NEW f \in Fibers, NEW place,
           at' = [at EXCEPT ![f] = place]
    PROVE  /\ place \notin CondPlaces => Seen' = [Seen EXCEPT ![f] = place]
           /\ place \in CondPlaces => Seen' = [Seen EXCEPT ![f] = "runs"]
           /\ at[f] = "runs" => Seen[f] = "runs"
           /\ at[f] \in CondPlaces => Seen[f] = "runs"
           /\ at[f] \notin CondPlaces => Seen[f] = at[f]
BY DEF Seen, CondPlaces

LEMMA SeenAcquires ==
    ASSUME at \in [Fibers -> Everywhere], NEW f \in Fibers, Acquire(f),
           at[f] \in CondPlaces \cup {"runs"}, owner_ # f
    PROVE  AsSeenByMutex!Lock(f)
<1>1. Seen[f] = "runs"
  BY DEF Seen
<1>2. CASE IsFree /\ Take(f)
  <2>1. Seen' = [Seen EXCEPT ![f] = "runs"]
    BY <1>2, SeenMoves DEF Take, CondPlaces
  <2> QED
    BY <1>1, <1>2, <2>1
       DEF Take, IsFree, AsSeenByMutex!Lock, AsSeenByMutex!Acquire, AsSeenByMutex!Take,
           AsSeenByMutex!IsFree, Seen
<1>3. CASE ~IsFree /\ Queue(f, "waits")
  <2>1. Seen' = [Seen EXCEPT ![f] = "waits"]
    BY <1>3, SeenMoves DEF Queue, CondPlaces
  <2> QED
    BY <1>1, <1>3, <2>1
       DEF Queue, IsFree, AsSeenByMutex!Lock, AsSeenByMutex!Acquire, AsSeenByMutex!Queue,
           AsSeenByMutex!IsFree, Seen
<1> QED BY <1>2, <1>3 DEF Acquire

LEMMA SeenCalls ==
    ASSUME at \in [Fibers -> Everywhere], NEW f \in Fibers,
           TryLock(f) \/ TryLockReturns(f) \/ LockReturns(f)
    PROVE  \/ AsSeenByMutex!TryLock(f) \/ AsSeenByMutex!TryLockReturns(f)
           \/ AsSeenByMutex!LockReturns(f)
<1>1. CASE TryLock(f)
  <2>1. Seen[f] = "runs" /\ Seen' = [Seen EXCEPT ![f] = "tries"]
    BY <1>1, SeenMoves DEF TryLock, CondPlaces
  <2> QED BY <1>1, <2>1 DEF TryLock, IsFree, AsSeenByMutex!TryLock, AsSeenByMutex!IsFree, Seen
<1>2. CASE TryLockReturns(f)
  <2>1. Seen[f] = "tries" /\ Seen' = [Seen EXCEPT ![f] = "runs"]
    BY <1>2, SeenMoves DEF TryLockReturns, CondPlaces
  <2> QED BY <1>2, <2>1 DEF TryLockReturns, AsSeenByMutex!TryLockReturns, Seen
<1>3. CASE LockReturns(f)
  <2>1. Seen[f] = "granted" /\ Seen' = [Seen EXCEPT ![f] = "runs"]
    BY <1>3, SeenMoves DEF LockReturns, CondPlaces
  <2> QED BY <1>3, <2>1 DEF LockReturns, AsSeenByMutex!LockReturns, Seen
<1> QED BY <1>1, <1>2, <1>3

\* unlock() by a caller who then is at place, and who holds the mutex once.
LEMMA SeenPassesOn ==
    ASSUME CondInv, NEW f \in Fibers, at[f] = "runs", held[f] > 0,
           NEW place \in {"runs", "blocked", "dozes"}, PassOn(f),
           at' = IF wait_queue_ = <<>> THEN [at EXCEPT ![f] = place]
                 ELSE [at EXCEPT ![f] = place, ![Head(wait_queue_)] = "granted"]
    PROVE  AsSeenByMutex!Unlock(f)
<1>0. owner_ = f /\ count_ = 1 /\ held[f] = 1
  BY HolderLockedOnce
<1>1. owner_ = f /\ count_ = 1 /\ held[f] = 1 /\ held' = [held EXCEPT ![f] = held[f] - 1]
  BY <1>0 DEF PassOn
<1>2. at \in [Fibers -> Everywhere] /\ Seen[f] = "runs"
  BY DEF CondInv, MutexOfWaiters, Discipline, Seen, CondPlaces
<1>3. CASE wait_queue_ = <<>>
  <2>1. Seen' = Seen
    BY <1>2, <1>3, SeenMoves DEF Seen, CondPlaces
  <2> QED
    BY <1>1, <1>2, <1>3, <2>1 DEF PassOn, AsSeenByMutex!Unlock, AsSeenByMutex!SetFree, Seen
<1>4. CASE wait_queue_ # <<>>
  <2> DEFINE g == Head(wait_queue_)
  <2>1. g \in Fibers \ {f} /\ at[g] = "waits"
    BY <1>4, NextIsElsewhere
  <2>2. Seen[g] = "waits" /\ Seen' = [Seen EXCEPT ![g] = "granted"]
    BY <1>2, <1>4, <2>1 DEF Seen, CondPlaces
  <2>3. AsSeenByMutex!Readied(Seen[g]) = "granted"
    BY <2>2 DEF AsSeenByMutex!Readied
  <2>4. AsSeenByMutex!HandOver
    BY <1>4, <2>2, <2>3
       DEF PassOn, AsSeenByMutex!HandOver, AsSeenByMutex!NextOwner,
           AsSeenByMutex!CountOfNextOwner, AsSeenByMutex!Others, Seen
  <2> QED BY <1>1, <1>2, <2>4 DEF AsSeenByMutex!Unlock, Seen
<1> QED BY <1>3, <1>4

LEMMA WaitIsUnlock ==
    ASSUME CondInv, CondNext
    PROVE  AsSeenByMutex!Next \/ UNCHANGED AsSeenByMutex!vars
<1> PICK f \in Fibers :
        \/ OfMutex(Lock(f)) \/ OfMutex(TryLock(f)) \/ OfMutex(TryLockReturns(f))
        \/ OfMutex(Unlock(f)) \/ OfMutex(LockReturns(f))
        \/ Wait(f) \/ WaitUntil(f) \/ NotifyOne(f) \/ NotifyAll(f)
        \/ CondExpire(f) \/ WaitResumes(f)
  BY DEF CondNext
<1>1. at \in [Fibers -> Everywhere]
  BY DEF CondInv, MutexOfWaiters, Discipline
<1>2. SUFFICES ASSUME ~ UNCHANGED AsSeenByMutex!vars
               PROVE  \/ AsSeenByMutex!Lock(f) \/ AsSeenByMutex!TryLock(f)
                      \/ AsSeenByMutex!TryLockReturns(f) \/ AsSeenByMutex!LockReturns(f)
                      \/ AsSeenByMutex!Unlock(f)
  BY <1>2 DEF AsSeenByMutex!Next
<1>3. CASE OfMutex(Lock(f))
  BY <1>1, <1>3, SeenAcquires DEF OfMutex, Lock
<1>4. CASE OfMutex(TryLock(f)) \/ OfMutex(TryLockReturns(f)) \/ OfMutex(LockReturns(f))
  BY <1>1, <1>4, SeenCalls DEF OfMutex
<1>5. CASE WaitResumes(f)
  <2>1. owner_ # f
    BY <1>5, MutexAssumption
       DEF WaitResumes, CondInv, MutexOfWaiters, Untimed, CountIsHeld, CondPlaces
  <2> QED BY <1>1, <1>5, <2>1, SeenAcquires DEF WaitResumes, CondPlaces
<1>6. CASE OfMutex(Unlock(f))
  <2>1. owner_ = f /\ count_ = 1 /\ held[f] = 1 /\ at[f] = "runs" /\ held[f] > 0
    BY <1>6, HolderLockedOnce DEF OfMutex, Unlock
  <2>2. held' = [held EXCEPT ![f] = 0] /\ (HandOver \/ SetFree)
    BY <1>6, <2>1 DEF OfMutex, Unlock
  <2>3. at' = IF wait_queue_ = <<>> THEN [at EXCEPT ![f] = "runs"]
              ELSE [at EXCEPT ![f] = "runs", ![Head(wait_queue_)] = "granted"]
    BY <1>1, <2>1, <2>2, NextIsElsewhere DEF HandOver, SetFree
  <2>4. PassOn(f)
    BY <1>1, <2>2, <2>3, NextIsElsewhere
       DEF PassOn, HandOver, SetFree, NextOwner, CountOfNextOwner, Others
  <2> QED BY <2>1, <2>3, <2>4, SeenPassesOn
<1>7. CASE Wait(f) \/ WaitUntil(f)
  <2> PICK place \in {"blocked", "dozes"} : Release(f, place)
    BY <1>7 DEF Wait, WaitUntil
  <2>1. at[f] = "runs" /\ held[f] > 0
    BY <1>7 DEF Wait, WaitUntil
  <2>2. at' = IF wait_queue_ = <<>> THEN [at EXCEPT ![f] = place]
              ELSE [at EXCEPT ![f] = place, ![Head(wait_queue_)] = "granted"]
    <3>1. CASE wait_queue_ = <<>>
      BY <3>1 DEF Release
    <3>2. CASE wait_queue_ # <<>>
      <4>1. Head(wait_queue_) \in Fibers \ {f} /\ Readied(at[Head(wait_queue_)]) = "granted"
        BY <2>1, <3>2, NextIsElsewhere
      <4> QED BY <3>2, <4>1 DEF Release
    <3> QED BY <3>1, <3>2
  <2>3. PassOn(f)
    BY <1>1, <2>1, <2>2, NextIsElsewhere DEF Release, PassOn, NextOwner, CountOfNextOwner, Others
  <2> QED BY <2>1, <2>2, <2>3, SeenPassesOn
<1>8. ~ (NotifyOne(f) \/ NotifyAll(f) \/ CondExpire(f))
  <2> SUFFICES ASSUME NotifyOne(f) \/ NotifyAll(f) \/ CondExpire(f)
               PROVE  UNCHANGED AsSeenByMutex!vars
    BY <1>2
  <2>1. \A h \in Fibers : at'[h] = at[h] \/ (at[h] \in CondPlaces /\ at'[h] \in CondPlaces)
    <3>1. cond_queue_ # <<>> => Head(cond_queue_) \in ToSet(cond_queue_)
      BY UnlinkFirst DEF CondInv, WaiterIsReachable
    <3> QED BY <1>1, <3>1, LinkedWait DEF NotifyOne, NotifyAll, AllLinked, CondExpire, CondPlaces
  <2>2. Seen' = Seen
    BY <2>1 DEF Seen
  <2> QED BY <2>2 DEF AsSeenByMutex!vars, Seen, NotifyOne, NotifyAll, CondExpire
<1> QED BY <1>3, <1>4, <1>5, <1>6, <1>7, <1>8

(***************************************************************************)
(* The state of a promise.                                                 *)
(***************************************************************************)

\* Who has a reference to the state: by a future, or in a get() that took the
\* reference out of the future.
Refs == {f \in Fibers : has[f] \/ call[f] = "get"}

\* The value is constructed with mtx_ held, and only while there is none.
StoringHolds ==
    storing # NoFiber =>
        ~ready_ /\ at[storing] = "runs" /\ held[storing] > 0 /\ call[storing] \in {"set", "run"}

\* Calls of the promise find the promise, and end before it does.
PromiseCalls ==
    /\ \A f \in Fibers : call[f] \in Satisfying => f \in Setters
    /\ \A f \in Fibers : call[f] \in Satisfying \cup {"destroy"} => future_
    /\ \A f, g \in Fibers :
            call[f] = "destroy" /\ f # g => call[g] \notin Satisfying \cup {"destroy"}

\* Until there is a shared_future one fiber has the reference of the futures; and
\* a get() that took it is the only one that has it.
OneFuture ==
    /\ Refs # {} => obtained_
    /\ ~shared => \A f, g \in Refs : f = g
    /\ \A f \in Fibers : call[f] = "get" /\ ~has[f] => Refs = {f}
    /\ \A f \in Fibers : call[f] \in {"wait", "wait_until", "timed_out"} => has[f]

Counted == use_count_ = Cardinality(Refs) + (IF future_ THEN 1 ELSE 0)

StateInv ==
    /\ CondInv /\ StateTypeOK
    /\ FirstResultStands /\ StoringHolds
    /\ PromiseCalls /\ OneFuture /\ Counted

(***************************************************************************)
(* What the promise and its futures do with mtx_ and waiters_.             *)
(***************************************************************************)

LEMMA MarkReadyKeepsCond ==
    ASSUME CondInv, NEW f \in Fibers, at[f] = "runs", held[f] > 0, NEW r, MarkReady(f, r)
    PROVE  CondInv' /\ at'[f] = "runs"
<1>1. at \in [Fibers -> Everywhere]
  BY DEF CondInv, MutexOfWaiters, Discipline
<1>2. cond_queue_' = <<>> /\ at' = [g \in Fibers |->
                                        IF g \in ToSet(cond_queue_) THEN "notified"
                                        ELSE IF wait_queue_ # <<>> /\ g = Head(wait_queue_)
                                          THEN Readied(at[g]) ELSE at[g]]
  BY DEF MarkReady, NotifyWaiters, AllLinked
<1>3. \A h \in ToSet(cond_queue_) : h \in Fibers /\ h # f /\ at[h] \in CondPlaces
  BY LinkedWait DEF CondPlaces
<1>4. wait_queue_ # <<>> => at'[Head(wait_queue_)] = "granted" /\ Head(wait_queue_) # f
  BY <1>2, NextIsElsewhere
<1>5. at' \in [Fibers -> Everywhere]
  BY <1>1, <1>2, NextIsElsewhere DEF Everywhere, Places, CondPlaces
<1>6. PassOn(f)
  BY <1>4 DEF MarkReady, PassOn, NextOwner, CountOfNextOwner, Others
<1>7. \A h \in Fibers : \/ wait_queue_ # <<>> /\ h = Head(wait_queue_)
                        \/ at'[h] = at[h]
                        \/ (at[h] \notin Inside /\ at'[h] \notin Inside)
  BY <1>2, <1>3 DEF Inside, Places, CondPlaces
<1>8. MutexOfWaiters'
  BY <1>5, <1>6, <1>7, PassOnKeepsWaiters
<1>9. cond_queue_' \in Seq(Fibers) /\ IsInjective(cond_queue_') /\ ToSet(cond_queue_') = {}
  BY <1>2 DEF IsInjective, ToSet
<1>10. \A h \in Fibers : at'[h] \notin {"blocked", "dozes"}
  BY <1>2, NextIsElsewhere DEF CondInv, WaiterIsReachable
<1>11. at'[f] = "runs"
  BY <1>2, <1>3, <1>4
<1> QED BY <1>8, <1>9, <1>10, <1>11 DEF CondInv, WaiterIsReachable

LEMMA RelocksKeepsCond ==
    ASSUME CondInv, NEW f \in Fibers, at[f] = "runs", held[f] > 0, Relocks(f)
    PROVE  CondInv'
<1>1. CASE UNCHANGED condVars
  BY <1>1 DEF condVars, vars, CondInv, MutexOfWaiters, Discipline, Untimed, CountIsHeld,
              WaitersAreQueued, NoLostWakeup, HolderOwns, GrantedOwns, CountCovers,
              WaiterIsReachable
<1>2. CASE wait_queue_ # <<>>
  <2> DEFINE g == Head(wait_queue_)
  <2>1. /\ g \in Fibers \ {f} /\ at[g] = "waits" /\ g \notin ToSet(cond_queue_)
        /\ Readied(at[g]) = "granted" /\ g \in ToSet(wait_queue_)
    BY <1>2, NextIsElsewhere, UnlinkFirst DEF CondInv, MutexOfWaiters, Discipline, WaitersAreQueued
  <2>2. at \in [Fibers -> Everywhere] /\ owner_ = f /\ count_ = 1 /\ held[f] = 1
    BY HolderLockedOnce DEF CondInv, MutexOfWaiters, Discipline
  <2>3. /\ owner_' = g /\ count_' = 1 /\ held' = [held EXCEPT ![f] = 0]
        /\ at' = [at EXCEPT ![f] = "waits", ![g] = "granted"]
        /\ wait_queue_' = Append(Tail(wait_queue_), f) /\ UNCHANGED cond_queue_
    BY <1>2, <2>1 DEF Relocks, NextOwner, CountOfNextOwner, Others
  <2>4. /\ Tail(wait_queue_) \in Seq(Fibers) /\ IsInjective(Tail(wait_queue_))
        /\ ToSet(Tail(wait_queue_)) = ToSet(wait_queue_) \ {g} /\ f \notin ToSet(wait_queue_)
    BY <1>2, UnlinkFirst DEF CondInv, MutexOfWaiters, Discipline, WaitersAreQueued
  <2>5. /\ wait_queue_' \in Seq(Fibers) /\ IsInjective(wait_queue_')
        /\ ToSet(wait_queue_') = (ToSet(wait_queue_) \ {g}) \cup {f}
        /\ wait_queue_' # <<>>
    <3> DEFINE r == Tail(wait_queue_)
    <3>1. r \in Seq(Fibers) /\ IsInjective(r) /\ f \notin ToSet(r) /\ f \in Fibers
      BY <2>4
    <3>2. wait_queue_' = Append(r, f) /\ ToSet(r) = ToSet(wait_queue_) \ {g}
      BY <2>3, <2>4
    <3> HIDE DEF r
    <3>3. /\ Append(r, f) \in Seq(Fibers) /\ IsInjective(Append(r, f))
          /\ ToSet(Append(r, f)) = ToSet(r) \cup {f} /\ Append(r, f) # <<>>
      BY <3>1, LinkLast
    <3> HIDE DEF g
    <3> QED BY <3>2, <3>3
  <2> HIDE DEF g
  <2>6. /\ at' \in [Fibers -> Everywhere] /\ at'[f] = "waits" /\ at'[g] = "granted"
        /\ \A h \in Fibers \ {f, g} : at'[h] = at[h]
    BY <2>1, <2>2, <2>3 DEF Everywhere, Places
  <2>7. held' \in [Fibers -> 0..1] /\ \A h \in Fibers : held'[h] = 0
    <3>1. held \in [Fibers -> 0..1] /\ \A h \in Fibers \ {f} : held[h] = 0
      BY <2>2 DEF CondInv, MutexOfWaiters, Discipline, HolderOwns
    <3> QED BY <2>3, <3>1
  <2>8. WaitersAreQueued'
    BY <2>1, <2>5, <2>6 DEF CondInv, MutexOfWaiters, Discipline, WaitersAreQueued
  <2>9. GrantedOwns' /\ Untimed'
    BY <2>1, <2>2, <2>3, <2>6, <2>7
       DEF CondInv, MutexOfWaiters, Discipline, GrantedOwns, Untimed, CountIsHeld
  <2>10. NoLostWakeup' /\ HolderOwns' /\ CountCovers'
    BY <2>1, <2>3, <2>7, MutexAssumption DEF NoLostWakeup, HolderOwns, CountCovers
  <2>11. Discipline(Everywhere)'
    BY <2>1, <2>3, <2>5, <2>6, <2>7, <2>8, <2>9, <2>10 DEF Discipline
  <2>12. WaiterIsReachable'
    BY <2>1, <2>2, <2>3, <2>6 DEF CondInv, WaiterIsReachable
  <2> QED BY <2>3, <2>7, <2>9, <2>11, <2>12 DEF CondInv, MutexOfWaiters
<1> QED BY <1>1, <1>2 DEF Relocks, condVars

\* What a step of the promise or of a future does with mtx_ and waiters_.
LEMMA StateKeepsCond ==
    ASSUME CondInv, StateNext
    PROVE  CondInv'
<1> PICK f \in Fibers :
        \/ \E c \in Satisfying : Satisfy(f, c)
        \/ Destroy(f) \/ GetFuture(f) \/ Share(f) \/ DropFuture(f) \/ Get(f)
        \/ \E g \in Fibers : Copy(f, g) \/ Move(f, g)
        \/ \E c \in {"wait", "wait_until"} : WaitReady(f, c)
        \/ CondExpire(f) /\ UNCHANGED stateVars
        \/ Continues(f)
  BY DEF StateNext
<1>1. ASSUME UNCHANGED condVars PROVE CondInv'
  BY <1>1 DEF condVars, vars, CondInv, MutexOfWaiters, Discipline, Untimed, CountIsHeld,
              WaitersAreQueued, NoLostWakeup, HolderOwns, GrantedOwns, CountCovers,
              WaiterIsReachable
<1>2. ASSUME NEW c, Locks(f, c) PROVE CondInv'
  <2>1. f \notin ToSet(cond_queue_)
    BY <1>2, LinkedWait DEF Locks, Idle, CondPlaces
  <2> QED BY <1>2, <2>1, AcquireKeepsCond DEF Locks, Idle, OfMutex, Unlink
<1>3. ASSUME Returns(f) PROVE CondInv'
  BY <1>3, UnlockKeepsCond DEF Returns, OfMutex
<1>4. CASE \/ \E c \in Satisfying : Satisfy(f, c)
           \/ Destroy(f) \/ GetFuture(f) \/ Share(f) \/ DropFuture(f) \/ Get(f)
           \/ \E g \in Fibers : Copy(f, g) \/ Move(f, g)
           \/ \E c \in {"wait", "wait_until"} : WaitReady(f, c)
  BY <1>1, <1>2, <1>4
     DEF Satisfy, Destroy, GetFuture, Share, DropFuture, Get, Copy, Move, WaitReady
<1>5. CASE CondExpire(f)
  BY <1>5, NotifyKeepsCond
<1>6. CASE StoreBegins(f) \/ TimesOut(f) \/ ReturnsReady(f)
  BY <1>1, <1>3, <1>6 DEF StoreBegins, TimesOut, ReturnsReady
<1>7. CASE StoreEnds(f) \/ SetException(f) \/ Destroyed(f)
  BY <1>3, <1>7, MarkReadyKeepsCond DEF StoreEnds, SetException, Destroyed, In
<1>8. CASE StoreThrows(f)
  BY <1>3, <1>8, RelocksKeepsCond DEF StoreThrows, In
<1>9. CASE Blocks(f)
  BY <1>9, WaitKeepsCond DEF Blocks
<1>10. CASE Resumes(f)
  BY <1>10, AcquireKeepsCond DEF Resumes, WaitResumes, Unlinked
<1>11. CASE OfMutex(LockReturns(f))
  BY <1>11, CallsKeepCond DEF OfMutex
<1> QED BY <1>4, <1>5, <1>6, <1>7, <1>8, <1>9, <1>10, <1>11 DEF Continues

\* Whoever has mtx_ and runs keeps it until it acts.
LEMMA HolderStays ==
    ASSUME CondInv, NEW s \in Fibers, at[s] = "runs", held[s] > 0,
           NEW f \in Fibers, f # s,
           \/ UNCHANGED condVars \/ Acquire(f) \/ LockReturns(f) \/ CondExpire(f)
    PROVE  at'[s] = "runs" /\ held'[s] > 0
<1>1. owner_ = s /\ s # NoFiber
  BY HolderLockedOnce, MutexAssumption
<1>2. at \in [Fibers -> Everywhere] /\ held \in [Fibers -> 0..1]
  BY DEF CondInv, MutexOfWaiters, Discipline
<1> QED
  BY <1>1, <1>2
     DEF condVars, vars, Acquire, Take, Queue, IsFree, LockReturns, CondExpire

\* While one fiber constructs the value no other has mtx_.
LEMMA StoringKeeps ==
    ASSUME StateInv, StateNext
    PROVE  StoringHolds'
<1> PICK f \in Fibers :
        \/ \E c \in Satisfying : Satisfy(f, c)
        \/ Destroy(f) \/ GetFuture(f) \/ Share(f) \/ DropFuture(f) \/ Get(f)
        \/ \E g \in Fibers : Copy(f, g) \/ Move(f, g)
        \/ \E c \in {"wait", "wait_until"} : WaitReady(f, c)
        \/ CondExpire(f) /\ UNCHANGED stateVars
        \/ Continues(f)
  BY DEF StateNext
<1>1. /\ CondInv /\ storing \in Setters \cup {NoFiber} /\ Setters \subseteq Fibers
      /\ call \in [Fibers -> Satisfying \cup Reading \cup {"none", "destroy"}]
  BY SharedStateAssumption DEF StateInv, StateTypeOK
<1>2. \A g \in Fibers : at[g] = "runs" /\ held[g] > 0 => owner_ = g
  BY <1>1, HolderLockedOnce
<1>3. CASE storing = NoFiber
  <2>1. storing' # NoFiber => StoreBegins(f)
    BY <1>3 DEF Satisfy, Destroy, GetFuture, Share, DropFuture, Get, Copy, Move, WaitReady,
                stateVars, Continues, StoreEnds, StoreThrows, SetException, Destroyed, Blocks,
                Resumes, ReturnsReady, TimesOut
  <2>2. StoreBegins(f) => StoringHolds'
    BY DEF StoreBegins, StoringHolds, In, NotReady, condVars, vars
  <2> QED BY <2>1, <2>2 DEF StoringHolds
<1>4. CASE storing # NoFiber
  <2> DEFINE s == storing
  <2>1. /\ s \in Fibers /\ ~ready_ /\ at[s] = "runs" /\ held[s] > 0 /\ call[s] \in {"set", "run"}
    BY <1>1, <1>4 DEF StateInv, StoringHolds
  <2>2. CASE f = s
    <3>1. StoreEnds(f) \/ StoreThrows(f)
      BY <2>1, <2>2
         DEF Satisfy, Locks, Destroy, GetFuture, Share, DropFuture, Get, Copy, Move, WaitReady,
             Idle, CondExpire, Continues, StoreBegins, SetException, Destroyed, Blocks,
             Resumes, WaitResumes, ReturnsReady, TimesOut, In, Reading, OfMutex, LockReturns
    <3>2. storing' = NoFiber
      BY <1>1, <2>2, <3>1 DEF StoreEnds, StoreThrows
    <3> QED BY <3>2 DEF StoringHolds
  <2>3. CASE f # s
    <3>1. ~ (at[f] = "runs" /\ held[f] > 0)
      BY <1>2, <2>1, <2>3
    <3>2. \/ \E c \in Satisfying : Satisfy(f, c)
          \/ Destroy(f) \/ GetFuture(f) \/ Share(f) \/ DropFuture(f) \/ Get(f)
          \/ \E g \in Fibers : Copy(f, g) \/ Move(f, g)
          \/ \E c \in {"wait", "wait_until"} : WaitReady(f, c)
          \/ CondExpire(f) /\ UNCHANGED stateVars
          \/ Resumes(f) \/ (OfMutex(LockReturns(f)) /\ UNCHANGED stateVars)
      BY <3>1
         DEF Continues, StoreBegins, StoreEnds, StoreThrows, SetException, Destroyed, Blocks,
             ReturnsReady, TimesOut, In
    <3>3. UNCHANGED condVars \/ Acquire(f) \/ LockReturns(f) \/ CondExpire(f)
      BY <3>2
         DEF Satisfy, Locks, Destroy, GetFuture, Share, DropFuture, Get, Copy, Move, WaitReady,
             Resumes, WaitResumes, OfMutex
    <3>4. /\ UNCHANGED <<ready_, storing>>
          /\ call' = [call EXCEPT ![f] = call'[f]] \/ UNCHANGED call
      BY <1>1, <3>2
         DEF Satisfy, Locks, Destroy, GetFuture, Share, DropFuture, Get, Copy, Move, WaitReady,
             Resumes, stateVars
    <3>5. at'[s] = "runs" /\ held'[s] > 0
      BY <1>1, <2>1, <2>3, <3>3, HolderStays
    <3>6. call'[s] = call[s]
      BY <1>1, <2>1, <2>3, <3>4
    <3> QED BY <2>1, <3>4, <3>5, <3>6 DEF StoringHolds
  <2> QED BY <2>2, <2>3
<1> QED BY <1>3, <1>4

\* The result is set once: when there is none and nobody else is at it.
LEMMA ResultKeeps ==
    ASSUME StateInv, StateNext
    PROVE  /\ FirstResultStands'
           /\ ready_' \in BOOLEAN /\ result' \in Results \cup {"none"}
           /\ by' \in Setters \cup {NoFiber} /\ storing' \in Setters \cup {NoFiber}
           /\ stored' \subseteq Setters /\ got' \subseteq Results
<1> PICK f \in Fibers :
        \/ \E c \in Satisfying : Satisfy(f, c)
        \/ Destroy(f) \/ GetFuture(f) \/ Share(f) \/ DropFuture(f) \/ Get(f)
        \/ \E g \in Fibers : Copy(f, g) \/ Move(f, g)
        \/ \E c \in {"wait", "wait_until"} : WaitReady(f, c)
        \/ CondExpire(f) /\ UNCHANGED stateVars
        \/ Continues(f)
  BY DEF StateNext
<1>1. /\ ready_ \in BOOLEAN /\ result \in Results \cup {"none"}
      /\ by \in Setters \cup {NoFiber} /\ storing \in Setters \cup {NoFiber}
      /\ stored \subseteq Setters /\ got \subseteq Results
      /\ FirstResultStands
      /\ \A g \in Fibers : call[g] \in Satisfying => g \in Setters
  BY DEF StateInv, StateTypeOK, PromiseCalls
<1>2. CASE UNCHANGED <<ready_, result, by, storing, stored, got>>
  BY <1>1, <1>2 DEF FirstResultStands
<1>3. CASE StoreBegins(f)
  BY <1>1, <1>3 DEF StoreBegins, In, Satisfying, FirstResultStands
<1>4. CASE StoreThrows(f)
  BY <1>1, <1>4 DEF StoreThrows, FirstResultStands
<1>5. CASE ReturnsReady(f)
  BY <1>1, <1>5 DEF ReturnsReady, FirstResultStands, Results
<1>6. ASSUME ~ready_, ready_' = TRUE, storing' \in {storing, NoFiber}, UNCHANGED got,
             \/ /\ result' \in {"value", "exception"} /\ by' = f
                /\ stored' = stored \cup {f} /\ f \in Setters
             \/ result' = "broken" /\ UNCHANGED <<by, stored>>
      PROVE  /\ FirstResultStands'
             /\ ready_' \in BOOLEAN /\ result' \in Results \cup {"none"}
             /\ by' \in Setters \cup {NoFiber} /\ storing' \in Setters \cup {NoFiber}
             /\ stored' \subseteq Setters /\ got' \subseteq Results
  <2>1. result = "none" /\ stored = {} /\ got = {}
    BY <1>1, <1>6 DEF FirstResultStands, Results
  <2> QED BY <1>1, <1>6, <2>1 DEF FirstResultStands, Results
<1>7. CASE StoreEnds(f)
  <2>1. ~ready_ /\ call[f] \in Satisfying
    BY <1>7, MutexAssumption DEF StoreEnds, In, StateInv, StoringHolds, Satisfying
  <2> QED BY <1>1, <1>6, <1>7, <2>1 DEF StoreEnds, MarkReady
<1>8. CASE SetException(f)
  <2>1. call[f] \in Satisfying
    BY <1>8 DEF SetException, In, Satisfying
  <2>2. CASE ~ready_ /\ MarkReady(f, "exception") /\ by' = f /\ stored' = stored \cup {f}
    BY <1>1, <1>6, <1>8, <2>1, <2>2 DEF SetException, MarkReady
  <2> QED BY <1>2, <1>8, <2>2 DEF SetException
<1>9. CASE Destroyed(f)
  <2>1. CASE ~ready_ /\ MarkReady(f, "broken")
    BY <1>6, <1>9, <2>1 DEF Destroyed, MarkReady
  <2> QED BY <1>2, <1>9, <2>1 DEF Destroyed
<1>10. CASE \/ \E c \in Satisfying : Satisfy(f, c)
            \/ Destroy(f) \/ GetFuture(f) \/ Share(f) \/ DropFuture(f) \/ Get(f)
            \/ \E g \in Fibers : Copy(f, g) \/ Move(f, g)
            \/ \E c \in {"wait", "wait_until"} : WaitReady(f, c)
            \/ UNCHANGED stateVars
            \/ Blocks(f) \/ Resumes(f) \/ TimesOut(f)
  BY <1>2, <1>10
     DEF Satisfy, Destroy, GetFuture, Share, DropFuture, Get, Copy, Move, WaitReady, stateVars,
         Blocks, Resumes, TimesOut
<1> QED BY <1>3, <1>4, <1>5, <1>7, <1>8, <1>9, <1>10 DEF Continues

(***************************************************************************)
(* The references: each lemma is about one way in which they change.       *)
(***************************************************************************)

RefInv == PromiseCalls /\ OneFuture /\ Counted

RefTypeOK ==
    /\ use_count_ \in Nat
    /\ future_ \in BOOLEAN /\ obtained_ \in BOOLEAN /\ shared \in BOOLEAN
    /\ has \in [Fibers -> BOOLEAN]
    /\ call \in [Fibers -> Satisfying \cup Reading \cup {"none", "destroy"}]

LEMMA RefsAreFinite == IsFiniteSet(Refs) /\ Cardinality(Refs) \in Nat
<1>1. IsFiniteSet(Fibers)
  BY SyncAssumption DEF All!BarrierAssumption, All!IsFiniteSet, IsFiniteSet
<1> QED BY <1>1, FS_Subset, FS_CardinalityType DEF Refs

\* A reference more, a reference less, and one that changes hands.
LEMMA OneMore ==
    ASSUME NEW f, f \notin Refs, Refs' = Refs \cup {f}
    PROVE  Cardinality(Refs') = Cardinality(Refs) + 1
BY RefsAreFinite, FS_AddElement

LEMMA OneLess ==
    ASSUME NEW f \in Refs, Refs' = Refs \ {f}
    PROVE  Cardinality(Refs') = Cardinality(Refs) - 1 /\ Cardinality(Refs) >= 1
<1>1. Cardinality(Refs') = Cardinality(Refs) - 1
  BY RefsAreFinite, FS_RemoveElement
<1>2. Cardinality(Refs) # 0
  BY RefsAreFinite, FS_EmptySet
<1> QED BY <1>1, <1>2, RefsAreFinite

LEMMA HandedOn ==
    ASSUME NEW f \in Refs, NEW g, g \notin Refs, Refs' = (Refs \ {f}) \cup {g}
    PROVE  Cardinality(Refs') = Cardinality(Refs)
<1>1. Cardinality(Refs \ {f}) = Cardinality(Refs) - 1 /\ IsFiniteSet(Refs \ {f})
  BY RefsAreFinite, FS_RemoveElement
<1>2. Cardinality((Refs \ {f}) \cup {g}) = Cardinality(Refs \ {f}) + 1
  BY <1>1, FS_AddElement
<1> QED BY <1>1, <1>2, RefsAreFinite

\* A call other than get() begins.
LEMMA CallBegins ==
    ASSUME RefInv, RefTypeOK, NEW f \in Fibers, NEW c, call[f] = "none",
           call' = [call EXCEPT ![f] = c],
           UNCHANGED <<use_count_, future_, obtained_, shared, has>>,
           \/ /\ c \in Satisfying /\ f \in Setters
              /\ future_ /\ \A g \in Fibers : call[g] # "destroy"
           \/ /\ c = "destroy"
              /\ future_ /\ \A g \in Fibers : call[g] \notin Satisfying \cup {"destroy"}
           \/ c \in {"wait", "wait_until"} /\ has[f]
    PROVE  RefInv' /\ RefTypeOK'
<1> USE DEF RefTypeOK, Satisfying, Reading
<1>1. Refs' = Refs
  BY DEF Refs
<1>2. PromiseCalls'
  BY DEF RefInv, PromiseCalls
<1>3. OneFuture'
  BY <1>1 DEF RefInv, OneFuture
<1>4. Counted'
  BY <1>1 DEF RefInv, Counted
<1> QED BY <1>2, <1>3, <1>4 DEF RefInv

LEMMA GetBegins ==
    ASSUME RefInv, RefTypeOK, NEW f \in Fibers, Get(f)
    PROVE  RefInv' /\ RefTypeOK'
<1> USE DEF RefTypeOK, Satisfying, Reading, Get, Locks, Idle, Swapped
<1>1. Refs' = Refs /\ f \in Refs
  BY DEF Refs
<1>2. PromiseCalls'
  BY DEF RefInv, PromiseCalls
<1>3. ~shared => Refs = {f}
  BY <1>1 DEF RefInv, OneFuture, Refs
<1>4. OneFuture'
  BY <1>1, <1>3 DEF RefInv, OneFuture
<1>5. Counted'
  BY <1>1 DEF RefInv, Counted
<1> QED BY <1>2, <1>4, <1>5 DEF RefInv

\* A call other than get() ends, or goes on as another.
LEMMA CallEnds ==
    ASSUME RefInv, RefTypeOK, NEW f \in Fibers, NEW c,
           \/ call[f] \in Satisfying /\ c = "none"
           \/ call[f] = "run" /\ c = "except"
           \/ call[f] \in {"wait", "wait_until", "timed_out"} /\ c \in {"none", "timed_out"},
           call' = [call EXCEPT ![f] = c],
           UNCHANGED <<use_count_, future_, obtained_, shared, has>>
    PROVE  RefInv' /\ RefTypeOK'
<1> USE DEF RefTypeOK, Satisfying, Reading
<1>1. Refs' = Refs
  BY DEF Refs
<1>2. PromiseCalls'
  BY DEF RefInv, PromiseCalls
<1>3. OneFuture'
  BY <1>1 DEF RefInv, OneFuture
<1>4. Counted'
  BY <1>1 DEF RefInv, Counted
<1> QED BY <1>2, <1>3, <1>4 DEF RefInv

\* get() ends, and with it the reference that it took out of the future.
LEMMA GetEnds ==
    ASSUME RefInv, RefTypeOK, NEW f \in Fibers, call[f] = "get",
           call' = [call EXCEPT ![f] = "none"],
           use_count_' = IF has[f] THEN use_count_ ELSE use_count_ - 1,
           UNCHANGED <<future_, obtained_, shared, has>>
    PROVE  RefInv' /\ RefTypeOK'
<1> USE DEF RefTypeOK, Satisfying, Reading
<1>1. f \in Refs /\ Refs' = IF has[f] THEN Refs ELSE Refs \ {f}
  BY DEF Refs
<1>2. PromiseCalls'
  BY DEF RefInv, PromiseCalls
<1>3. OneFuture'
  <2>1. \A g \in Fibers : call'[g] = "get" /\ ~has'[g] => Refs' = {g}
    BY <1>1 DEF RefInv, OneFuture
  <2> QED BY <1>1, <2>1 DEF RefInv, OneFuture
<1>4. Counted' /\ use_count_' \in Nat
  <2>1. CASE has[f]
    BY <1>1, <2>1 DEF RefInv, Counted
  <2>2. CASE ~has[f]
    <3>1. Cardinality(Refs') = Cardinality(Refs) - 1 /\ Cardinality(Refs) >= 1
      BY <1>1, <2>2, OneLess
    <3> QED BY <2>2, <3>1, RefsAreFinite DEF RefInv, Counted
  <2> QED BY <2>1, <2>2
<1> QED BY <1>2, <1>3, <1>4 DEF RefInv

LEMMA PromiseEnds ==
    ASSUME RefInv, RefTypeOK, NEW f \in Fibers, call[f] = "destroy",
           call' = [call EXCEPT ![f] = "none"],
           future_' = FALSE, use_count_' = use_count_ - 1,
           UNCHANGED <<obtained_, shared, has>>
    PROVE  RefInv' /\ RefTypeOK'
<1> USE DEF RefTypeOK, Satisfying, Reading
<1>1. Refs' = Refs
  BY DEF Refs
<1>2. PromiseCalls'
  BY DEF RefInv, PromiseCalls
<1>3. OneFuture'
  BY <1>1 DEF RefInv, OneFuture
<1>4. Counted' /\ use_count_' \in Nat
  <2>1. future_
    BY DEF RefInv, PromiseCalls
  <2> QED BY <1>1, <2>1, RefsAreFinite DEF RefInv, Counted
<1> QED BY <1>2, <1>3, <1>4 DEF RefInv

LEMMA FutureBegins ==
    ASSUME RefInv, RefTypeOK, NEW f \in Fibers, GetFuture(f)
    PROVE  RefInv' /\ RefTypeOK'
<1> USE DEF RefTypeOK, Satisfying, Reading, GetFuture, Idle
<1>1. Refs = {} /\ Refs' = {f}
  BY DEF RefInv, OneFuture, Refs
<1>2. PromiseCalls'
  BY DEF RefInv, PromiseCalls
<1>3. OneFuture'
  <2>1. \A g \in Fibers : call'[g] # "get"
    BY <1>1 DEF Refs
  <2> QED BY <1>1, <2>1 DEF RefInv, OneFuture
<1>4. Counted' /\ use_count_' \in Nat
  <2>1. Cardinality(Refs') = Cardinality(Refs) + 1
    BY <1>1, OneMore
  <2> QED BY <2>1, RefsAreFinite DEF RefInv, Counted
<1> QED BY <1>2, <1>3, <1>4 DEF RefInv

LEMMA FutureShares ==
    ASSUME RefInv, RefTypeOK, NEW f \in Fibers, Share(f)
    PROVE  RefInv' /\ RefTypeOK'
<1> USE DEF RefTypeOK, Share
<1>1. Refs' = Refs
  BY DEF Refs
<1>2. PromiseCalls' /\ OneFuture' /\ Counted'
  BY <1>1 DEF RefInv, PromiseCalls, OneFuture, Counted
<1> QED BY <1>2 DEF RefInv

\* Nobody but a fiber with a future may copy or move it, and g has none.
LEMMA TargetIsNew ==
    ASSUME RefInv, RefTypeOK, NEW f \in Fibers, NEW g \in Fibers, Idle(f), has[f], ~has[g]
    PROVE  f # g /\ g \notin Refs /\ call[g] \notin Reading
<1>1. f \in Refs /\ f # g
  BY DEF Refs
<1>2. call[g] # "get"
  BY <1>1 DEF RefInv, OneFuture
<1> QED BY <1>1, <1>2 DEF Refs, RefInv, OneFuture, Reading

LEMMA FutureCopies ==
    ASSUME RefInv, RefTypeOK, NEW f \in Fibers, NEW g \in Fibers, Copy(f, g)
    PROVE  RefInv' /\ RefTypeOK'
<1> USE DEF RefTypeOK, Copy
<1>1. f # g /\ g \notin Refs /\ call[g] \notin Reading
  BY TargetIsNew
<1>2. Refs' = Refs \cup {g}
  BY DEF Refs
<1>3. PromiseCalls'
  BY DEF RefInv, PromiseCalls
<1>4. OneFuture'
  <2>1. f \in Refs
    BY DEF Refs
  <2>2. \A h \in Fibers : ~ (call'[h] = "get" /\ ~has'[h])
    BY <1>1, <2>1 DEF RefInv, OneFuture, Idle
  <2> QED BY <1>1, <1>2, <2>1, <2>2 DEF RefInv, OneFuture
<1>5. Counted' /\ use_count_' \in Nat
  <2>1. Cardinality(Refs') = Cardinality(Refs) + 1
    BY <1>1, <1>2, OneMore
  <2> QED BY <2>1, RefsAreFinite DEF RefInv, Counted
<1> QED BY <1>3, <1>4, <1>5 DEF RefInv

LEMMA FutureMoves ==
    ASSUME RefInv, RefTypeOK, NEW f \in Fibers, NEW g \in Fibers, Move(f, g)
    PROVE  RefInv' /\ RefTypeOK'
<1> USE DEF RefTypeOK, Move
<1>1. f # g /\ g \notin Refs /\ call[g] \notin Reading /\ f \in Refs
  BY TargetIsNew DEF Refs
<1>2. Refs' = (Refs \ {f}) \cup {g}
  BY <1>1 DEF Refs, Idle
<1>3. PromiseCalls'
  BY DEF RefInv, PromiseCalls
<1>4. OneFuture'
  <2>1. \A h \in Fibers : ~ (call'[h] = "get" /\ ~has'[h])
    BY <1>1 DEF RefInv, OneFuture, Idle
  <2>2. \A h \in Fibers : call'[h] \in {"wait", "wait_until", "timed_out"} => has'[h]
    BY <1>1 DEF RefInv, OneFuture, Idle
  <2>3. ~shared => Refs' = {g}
    BY <1>1, <1>2 DEF RefInv, OneFuture
  <2> QED BY <1>1, <1>2, <2>1, <2>2, <2>3 DEF RefInv, OneFuture
<1>5. Counted'
  <2>1. Cardinality(Refs') = Cardinality(Refs)
    BY <1>1, <1>2, HandedOn
  <2> QED BY <2>1 DEF RefInv, Counted
<1> QED BY <1>3, <1>4, <1>5 DEF RefInv

LEMMA FutureEnds ==
    ASSUME RefInv, RefTypeOK, NEW f \in Fibers, DropFuture(f)
    PROVE  RefInv' /\ RefTypeOK'
<1> USE DEF RefTypeOK, DropFuture
<1>1. f \in Refs /\ Refs' = Refs \ {f}
  BY DEF Refs, Idle
<1>2. PromiseCalls'
  BY DEF RefInv, PromiseCalls
<1>3. OneFuture'
  <2>1. \A h \in Fibers : ~ (call'[h] = "get" /\ ~has'[h])
    BY <1>1 DEF RefInv, OneFuture, Idle
  <2> QED BY <1>1, <2>1 DEF RefInv, OneFuture, Idle
<1>4. Counted' /\ use_count_' \in Nat
  <2>1. Cardinality(Refs') = Cardinality(Refs) - 1 /\ Cardinality(Refs) >= 1
    BY <1>1, OneLess
  <2> QED BY <2>1, RefsAreFinite DEF RefInv, Counted
<1> QED BY <1>2, <1>3, <1>4 DEF RefInv

LEMMA RefsKeep ==
    ASSUME StateInv, StateNext
    PROVE  RefInv' /\ RefTypeOK'
<1> PICK f \in Fibers :
        \/ \E c \in Satisfying : Satisfy(f, c)
        \/ Destroy(f) \/ GetFuture(f) \/ Share(f) \/ DropFuture(f) \/ Get(f)
        \/ \E g \in Fibers : Copy(f, g) \/ Move(f, g)
        \/ \E c \in {"wait", "wait_until"} : WaitReady(f, c)
        \/ CondExpire(f) /\ UNCHANGED stateVars
        \/ Continues(f)
  BY DEF StateNext
<1>1. RefInv /\ RefTypeOK
  BY DEF StateInv, StateTypeOK, RefInv, RefTypeOK
<1>2. ASSUME UNCHANGED <<use_count_, future_, obtained_, shared, has, call>>
      PROVE  RefInv' /\ RefTypeOK'
  <2>1. Refs' = Refs
    BY <1>2 DEF Refs
  <2> QED BY <1>1, <1>2, <2>1 DEF RefInv, RefTypeOK, PromiseCalls, OneFuture, Counted
<1>3. CASE \/ \E c \in Satisfying : Satisfy(f, c)
           \/ Destroy(f) \/ \E c \in {"wait", "wait_until"} : WaitReady(f, c)
  <2> PICK c \in Satisfying \cup {"destroy", "wait", "wait_until"} :
            \/ c \in Satisfying /\ Satisfy(f, c)
            \/ c = "destroy" /\ Destroy(f)
            \/ c \in {"wait", "wait_until"} /\ WaitReady(f, c)
    BY <1>3
  <2> QED BY <1>1, CallBegins DEF Satisfy, Destroy, WaitReady, Locks, Idle
<1>4. CASE GetFuture(f) \/ Share(f) \/ DropFuture(f) \/ Get(f)
  BY <1>1, <1>4, FutureBegins, FutureShares, FutureEnds, GetBegins
<1>5. CASE \E g \in Fibers : Copy(f, g) \/ Move(f, g)
  BY <1>1, <1>5, FutureCopies, FutureMoves
<1>6. CASE UNCHANGED stateVars \/ StoreBegins(f) \/ Blocks(f)
  BY <1>2, <1>6 DEF stateVars, StoreBegins, Blocks
<1>7. CASE StoreEnds(f) \/ StoreThrows(f) \/ SetException(f)
  <2>1. /\ UNCHANGED <<use_count_, future_, obtained_, shared, has>>
        /\ \/ call[f] \in Satisfying /\ call' = [call EXCEPT ![f] = "none"]
           \/ call[f] = "run" /\ call' = [call EXCEPT ![f] = "except"]
    BY <1>7 DEF StoreEnds, StoreThrows, SetException, In, MarkReady, Returns, Satisfying
  <2> QED BY <1>1, <2>1, CallEnds
<1>8. CASE Destroyed(f)
  <2>1. call[f] = "destroy" /\ call' = [call EXCEPT ![f] = "none"]
    BY <1>8 DEF Destroyed, In, MarkReady, Returns
  <2> QED BY <1>1, <1>8, <2>1, PromiseEnds DEF Destroyed
<1>9. CASE Resumes(f)
  <2>1. CASE call[f] = "wait_until" /\ call' = [call EXCEPT ![f] = "timed_out"]
    BY <1>1, <1>9, <2>1, CallEnds DEF Resumes
  <2> QED BY <1>2, <1>9, <2>1 DEF Resumes
<1>10. CASE ReturnsReady(f)
  <2>1. /\ call[f] \in Reading /\ call' = [call EXCEPT ![f] = "none"]
        /\ UNCHANGED <<future_, obtained_, shared, has>>
        /\ use_count_' = IF has[f] THEN use_count_ ELSE use_count_ - 1
    BY <1>10 DEF ReturnsReady, In, Returns
  <2>2. CASE call[f] = "get"
    BY <1>1, <2>1, <2>2, GetEnds
  <2>3. CASE call[f] # "get"
    <3>1. call[f] \in {"wait", "wait_until", "timed_out"} /\ has[f]
      BY <1>1, <2>1, <2>3 DEF RefInv, OneFuture, Reading
    <3> QED BY <1>1, <2>1, <3>1, CallEnds
  <2> QED BY <2>2, <2>3
<1>11. CASE TimesOut(f)
  BY <1>1, <1>11, CallEnds DEF TimesOut, In, Returns
<1> QED BY <1>3, <1>4, <1>5, <1>6, <1>7, <1>8, <1>9, <1>10, <1>11 DEF Continues

LEMMA StateKeepsInv ==
    ASSUME StateInv, StateNext
    PROVE  StateInv'
<1>1. CondInv' /\ CondTypeOK'
  <2>1. CondInv'
    BY StateKeepsCond DEF StateInv
  <2> QED BY <2>1 DEF CondInv, MutexOfWaiters, Discipline, Everywhere, CondTypeOK
<1>2. FirstResultStands' /\ StoringHolds'
  BY ResultKeeps, StoringKeeps
<1>3. RefInv' /\ RefTypeOK'
  BY RefsKeep
<1>4. StateTypeOK'
  BY <1>1, <1>3, ResultKeeps DEF RefTypeOK, StateTypeOK
<1> QED BY <1>1, <1>2, <1>3, <1>4 DEF StateInv, RefInv

LEMMA StateStart ==
    ASSUME CondInit, StateInit
    PROVE  CondInv /\ StateInv
<1>1. /\ cond_queue_ \in Seq(Fibers) /\ IsInjective(cond_queue_) /\ ToSet(cond_queue_) = {}
  BY DEF CondInit, IsInjective, ToSet
<1>2. Inv
  BY InitInv DEF CondInit
<1>3. Discipline(Everywhere) /\ Untimed
  BY <1>2, MutexAssumption
     DEF Inv, TypeOK, Discipline, Everywhere, Untimed, CountIsHeld, CondInit, Init
<1>4. CondInv
  BY <1>1, <1>3
     DEF CondInv, MutexOfWaiters, WaiterIsReachable, CondInit, Init, CondPlaces
<1>5. StateTypeOK
  BY <1>4, WaitersTypeOK DEF StateTypeOK, StateInit
<1>6. Refs = {} /\ Cardinality(Refs) = 0
  BY FS_EmptySet DEF Refs, StateInit
<1>7. PromiseCalls /\ OneFuture /\ Counted
  BY <1>6 DEF PromiseCalls, OneFuture, Counted, StateInit, Satisfying
<1>8. FirstResultStands /\ StoringHolds
  BY DEF FirstResultStands, StoringHolds, StateInit
<1> QED BY <1>4, <1>5, <1>7, <1>8 DEF StateInv

\* Who is in a call has a reference, by the promise or by a future.
LEMMA CallsHaveReferences == StateInv => FirstResultStands /\ StateOutlivesCalls
<1> SUFFICES ASSUME StateInv
             PROVE  StateOutlivesCalls
  BY DEF StateInv
<1>1. Cardinality(Refs) # 0 \/ Refs = {}
  BY RefsAreFinite, FS_EmptySet
<1>2. use_count_ = 0 => Refs = {} /\ ~future_
  BY <1>1, RefsAreFinite DEF StateInv, Counted
<1>3. ASSUME use_count_ = 0, NEW f \in Fibers
      PROVE  call[f] = "none"
  BY <1>2, <1>3 DEF StateInv, StateTypeOK, OneFuture, PromiseCalls, Refs, Reading
<1>4. use_count_ \in Nat /\ (future_ => use_count_ > 0)
  BY RefsAreFinite DEF StateInv, StateTypeOK, Counted
<1>5. ASSUME NEW f \in Readers, has[f]
      PROVE  use_count_ > 0
  BY <1>2, <1>4, <1>5, SharedStateAssumption DEF Refs
<1> QED BY <1>3, <1>4, <1>5 DEF StateOutlivesCalls

(***************************************************************************)
(* The barriers.                                                           *)
(***************************************************************************)

\* What a barrier of n fibers has counted.
CallsCounted(n) ==
    /\ current_ \in 1..n
    /\ completed \in Nat /\ calls = completed * n + (n - current_)
    /\ cycle_ = (completed % 2 = 0)

\* The mutex of a barrier is free between the actions.
NobodyLocks ==
    /\ owner_ = NoFiber /\ wait_queue_ = <<>>
    /\ held = [f \in Fibers |-> 0]

Blocked == {f \in Fibers : at[f] = "blocked"}

\* With as many fibers as the barrier needs: the suspended ones are those counted in
\* this cycle, the notified ones were counted in the one before, and the local
\* variable of each wait() is the parity of its cycle.
NobodyIsAhead ==
    /\ Cardinality(Blocked) = Cardinality(Fibers) - current_
    /\ ToSet(queue) = Blocked
    /\ \A f \in Fibers :
        /\ at[f] = "blocked" => joined[f] = completed
        /\ at[f] = "notified" => joined[f] + 1 = completed
        /\ at[f] # "runs" => cycle[f] = (joined[f] % 2 = 0)

LEMMA DivMod ==
    ASSUME NEW n \in Nat \ {0}, NEW q \in Nat, NEW r \in 0..(n - 1), NEW c, c = q * n + r
    PROVE  c \div n = q /\ c % n = r
OBVIOUS

LEMMA ParityFlips == \A k \in Nat : (k + 1) % 2 = 0 <=> ~ (k % 2 = 0)
OBVIOUS

\* What the count says in terms of the calls.
LEMMA CountIsQuotient ==
    ASSUME NEW n \in Nat \ {0}, CallsCounted(n)
    PROVE  completed = calls \div n /\ current_ = n - (calls % n)
<1>1. n - current_ \in 0..(n - 1) /\ calls = completed * n + (n - current_)
  BY DEF CallsCounted
<1>2. completed \in Nat /\ current_ \in 1..n
  BY DEF CallsCounted
<1> DEFINE q == completed
           r == n - current_
           c == calls
<1>3. q \in Nat /\ r \in 0..(n - 1) /\ c = q * n + r
  BY <1>1, <1>2
<1> HIDE DEF q, r, c
<1>4. c \div n = q /\ c % n = r
  BY <1>3, DivMod
<1> QED BY <1>2, <1>4 DEF q, r, c

\* A call that waits, and the one that completes the cycle.
LEMMA CountKeeps ==
    ASSUME NEW n \in Nat \ {0}, CallsCounted(n), calls' = calls + 1,
           \/ current_ # 1 /\ current_' = current_ - 1 /\ UNCHANGED <<cycle_, completed>>
           \/ current_ = 1 /\ current_' = n /\ cycle_' = ~cycle_ /\ completed' = completed + 1
    PROVE  CallsCounted(n)'
<1>1. CASE current_ # 1 /\ current_' = current_ - 1 /\ UNCHANGED <<cycle_, completed>>
  <2>1. completed * n \in Nat
    BY DEF CallsCounted
  <2> QED BY <1>1, <2>1 DEF CallsCounted
<1>2. CASE current_ = 1 /\ current_' = n /\ cycle_' = ~cycle_ /\ completed' = completed + 1
  <2>1. completed \in Nat /\ completed * n \in Nat /\ (completed + 1) * n = completed * n + n
    BY DEF CallsCounted
  <2>2. calls' = completed' * n + (n - n) /\ n \in 1..n /\ completed' \in Nat
    BY <1>2, <2>1 DEF CallsCounted
  <2>3. cycle_' = (completed' % 2 = 0)
    <3>1. (completed + 1) % 2 = 0 <=> ~ (completed % 2 = 0)
      BY <2>1, ParityFlips
    <3> QED BY <1>2, <3>1 DEF CallsCounted
  <2> QED BY <1>2, <2>2, <2>3 DEF CallsCounted
<1> QED BY <1>1, <1>2

\* The barrier that all fibers but one complete.
LEMMA AllButOneKeeps ==
    ASSUME NEW n \in Nat \ {0}, n = Cardinality(Fibers) - 1,
           AllButOne!TypeOK, CallsCounted(n), AllButOne!Next
    PROVE  AllButOne!TypeOK' /\ CallsCounted(n)'
<1> PICK f \in Fibers :
        AllButOne!Arrive(f) \/ AllButOne!ArriveLast(f) \/ AllButOne!Return(f) \/ AllButOne!WaitAgain(f)
  BY DEF AllButOne!Next
<1> USE DEF AllButOne!TypeOK
<1>0. current_ \in 1..n /\ n \in Nat /\ MaxCycles \in Nat
  BY SyncAssumption DEF AllButOne!BarrierAssumption
<1>1. CASE AllButOne!Arrive(f)
  <2>1. CallsCounted(n)'
    BY <1>0, <1>1, CountKeeps DEF AllButOne!Arrive, AllButOne!IsLast
  <2> QED BY <1>0, <1>1, <2>1 DEF AllButOne!Arrive, AllButOne!IsLast
<1>2. CASE AllButOne!ArriveLast(f)
  <2>1. CallsCounted(n)'
    BY <1>0, <1>2, CountKeeps DEF AllButOne!ArriveLast, AllButOne!IsLast, AllButOne!Reset
  <2>2. queue' \in Seq(Fibers)
    BY <1>2 DEF AllButOne!ArriveLast
  <2> QED BY <1>0, <1>2, <2>1, <2>2 DEF AllButOne!ArriveLast, AllButOne!IsLast, AllButOne!Reset
<1>3. CASE AllButOne!Return(f)
  BY <1>3 DEF AllButOne!Return, CallsCounted
<1>4. CASE AllButOne!WaitAgain(f)
  BY <1>4 DEF AllButOne!WaitAgain, CallsCounted
<1> QED BY <1>1, <1>2, <1>3, <1>4

\* Links are sets of fibers, wherever in the queue they are.
LEMMA AppendedToSet ==
    ASSUME NEW S, NEW q \in Seq(S), NEW e \in S
    PROVE  ToSet(Append(q, e)) = ToSet(q) \cup {e}
<1> DEFINE r == Append(q, e)
<1>1. /\ Len(r) = Len(q) + 1 /\ r \in Seq(S)
      /\ \A i \in 1 .. Len(q) : r[i] = q[i]
      /\ r[Len(q) + 1] = e
  BY AppendProperties
<1>2. DOMAIN q = 1 .. Len(q) /\ DOMAIN r = 1 .. Len(q) + 1 /\ Len(q) \in Nat
  BY <1>1, LenProperties
<1> HIDE DEF r
<1>3. ToSet(r) = ToSet(q) \cup {e}
  BY <1>1, <1>2 DEF ToSet
<1> QED BY <1>3 DEF r

LEMMA BlockedAreFinite ==
    IsFiniteSet(Fibers) /\ IsFiniteSet(Blocked) /\ Cardinality(Blocked) \in Nat
<1>1. IsFiniteSet(Fibers)
  BY SyncAssumption DEF All!BarrierAssumption, All!IsFiniteSet, IsFiniteSet
<1> QED BY <1>1, FS_Subset, FS_CardinalityType DEF Blocked

\* The barrier that all fibers complete.
LEMMA AllKeeps ==
    ASSUME NEW n \in Nat \ {0}, n = Cardinality(Fibers),
           All!TypeOK, CallsCounted(n), NobodyIsAhead, All!Next
    PROVE  All!TypeOK' /\ CallsCounted(n)' /\ NobodyIsAhead'
<1> PICK f \in Fibers : All!Arrive(f) \/ All!ArriveLast(f) \/ All!Return(f) \/ All!WaitAgain(f)
  BY DEF All!Next
<1> USE DEF All!TypeOK
<1>0. /\ current_ \in 1..n /\ n \in Nat /\ MaxCycles \in Nat /\ completed \in Nat
      /\ cycle_ = (completed % 2 = 0)
      /\ Cardinality(Blocked) = n - current_ /\ ToSet(queue) = Blocked
  BY SyncAssumption DEF All!BarrierAssumption, NobodyIsAhead, CallsCounted
<1>1. CASE All!Arrive(f)
  <2> USE <1>1 DEF All!Arrive, All!IsLast
  <2>1. CallsCounted(n)'
    BY <1>0, CountKeeps
  <2>2. All!TypeOK'
    BY <1>0
  <2>3. f \notin Blocked /\ Blocked' = Blocked \cup {f}
    BY DEF Blocked
  <2>4. Cardinality(Blocked') = Cardinality(Blocked) + 1
    BY <2>3, BlockedAreFinite, FS_AddElement
  <2>5. ToSet(queue)' = Blocked'
    <3>1. ToSet(Append(queue, f)) = ToSet(queue) \cup {f}
      BY AppendedToSet
    <3> QED BY <1>0, <2>3, <3>1
  <2>6. \A g \in Fibers :
            /\ at'[g] = "blocked" => joined'[g] = completed'
            /\ at'[g] = "notified" => joined'[g] + 1 = completed'
            /\ at'[g] # "runs" => cycle'[g] = (joined'[g] % 2 = 0)
    BY <1>0 DEF NobodyIsAhead
  <2>7. Cardinality(Blocked') = n - current_'
    BY <1>0, <2>4
  <2> QED BY <2>1, <2>2, <2>5, <2>6, <2>7 DEF NobodyIsAhead
<1>2. CASE All!ArriveLast(f)
  <2> USE <1>2 DEF All!ArriveLast, All!IsLast, All!Reset
  <2>1. CallsCounted(n)'
    BY <1>0, CountKeeps
  <2>2. Blocked = Fibers \ {f}
    <3>1. Blocked \subseteq Fibers \ {f} /\ Cardinality(Blocked) = n - 1
      BY <1>0 DEF Blocked
    <3>2. IsFiniteSet(Fibers \ {f}) /\ Cardinality(Fibers \ {f}) = n - 1
      BY BlockedAreFinite, FS_RemoveElement
    <3> QED BY <3>1, <3>2, FS_Subset
  <2>3. at' = [g \in Fibers |-> IF g = f THEN "runs" ELSE "notified"] /\ queue' = <<>>
    BY <1>0, <2>2 DEF All!NotifiesAll, All!ToSet, ToSet
  <2>4. All!TypeOK'
    BY <1>0, <2>3
  <2>5. Blocked' = {} /\ Cardinality(Blocked') = 0 /\ ToSet(queue)' = {}
    <3>1. Blocked' = {}
      BY <2>3 DEF Blocked
    <3>2. ToSet(queue') = {}
      BY <2>3 DEF ToSet
    <3> QED BY <3>1, <3>2, FS_EmptySet
  <2>6. ASSUME NEW g \in Fibers
        PROVE  /\ at'[g] = "notified" => joined'[g] + 1 = completed'
               /\ at'[g] # "runs" => cycle'[g] = (joined'[g] % 2 = 0)
    <3>1. CASE g = f
      BY <2>3, <3>1
    <3>2. CASE g # f
      <4>1. at[g] = "blocked" /\ joined'[g] = joined[g]
        BY <2>2, <3>2 DEF Blocked
      <4> QED BY <1>0, <4>1 DEF NobodyIsAhead
    <3> QED BY <3>1, <3>2
  <2>7. \A g \in Fibers : at'[g] # "blocked"
    BY <2>3
  <2>8. Cardinality(Blocked') = n - current_'
    BY <1>0, <2>5
  <2> QED BY <2>1, <2>4, <2>5, <2>6, <2>7, <2>8 DEF NobodyIsAhead
<1>3. CASE All!Return(f)
  <2>1. Blocked' = Blocked
    BY <1>3 DEF All!Return, Blocked
  <2> QED BY <1>3, <2>1 DEF All!Return, CallsCounted, NobodyIsAhead
<1>4. ~ All!WaitAgain(f)
  <2> SUFFICES ASSUME All!WaitAgain(f) PROVE FALSE
    OBVIOUS
  <2>1. at[f] = "notified" /\ cycle[f] = cycle_
    BY DEF All!WaitAgain, All!SeesNewCycle
  <2>2. joined[f] + 1 = completed /\ joined[f] \in Nat /\ cycle[f] = (joined[f] % 2 = 0)
    BY <2>1 DEF NobodyIsAhead
  <2>3. (joined[f] + 1) % 2 = 0 <=> ~ (joined[f] % 2 = 0)
    BY <2>2, ParityFlips
  <2> QED BY <1>0, <2>1, <2>2, <2>3
<1> QED BY <1>1, <1>2, <1>3, <1>4

(***************************************************************************)
(* The objects together.                                                   *)
(***************************************************************************)

\* The inductive invariant: that of the object in use.
SyncInv ==
    /\ object \in {"condition", "timed_mutex", "recursive_mutex", "recursive_timed_mutex",
                   "all", "all but one", "future"}
    /\ FirstResultStands /\ StateOutlivesCalls
    /\ object \in {"timed_mutex", "recursive_mutex", "recursive_timed_mutex"} => Inv
    /\ object = "recursive_mutex" => Untimed
    /\ object = "condition" => CondInv
    /\ object = "future" => StateInv
    /\ object \in {"all", "all but one"} => NobodyLocks
    /\ object = "all" => All!TypeOK /\ CallsCounted(Cardinality(Fibers)) /\ NobodyIsAhead
    /\ object = "all but one" => AllButOne!TypeOK /\ CallsCounted(Cardinality(Fibers) - 1)

LEMMA FibersAreTwo ==
    Cardinality(Fibers) \in Nat \ {0} /\ Cardinality(Fibers) - 1 \in Nat \ {0}
<1>1. Cardinality(Fibers) \in Nat
  BY BlockedAreFinite, FS_CardinalityType
<1>2. Cardinality(Fibers) - 1 >= 1
  BY SyncAssumption DEF AllButOne!BarrierAssumption
<1> QED BY <1>1, <1>2

LEMMA SyncStart == SyncInit => SyncInv
<1> SUFFICES ASSUME SyncInit PROVE SyncInv
  OBVIOUS
<1>1. CondInit /\ StateInit
  BY DEF SyncInit
<1>2. CondInv /\ StateInv /\ FirstResultStands /\ StateOutlivesCalls
  BY <1>1, StateStart, CallsHaveReferences
<1>3. Inv /\ Untimed /\ NobodyLocks
  BY <1>1, <1>2, InitInv DEF CondInit, Init, NobodyLocks, CondInv, MutexOfWaiters
<1>4. MaxCycles \in Nat
  BY SyncAssumption DEF All!BarrierAssumption
<1>5. ASSUME object = "all"
      PROVE  All!TypeOK /\ CallsCounted(Cardinality(Fibers)) /\ NobodyIsAhead
  <2> DEFINE n == Cardinality(Fibers)
  <2>1. All!Init /\ n \in Nat \ {0}
    BY <1>5, FibersAreTwo DEF SyncInit
  <2>2. Blocked = {} /\ Cardinality(Blocked) = 0 /\ ToSet(queue) = {}
    <3>1. Blocked = {} /\ ToSet(queue) = {}
      BY <2>1 DEF All!Init, Blocked, ToSet
    <3> QED BY <3>1, FS_EmptySet
  <2>3. All!TypeOK
    BY <1>4, <2>1 DEF All!Init, All!TypeOK
  <2>4. n \in 1..n /\ 0 = 0 * n + (n - n) /\ 0 % 2 = 0
    BY <2>1
  <2>5. CallsCounted(n)
    <3>1. current_ = n /\ cycle_ = TRUE /\ calls = 0 /\ completed = 0
      BY <2>1 DEF All!Init
    <3> HIDE DEF n
    <3> QED BY <2>4, <3>1 DEF CallsCounted
  <2>6. NobodyIsAhead
    BY <2>1, <2>2 DEF All!Init, NobodyIsAhead
  <2> QED BY <2>3, <2>5, <2>6
<1>6. ASSUME object = "all but one"
      PROVE  AllButOne!TypeOK /\ CallsCounted(Cardinality(Fibers) - 1)
  <2> DEFINE n == Cardinality(Fibers) - 1
  <2>1. AllButOne!Init /\ n \in Nat \ {0}
    BY <1>6, FibersAreTwo DEF SyncInit
  <2>2. n \in 1..n /\ 0 = 0 * n + (n - n) /\ 0 % 2 = 0
    <3> HIDE DEF n
    <3> QED BY <2>1
  <2>3. AllButOne!TypeOK
    BY <1>4, <2>1, <2>2 DEF AllButOne!Init, AllButOne!TypeOK
  <2>4. CallsCounted(n)
    <3>1. current_ = n /\ cycle_ = TRUE /\ calls = 0 /\ completed = 0
      BY <2>1 DEF AllButOne!Init
    <3> HIDE DEF n
    <3> QED BY <2>2, <3>1 DEF CallsCounted
  <2> QED BY <2>3, <2>4
<1>7. object \in {"condition", "timed_mutex", "recursive_mutex", "recursive_timed_mutex",
                  "all", "all but one", "future"}
  BY DEF SyncInit
<1> QED BY <1>2, <1>3, <1>5, <1>6, <1>7 DEF SyncInv

LEMMA SyncStutters ==
    ASSUME SyncInv, UNCHANGED syncVars
    PROVE  SyncInv'
<1> USE DEF syncVars, condVars, vars, stateVars, barrierVars
<1>1. (Discipline(Everywhere) => Discipline(Everywhere)') /\ (Untimed => Untimed') /\ (Inv => Inv')
  BY DEF Discipline, Untimed, CountIsHeld, Inv, TypeOK,
         WaitersAreQueued, NoLostWakeup, HolderOwns, GrantedOwns, CountCovers
<1>2. CondInv => CondInv'
  BY <1>1 DEF CondInv, MutexOfWaiters, WaiterIsReachable
<1>3. (FirstResultStands => FirstResultStands') /\ (StateOutlivesCalls => StateOutlivesCalls')
  BY DEF FirstResultStands, StateOutlivesCalls
<1>4. StateInv => StateInv'
  BY <1>2, <1>3
     DEF StateInv, StateTypeOK, CondTypeOK, StoringHolds, PromiseCalls, OneFuture, Counted, Refs
<1>5. (All!TypeOK => All!TypeOK') /\ (AllButOne!TypeOK => AllButOne!TypeOK')
      /\ (NobodyLocks => NobodyLocks') /\ (NobodyIsAhead => NobodyIsAhead')
  BY DEF All!TypeOK, AllButOne!TypeOK, NobodyLocks, NobodyIsAhead, Blocked
<1>6. /\ CallsCounted(Cardinality(Fibers)) => CallsCounted(Cardinality(Fibers))'
      /\ CallsCounted(Cardinality(Fibers) - 1) => CallsCounted(Cardinality(Fibers) - 1)'
  BY DEF CallsCounted
<1> QED BY <1>1, <1>2, <1>3, <1>4, <1>5, <1>6 DEF SyncInv

LEMMA SyncKeeps ==
    ASSUME SyncInv, SyncNext
    PROVE  SyncInv'
<1>1. UNCHANGED object
  BY DEF SyncNext
<1>2. CASE object = "future"
  <2>1. StateInv'
    BY <1>2, StateKeepsInv DEF SyncInv, SyncNext
  <2>2. FirstResultStands' /\ StateOutlivesCalls'
    BY <2>1, CallsHaveReferences, PTL
  <2> QED BY <1>1, <1>2, <2>1, <2>2 DEF SyncInv
<1>3. CASE object # "future"
  <2>1. FirstResultStands' /\ StateOutlivesCalls'
    <3>1. UNCHANGED stateVars
      BY <1>3 DEF SyncNext
    <3>2. FirstResultStands /\ StateOutlivesCalls
      BY DEF SyncInv
    <3> QED BY <3>1, <3>2 DEF stateVars, FirstResultStands, StateOutlivesCalls
  <2>2. CASE object = "condition"
    <3>1. CondInv'
      BY <2>2, CondKeepsInv DEF SyncInv, SyncNext
    <3> QED BY <1>1, <2>1, <2>2, <3>1 DEF SyncInv
  <2>3. CASE object = "timed_mutex"
    <3>1. Inv'
      BY <2>3, NextKeepsInv DEF SyncInv, SyncNext, OfMutex
    <3> QED BY <1>1, <2>1, <2>3, <3>1 DEF SyncInv
  <2>4. CASE object = "recursive_mutex"
    <3>1. Inv' /\ Untimed'
      BY <2>4, RecursiveMutexKeepsInv DEF SyncInv, SyncNext, OfMutex
    <3> QED BY <1>1, <2>1, <2>4, <3>1 DEF SyncInv
  <2>5. CASE object = "recursive_timed_mutex"
    <3>1. Inv'
      BY <2>5, RecursiveTimedMutexKeepsInv DEF SyncInv, SyncNext, OfMutex
    <3> QED BY <1>1, <2>1, <2>5, <3>1 DEF SyncInv
  <2>6. CASE object = "all"
    <3>1. All!Next /\ NobodyLocks'
      BY <2>6 DEF SyncInv, SyncNext, MutexStays, NobodyLocks
    <3>2. All!TypeOK' /\ CallsCounted(Cardinality(Fibers))' /\ NobodyIsAhead'
      BY <2>6, <3>1, AllKeeps, FibersAreTwo DEF SyncInv
    <3> QED BY <1>1, <2>1, <2>6, <3>1, <3>2 DEF SyncInv
  <2>7. CASE object = "all but one"
    <3>1. AllButOne!Next /\ NobodyLocks'
      BY <2>7 DEF SyncInv, SyncNext, MutexStays, NobodyLocks
    <3>2. AllButOne!TypeOK' /\ CallsCounted(Cardinality(Fibers) - 1)'
      BY <2>7, <3>1, AllButOneKeeps, FibersAreTwo DEF SyncInv
    <3> QED BY <1>1, <2>1, <2>7, <3>1, <3>2 DEF SyncInv
  <2> QED BY <1>3, <2>2, <2>3, <2>4, <2>5, <2>6, <2>7 DEF SyncInv
<1> QED BY <1>2, <1>3

THEOREM SyncInvHolds == SyncSpec => []SyncInv
<1>1. SyncInv /\ [SyncNext]_syncVars => SyncInv'
  BY SyncStutters, SyncKeeps
<1> QED BY <1>1, SyncStart, PTL DEF SyncSpec

--------------------------------------------------------------------------------

\* Whichever object the fibers use, and through wait() of a condition variable and
\* through the calls of a promise and its futures, at most one holds the mutex.
THEOREM OneHolderAnyObject == SyncSpec => []MutualExclusion
<1>1. SyncInv => HolderOwns
  <2>1. Inv \/ CondInv => HolderOwns
    BY DEF Inv, CondInv, MutexOfWaiters, Discipline
  <2>2. NobodyLocks => HolderOwns
    BY DEF NobodyLocks, HolderOwns
  <2> QED BY <2>1, <2>2 DEF SyncInv, StateInv
<1>2. HolderOwns => MutualExclusion
  BY DEF HolderOwns, MutualExclusion
<1> QED BY <1>1, <1>2, SyncInvHolds, PTL

\* Nor is any fiber linked into a mutex that belongs to nobody.
THEOREM NobodyWaitsAnyObject == SyncSpec => []NoLostWakeup
<1>1. SyncInv => NoLostWakeup
  BY DEF SyncInv, Inv, CondInv, StateInv, MutexOfWaiters, Discipline, NobodyLocks, NoLostWakeup
<1> QED BY <1>1, SyncInvHolds, PTL

\* The count of a mutex that is not timed is the sum of its owner's calls, those
\* under way included, so that the last unlock() passes it on and no other.
THEOREM CountIsExact == SyncSpec => []CountIsHeldUntimed
<1>1. SyncInv => CountIsHeldUntimed
  BY DEF SyncInv, CondInv, MutexOfWaiters, Untimed, CountIsHeldUntimed
<1> QED BY <1>1, SyncInvHolds, PTL

\* A suspended fiber is linked once: no fiber sleeps where neither unlock() nor a
\* notification finds it, and its one hook is never in two queues.
THEOREM HookIsInOneQueue == SyncSpec => []LinkedOnce
<1>1. SyncInv => SyncTypeOK
  BY WaitersTypeOK DEF SyncInv, StateInv, Inv, SyncTypeOK
<1>2. SyncInv => (object = "condition" => OneHookOneQueue /\ WaiterIsReachable)
  BY LinkedWait DEF SyncInv, CondInv
<1>3. SyncInv => (object \in {"timed_mutex", "recursive_mutex", "recursive_timed_mutex"}
                    => WaitersAreQueued)
  BY DEF SyncInv, Inv
<1>4. SyncInv => LinkedOnce
  BY <1>1, <1>2, <1>3 DEF LinkedOnce
<1> QED BY <1>4, SyncInvHolds, PTL

\* For any number of fibers every cycle of a barrier is completed by the call that
\* makes it whole, and where all of them use it none sleeps through a cycle, although
\* wait() tells cycles apart by one bit.
THEOREM BarrierCyclesAreWhole == SyncSpec => []CyclesAreWhole
<1>1. SyncInv /\ object = "all" => All!CycleNeedsAll /\ All!NobodyIsLeftBehind
  BY CountIsQuotient, FibersAreTwo
     DEF SyncInv, All!CycleNeedsAll, All!NobodyIsLeftBehind, NobodyIsAhead, CallsCounted
<1>2. SyncInv /\ object = "all but one" => AllButOne!CycleNeedsAll
  BY CountIsQuotient, FibersAreTwo DEF SyncInv, AllButOne!CycleNeedsAll, CallsCounted
<1>3. SyncInv => CyclesAreWhole
  BY <1>1, <1>2 DEF CyclesAreWhole
<1> QED BY <1>3, SyncInvHolds, PTL

\* The first result of a promise is the one that every get() returns, although its
\* construction may switch to fibers that come with another; and the state is there for
\* every call of the promise and of the futures until that call is over.
THEOREM PromiseIsKept == SyncSpec => []ResultIsKept
<1>1. SyncInv => ResultIsKept
  BY DEF SyncInv, ResultIsKept
<1> QED BY <1>1, SyncInvHolds, PTL

\* Every step of wait(), wait_until() and the notifications is a step of a client of
\* the mutex, or none to it.
THEOREM WaitIsAClient == SyncSpec => WaitUsesMutex
<1>1. SyncInit => AsSeenByMutex!Init
  BY SeenInit DEF SyncInit
<1>2. SyncInv /\ [SyncNext]_syncVars =>
        [object = "condition" => AsSeenByMutex!Next]_(AsSeenByMutex!vars)
  <2>1. ASSUME SyncInv, SyncNext, object = "condition"
        PROVE  AsSeenByMutex!Next \/ UNCHANGED AsSeenByMutex!vars
    BY <2>1, WaitIsUnlock DEF SyncInv, SyncNext
  <2>2. ASSUME UNCHANGED syncVars
        PROVE  UNCHANGED AsSeenByMutex!vars
    BY <2>2 DEF syncVars, condVars, vars, AsSeenByMutex!vars
  <2> QED BY <2>1, <2>2
<1> QED BY <1>1, <1>2, SyncInvHolds, PTL DEF SyncSpec, WaitUsesMutex
================================================================================
