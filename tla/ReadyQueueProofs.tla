--------------------------- MODULE ReadyQueueProofs ---------------------------
(***************************************************************************)
(* The queues of ready fibers: what work_stealing and shared_work promise  *)
(* together with the threads that use them, what the deque and the queue   *)
(* of remotely readied fibers hand out, and the order a client's algorithm *)
(* keeps.  For any threads, fibers, sizes and bounds.                      *)
(***************************************************************************)
EXTENDS ThreadsProofs

(***************************************************************************)
(* Fibers that threads share.  Whatever the queues are, each fiber is in   *)
(* one place: still fresh, queued, run by a thread, or about to be made    *)
(* ready by one, which may be the thread that has yet to leave it.  Here   *)
(* queued is the set of fibers in the queues, r, p and new are run, pushes *)
(* and fresh.                                                              *)
(***************************************************************************)

OnePlace(queued, r, p, new) ==
    /\ queued \subseteq Fibers /\ new \subseteq Fibers /\ queued \cap new = {}
    /\ r \in [Stealers -> Fibers \cup {NoFiber}] /\ p \in [Stealers -> Fibers \cup {NoFiber}]
    /\ \A t \in Stealers : {r[t], p[t]} \cap (queued \cup new) = {}
    /\ \A t, u \in Stealers :
        /\ r[t] = r[u] /\ r[t] # NoFiber => t = u
        /\ p[t] = p[u] /\ p[t] # NoFiber => t = u
        /\ p[t] = r[u] /\ p[t] # NoFiber => t = u

\* The fibers that a thread has left and has yet to put into a queue, and new ones.
InHand(r, p) == {f \in Fibers : \E t \in Stealers : p[t] = f /\ r[t] # f}
Waiting(queued, r, p) == queued \cup InHand(r, p)

\* What a thread pushes, by its stage.
StageKnows(t) ==
    /\ pc[t] \in {"runs", "suspended"} => pushes[t] = NoFiber
    /\ pc[t] \in {"push", "publish"} => pushes[t] \in Fibers /\ pushes[t] # run[t]
    /\ pc[t] \notin {"push", "publish"} => pushes[t] \in {NoFiber, run[t]}

LEMMA NoFiberIsNone == NoFiber \notin Fibers
BY ThreadsAssumption DEF Stealing!StealingAssumption

\* t leaves its fiber, if it has one, for a queued one or for its dispatcher.
LEMMA SwitchingKeepsPlaces ==
    ASSUME NEW queued, NEW r, NEW p, NEW new, OnePlace(queued, r, p, new),
           NEW t \in Stealers, p[t] = NoFiber \/ p[t] = r[t],
           NEW f, f \in queued \/ f = NoFiber, NEW r2, r2 = [r EXCEPT ![t] = f]
    PROVE  OnePlace(queued \ {f}, r2, p, new)
<1>1. r2 \in [Stealers -> Fibers \cup {NoFiber}] /\ r2[t] = f /\ \A u \in Stealers \ {t} : r2[u] = r[u]
  BY DEF OnePlace
<1> QED BY <1>1, NoFiberIsNone DEF OnePlace

\* f is taken from the waiting, and the fiber t leaves waits again if t pushes it.
Takes(waiting, f, left, pushed_, waiting2) ==
    waiting2 = (waiting \ {f}) \cup (({left} \cap {pushed_}) \ {NoFiber})

LEMMA SwitchingTakesOne ==
    ASSUME NEW queued, NEW r, NEW p, NEW new, OnePlace(queued, r, p, new),
           NEW t \in Stealers, p[t] = NoFiber \/ p[t] = r[t],
           NEW f, f \in queued \/ f = NoFiber, NEW r2, r2 = [r EXCEPT ![t] = f]
    PROVE  Takes(Waiting(queued, r, p), f, r[t], p[t], Waiting(queued \ {f}, r2, p))
<1>1. r2 \in [Stealers -> Fibers \cup {NoFiber}] /\ r2[t] = f /\ \A u \in Stealers \ {t} : r2[u] = r[u]
  BY DEF OnePlace
<1>2. f \notin InHand(r, p)
  BY NoFiberIsNone DEF InHand, OnePlace
<1>3. CASE p[t] = NoFiber
  <2>1. InHand(r2, p) = InHand(r, p)
    BY <1>1, <1>3, NoFiberIsNone DEF InHand, OnePlace
  <2> QED BY <1>2, <1>3, <2>1 DEF Waiting, Takes
<1>4. CASE p[t] # NoFiber
  <2>1. p[t] = r[t] /\ r[t] \in Fibers /\ r[t] # f
    BY <1>4, NoFiberIsNone DEF OnePlace
  <2>2. InHand(r2, p) = InHand(r, p) \cup {r[t]}
    BY <1>1, <2>1, NoFiberIsNone DEF InHand, OnePlace
  <2> QED BY <1>2, <1>4, <2>1, <2>2 DEF Waiting, Takes
<1> QED BY <1>3, <1>4

\* The fiber t pushes is in the queue now.
LEMMA PushingKeepsPlaces ==
    ASSUME NEW queued, NEW r, NEW p, NEW new, OnePlace(queued, r, p, new),
           NEW t \in Stealers, p[t] \in Fibers, p[t] # r[t],
           NEW p2, p2 = [p EXCEPT ![t] = NoFiber]
    PROVE  /\ OnePlace(queued \cup {p[t]}, r, p2, new)
           /\ \A x : x \in Waiting(queued \cup {p[t]}, r, p2) <=> x \in Waiting(queued, r, p)
<1>1. p2 \in [Stealers -> Fibers \cup {NoFiber}] /\ p2[t] = NoFiber
      /\ \A u \in Stealers \ {t} : p2[u] = p[u]
  BY DEF OnePlace
<1>2. OnePlace(queued \cup {p[t]}, r, p2, new)
  BY <1>1, NoFiberIsNone DEF OnePlace
<1>3. InHand(r, p) = InHand(r, p2) \cup {p[t]}
  BY <1>1, NoFiberIsNone DEF InHand, OnePlace
<1> QED BY <1>2, <1>3 DEF Waiting

\* f is one of those that wait now.
Adds(waiting, f, waiting2) == \A x : x \in waiting2 <=> x \in waiting \cup {f}

LEMMA LaunchingKeepsPlaces ==
    ASSUME NEW queued, NEW r, NEW p, NEW new, OnePlace(queued, r, p, new),
           NEW t \in Stealers, p[t] = NoFiber, NEW f \in new,
           NEW p2, p2 = [p EXCEPT ![t] = f]
    PROVE  OnePlace(queued, r, p2, new \ {f})
<1>1. p2 \in [Stealers -> Fibers \cup {NoFiber}] /\ p2[t] = f
      /\ (\A u \in Stealers \ {t} : p2[u] = p[u]) /\ f \in Fibers /\ r[t] # f
  BY DEF OnePlace
<1> QED BY <1>1, NoFiberIsNone DEF OnePlace

LEMMA LaunchingAddsOne ==
    ASSUME NEW queued, NEW r, NEW p, NEW new, OnePlace(queued, r, p, new),
           NEW t \in Stealers, p[t] = NoFiber, NEW f \in new,
           NEW p2, p2 = [p EXCEPT ![t] = f]
    PROVE  Adds(Waiting(queued, r, p), f, Waiting(queued, r, p2))
<1>1. p2 \in [Stealers -> Fibers \cup {NoFiber}] /\ p2[t] = f
      /\ (\A u \in Stealers \ {t} : p2[u] = p[u]) /\ f \in Fibers /\ r[t] # f
  BY DEF OnePlace
<1>2. InHand(r, p2) = InHand(r, p) \cup {f}
  BY <1>1, NoFiberIsNone DEF InHand, OnePlace
<1> QED BY <1>2 DEF Waiting, Adds

LEMMA YieldingKeepsPlaces ==
    ASSUME NEW queued, NEW r, NEW p, NEW new, OnePlace(queued, r, p, new),
           NEW t \in Stealers, p[t] = NoFiber, NEW p2, p2 = [p EXCEPT ![t] = r[t]]
    PROVE  /\ OnePlace(queued, r, p2, new)
           /\ \A x : x \in Waiting(queued, r, p2) <=> x \in Waiting(queued, r, p)
<1>1. p2 \in [Stealers -> Fibers \cup {NoFiber}] /\ p2[t] = r[t]
      /\ \A u \in Stealers \ {t} : p2[u] = p[u]
  BY DEF OnePlace
<1>2. OnePlace(queued, r, p2, new)
  BY <1>1, NoFiberIsNone DEF OnePlace
<1>3. InHand(r, p2) = InHand(r, p)
  BY <1>1, NoFiberIsNone DEF InHand, OnePlace
<1> QED BY <1>2, <1>3 DEF Waiting

(***************************************************************************)
(* shared_work: one queue under a mutex.                                   *)
(***************************************************************************)

SharingInv ==
    /\ Sharing!TypeOK
    /\ Once(rqueue_)
    /\ OnePlace(Elements(rqueue_), run, pushes, fresh)
    /\ \A t \in Stealers : StageKnows(t)

\* What both algorithms offer to the pool of ReadyFibers, besides their queues.
LEMMA PushedAreInHand ==
    ASSUME NEW queued, NEW r, NEW p, NEW new, OnePlace(queued, r, p, new)
    PROVE  UNION {{p[t]} \ {r[t], NoFiber} : t \in Stealers} = InHand(r, p)
BY NoFiberIsNone DEF InHand, OnePlace

LEMMA SharingOffers ==
    ASSUME NEW q, NEW r, NEW p, NEW new, OnePlace(Elements(q), r, p, new)
    PROVE  Sharing!ToSet(q) \cup UNION {{p[t]} \ {r[t], NoFiber} : t \in Stealers}
              = Waiting(Elements(q), r, p)
<1>1. Sharing!ToSet(q) = Elements(q)
  BY DEF Sharing!ToSet, Elements
<1> QED BY <1>1, PushedAreInHand DEF Waiting

LEMMA SharingStarts ==
    ASSUME Sharing!Init
    PROVE  SharingInv
<1>1. PICK f \in Fibers : rqueue_ = <<f>> /\ fresh = Fibers \ {f}
  BY DEF Sharing!Init
<1>2. Elements(rqueue_) = {f} /\ Once(rqueue_) /\ rqueue_ \in Seq(Fibers)
  BY <1>1 DEF Elements, Once
<1>3. OnePlace(Elements(rqueue_), run, pushes, fresh)
  BY <1>1, <1>2, NoFiberIsNone DEF Sharing!Init, OnePlace
<1>4. Sharing!TypeOK
  BY <1>1, <1>2, ThreadsAssumption DEF Sharing!Init, Sharing!TypeOK, Stealing!StealingAssumption
<1> QED BY <1>2, <1>3, <1>4 DEF SharingInv, StageKnows, Sharing!Init

LEMMA SharingStep ==
    ASSUME SharingInv, part = "sharing", part' = part, Sharing!Next
    PROVE  SharingInv' /\ [AsPool!Next]_(AsPool!pool)
<1> DEFINE queued == Elements(rqueue_)
<1>1. Offered = Waiting(queued, run, pushes) /\ OnePlace(queued, run, pushes, fresh)
  BY SharingOffers DEF SharingInv, Offered, Sharing!Ready, Sharing!Pushed
<1>2. ASSUME OnePlace(queued, run, pushes, fresh)'
      PROVE  Offered' = Waiting(queued', run', pushes')
  BY <1>2, SharingOffers DEF Offered, Sharing!Ready, Sharing!Pushed
<1>3. PICK t \in Stealers : Sharing!Step(t)
  BY DEF Sharing!Next
<1>4. Sharing!TypeOK /\ Once(rqueue_) /\ \A u \in Stealers : StageKnows(u)
  BY DEF SharingInv
<1>5. CASE Sharing!PushShared(t)
  <2>1. pushes[t] \in Fibers /\ pushes[t] # run[t]
    BY <1>4, <1>5 DEF StageKnows, Sharing!PushShared
  <2>2. rqueue_ \in Seq(Fibers) /\ rqueue_' = Append(rqueue_, pushes[t])
    BY <1>4, <1>5 DEF Sharing!TypeOK, Sharing!PushShared
  <2>3. pushes[t] \notin queued
    BY <1>1 DEF OnePlace
  <2>4. /\ rqueue_' \in Seq(Fibers) /\ Once(rqueue_') /\ Elements(rqueue_') = queued \cup {pushes[t]}
    BY <1>4, <2>1, <2>2, <2>3, AppendOnce
  <2>5. pushes' = [pushes EXCEPT ![t] = NoFiber] /\ run' = run /\ fresh' = fresh
    BY <1>5 DEF Sharing!PushShared
  <2>6. OnePlace(queued \cup {pushes[t]}, run, pushes', fresh)
    BY <1>1, <2>1, <2>5, PushingKeepsPlaces
  <2>10. \A x : x \in Waiting(queued \cup {pushes[t]}, run, pushes') <=> x \in Waiting(queued, run, pushes)
    BY <1>1, <2>1, <2>5, PushingKeepsPlaces
  <2>7. OnePlace(queued, run, pushes, fresh)'
    BY <2>4, <2>5, <2>6
  <2>8. Sharing!TypeOK' /\ \A u \in Stealers : StageKnows(u)'
    BY <1>4, <1>5, <2>4 DEF Sharing!TypeOK, StageKnows, Sharing!PushShared, Sharing!Goes
  <2>9. UNCHANGED AsPool!pool
    BY <1>1, <1>2, <2>4, <2>5, <2>7, <2>10 DEF AsPool!pool
  <2> QED BY <2>4, <2>7, <2>8, <2>9 DEF SharingInv
<1>6. CASE Sharing!PickNext(t)
  <2>1. pushes[t] \in {NoFiber, run[t]} /\ pushes' = pushes /\ fresh' = fresh
    BY <1>4, <1>6 DEF StageKnows, Sharing!PickNext
  <2>2. ASSUME NEW f \in queued \cup {NoFiber}, Sharing!Resumes(t, f), Once(rqueue_'),
               rqueue_' \in Seq(Fibers), Elements(rqueue_') = queued \ {f}
        PROVE  SharingInv' /\ [AsPool!Next]_(AsPool!pool)
    <3>1. run' = [run EXCEPT ![t] = f]
      BY <2>2 DEF Sharing!Resumes
    <3>2. /\ pushes[t] = NoFiber \/ pushes[t] = run[t]
          /\ f \in queued \/ f = NoFiber
          /\ OnePlace(queued, run, pushes, fresh)
      BY <1>1, <2>1, <2>2
    <3>9. OnePlace(queued \ {f}, run', pushes, fresh)
      BY <3>1, <3>2, SwitchingKeepsPlaces
    <3>10. Takes(Waiting(queued, run, pushes), f, run[t], pushes[t], Waiting(queued \ {f}, run', pushes))
      BY <3>1, <3>2, SwitchingTakesOne
    <3>3. OnePlace(queued, run, pushes, fresh)'
      BY <2>1, <2>2, <3>9
    <3>11. Takes(Offered, f, run[t], pushes[t], Offered')
      BY <1>1, <1>2, <2>1, <2>2, <3>3, <3>10
    <3>4. /\ f \in Offered \cup {NoFiber}
          /\ Offered' \in {Offered \ {f}, (Offered \ {f}) \cup ({run[t]} \ {NoFiber})}
      <4>1. f \in Offered \cup {NoFiber}
        BY <1>1, <2>2 DEF Waiting
      <4>2. CASE pushes[t] = NoFiber
        <5>1. Offered' = Offered \ {f}
          BY <3>11, <4>2 DEF Takes
        <5> QED BY <4>1, <5>1
      <4>3. CASE pushes[t] # NoFiber
        <5>1. Offered' = (Offered \ {f}) \cup ({run[t]} \ {NoFiber})
          BY <3>2, <3>11, <4>3 DEF Takes
        <5> QED BY <4>1, <5>1
      <4> QED BY <4>2, <4>3
    <3>5. f \in Fibers \cup {NoFiber}
      BY <1>1 DEF OnePlace
    <3>6. AsPool!Switch(t, f)
      BY <2>1, <3>1, <3>4 DEF AsPool!Switch
    <3>7. AsPool!Next
      BY <3>5, <3>6 DEF AsPool!Next
    <3>8. Sharing!TypeOK' /\ \A u \in Stealers : StageKnows(u)'
      <4>1. \A u \in Stealers : pc[u] \in {"runs", "pick", "push", "suspended"}
        BY <1>4 DEF Sharing!TypeOK
      <4>2. pc' = [pc EXCEPT ![t] = IF pushes[t] = NoFiber THEN "runs" ELSE "push"]
        BY <2>2 DEF Sharing!Resumes, Sharing!Goes
      <4>3. Sharing!TypeOK'
        BY <1>4, <1>6, <2>2, <3>1, <3>5, <4>2 DEF Sharing!TypeOK, Sharing!PickNext
      <4>4. pushes[t] # NoFiber => pushes[t] \in Fibers /\ pushes[t] # f
        BY <1>1, <2>1 DEF OnePlace
      <4>5. run'[t] = f /\ pc'[t] = (IF pushes[t] = NoFiber THEN "runs" ELSE "push")
        BY <1>4, <3>1, <4>2 DEF Sharing!TypeOK
      <4>6. \A u \in Stealers \ {t} : run'[u] = run[u] /\ pc'[u] = pc[u]
        BY <1>4, <3>1, <4>2 DEF Sharing!TypeOK
      <4>7. StageKnows(t)'
        BY <2>1, <4>4, <4>5 DEF StageKnows
      <4>8. \A u \in Stealers \ {t} : StageKnows(u)'
        BY <1>4, <2>1, <4>6 DEF StageKnows
      <4> QED BY <4>3, <4>7, <4>8
    <3> QED BY <2>2, <3>3, <3>7, <3>8 DEF SharingInv
  <2>3. CASE rqueue_ # <<>> /\ rqueue_' = Tail(rqueue_) /\ Sharing!Resumes(t, Head(rqueue_))
    <3>1. rqueue_ \in Seq(Fibers)
      BY <1>4 DEF Sharing!TypeOK
    <3>2. /\ Head(rqueue_) \in queued /\ Tail(rqueue_) \in Seq(Fibers) /\ Once(Tail(rqueue_))
          /\ Elements(Tail(rqueue_)) = queued \ {Head(rqueue_)}
      BY <1>4, <2>3, <3>1, TailOnce
    <3> QED BY <2>2, <2>3, <3>2
  <2>4. CASE rqueue_ = <<>> /\ run[t] # NoFiber /\ Sharing!Resumes(t, NoFiber) /\ UNCHANGED rqueue_
    <3>1. queued \ {NoFiber} = queued /\ rqueue_ \in Seq(Fibers)
      BY <1>1, <1>4, NoFiberIsNone DEF OnePlace, Sharing!TypeOK
    <3> QED BY <1>4, <2>2, <2>4, <3>1
  <2>5. CASE /\ rqueue_ = <<>> /\ run[t] = NoFiber
             /\ Sharing!Goes(t, IF t \in suspend_ THEN "suspended" ELSE "runs")
             /\ UNCHANGED <<run, rqueue_>>
    <3>1. pushes[t] = NoFiber
      BY <2>1, <2>5
    <3>2. Sharing!TypeOK' /\ \A u \in Stealers : StageKnows(u)'
      BY <1>4, <1>6, <2>1, <2>5, <3>1
         DEF Sharing!TypeOK, StageKnows, Sharing!PickNext, Sharing!Goes
    <3>3. OnePlace(queued, run, pushes, fresh)' /\ Once(rqueue_)'
      BY <1>1, <1>4, <2>1, <2>5
    <3>4. UNCHANGED AsPool!pool
      BY <1>1, <1>2, <2>1, <2>5, <3>3 DEF AsPool!pool
    <3> QED BY <3>2, <3>3, <3>4 DEF SharingInv
  <2> QED BY <1>6, <2>3, <2>4, <2>5 DEF Sharing!PickNext
<1>7. CASE Sharing!TurnOfDispatcher(t) \/ Sharing!End(t)
  <2>1. UNCHANGED <<run, rqueue_, suspend_, pushes, fresh, yields>> /\ pc[t] = "runs"
        /\ pc' = [pc EXCEPT ![t] = "pick"]
    BY <1>7 DEF Sharing!TurnOfDispatcher, Sharing!End, Sharing!Goes
  <2>2. Sharing!TypeOK' /\ \A u \in Stealers : StageKnows(u)'
    BY <1>4, <2>1 DEF Sharing!TypeOK, StageKnows
  <2>3. OnePlace(queued, run, pushes, fresh)' /\ Once(rqueue_)'
    BY <1>1, <1>4, <2>1
  <2>4. UNCHANGED AsPool!pool
    BY <1>1, <1>2, <2>1, <2>3 DEF AsPool!pool
  <2> QED BY <2>2, <2>3, <2>4 DEF SharingInv
<1>8. CASE Sharing!Yield(t)
  <2>1. /\ pushes' = [pushes EXCEPT ![t] = run[t]] /\ UNCHANGED <<run, rqueue_, suspend_, fresh>>
        /\ pc[t] = "runs" /\ pc' = [pc EXCEPT ![t] = "pick"]
    BY <1>8 DEF Sharing!Yield, Sharing!Goes
  <2>2. pushes[t] = NoFiber
    BY <1>4, <2>1 DEF StageKnows
  <2>3. OnePlace(queued, run, pushes', fresh)
    BY <1>1, <2>1, <2>2, YieldingKeepsPlaces
  <2>8. \A x : x \in Waiting(queued, run, pushes') <=> x \in Waiting(queued, run, pushes)
    BY <1>1, <2>1, <2>2, YieldingKeepsPlaces
  <2>4. OnePlace(queued, run, pushes, fresh)' /\ Once(rqueue_)'
    BY <1>4, <2>1, <2>3
  <2>5. Sharing!TypeOK'
    BY <1>4, <1>8, <2>1, ThreadsAssumption
       DEF Sharing!TypeOK, Sharing!Yield, Stealing!StealingAssumption
  <2>6. \A u \in Stealers : StageKnows(u)'
    BY <1>4, <2>1 DEF Sharing!TypeOK, StageKnows
  <2>7. UNCHANGED AsPool!pool
    BY <1>1, <1>2, <2>1, <2>4, <2>8 DEF AsPool!pool
  <2> QED BY <2>4, <2>5, <2>6, <2>7 DEF SharingInv
<1>9. ASSUME NEW f \in Fibers, Sharing!Launch(t, f)
      PROVE  SharingInv' /\ [AsPool!Next]_(AsPool!pool)
  <2>1. /\ pushes' = [pushes EXCEPT ![t] = f] /\ UNCHANGED <<run, rqueue_, suspend_, yields>>
        /\ f \in fresh /\ fresh' = fresh \ {f}
        /\ pc[t] = "runs" /\ pc' = [pc EXCEPT ![t] = "push"]
    BY <1>9 DEF Sharing!Launch, Sharing!Goes
  <2>2. pushes[t] = NoFiber
    BY <1>4, <2>1 DEF StageKnows
  <2>10. pushes' = [pushes EXCEPT ![t] = f] /\ f \in fresh
    BY <2>1
  <2>3. OnePlace(queued, run, pushes', fresh \ {f})
    BY <1>1, <2>2, <2>10, LaunchingKeepsPlaces
  <2>11. Adds(Waiting(queued, run, pushes), f, Waiting(queued, run, pushes'))
    BY <1>1, <2>2, <2>10, LaunchingAddsOne
  <2>8. \A x : x \in Waiting(queued, run, pushes') <=> x \in Waiting(queued, run, pushes) \cup {f}
    BY <2>11 DEF Adds
  <2>9. f # run[t]
    BY <1>1, <2>1 DEF OnePlace
  <2>4. OnePlace(queued, run, pushes, fresh)' /\ Once(rqueue_)'
    BY <1>4, <2>1, <2>3
  <2>5. Sharing!TypeOK' /\ \A u \in Stealers : StageKnows(u)'
    BY <1>4, <2>1, <2>9 DEF Sharing!TypeOK, StageKnows
  <2>6. Offered' = Offered \cup {f}
    BY <1>1, <1>2, <2>1, <2>4, <2>8
  <2>7. AsPool!Next
    BY <2>1, <2>6 DEF AsPool!Next, AsPool!Launch
  <2> QED BY <2>4, <2>5, <2>7 DEF SharingInv
<1> QED BY <1>3, <1>5, <1>6, <1>7, <1>8, <1>9 DEF Sharing!Step

(***************************************************************************)
(* Rings: an index stands for the slot it has modulo the number of slots.  *)
(***************************************************************************)

Ring(a) == \E n \in Nat \ {0} : a \in [0 .. n - 1 -> Fibers \cup {NoFiber}]
Slots(a) == Cardinality(DOMAIN a)

LEMMA RingHasSlots ==
    ASSUME NEW n \in Nat \ {0}, NEW a \in [0 .. n - 1 -> Fibers \cup {NoFiber}]
    PROVE  Slots(a) = n /\ Ring(a)
<1>1. Cardinality(0 .. n - 1) = n
  BY FS_Interval
<1> QED BY <1>1 DEF Slots, Ring

LEMMA SlotsOfRing ==
    ASSUME NEW a, Ring(a)
    PROVE  /\ Slots(a) \in Nat \ {0}
           /\ a \in [0 .. Slots(a) - 1 -> Fibers \cup {NoFiber}]
           /\ Stealing!Cardinality(DOMAIN a) = Slots(a) /\ Deque!Cardinality(DOMAIN a) = Slots(a)
<1>1. PICK n \in Nat \ {0} : a \in [0 .. n - 1 -> Fibers \cup {NoFiber}]
  BY DEF Ring
<1>2. Slots(a) = n
  BY <1>1, RingHasSlots
<1>3. Stealing!Cardinality(DOMAIN a) = Slots(a) /\ Deque!Cardinality(DOMAIN a) = Slots(a)
  BY DEF Slots, Cardinality, Stealing!Cardinality, Deque!Cardinality
<1> QED BY <1>1, <1>2, <1>3

LEMMA TurnsOfRing ==
    ASSUME NEW n \in Nat \ {0}, NEW i \in Int
    PROVE  i \div n \in Int /\ i % n \in 0 .. n - 1 /\ i = n * (i \div n) + (i % n)
BY SMTT(30)

LEMMA WholeTurns ==
    ASSUME NEW n \in Nat \ {0}, NEW k \in Int, k > 0
    PROVE  n * k >= n
BY SMTT(30)

\* Indices less than a turn apart have slots of their own.
LEMMA NearSlotsDiffer ==
    ASSUME NEW n \in Nat \ {0}, NEW i \in Int, NEW j \in Int, i < j, j - i < n
    PROVE  i % n # j % n
<1> SUFFICES ASSUME i % n = j % n PROVE FALSE
  OBVIOUS
<1> DEFINE q == i \div n
           r == j \div n
<1>1. /\ q \in Int /\ r \in Int /\ i % n \in Int
      /\ i = n * q + (i % n) /\ j = n * r + (i % n)
  BY TurnsOfRing
<1> HIDE DEF q, r
<1>2. j - i = n * (r - q)
  BY <1>1, SMTT(30)
<1>3. r - q > 0
  BY <1>1, <1>2, SMTT(30)
<1>4. n * (r - q) >= n
  BY <1>1, <1>3, WholeTurns
<1> QED BY <1>2, <1>4

At(a, i) == a[i % Slots(a)]

LEMMA AtRing ==
    ASSUME NEW a, Ring(a), NEW i \in Int
    PROVE  At(a, i) \in Fibers \cup {NoFiber}
<1>1. Slots(a) \in Nat \ {0} /\ a \in [0 .. Slots(a) - 1 -> Fibers \cup {NoFiber}]
  BY SlotsOfRing
<1>2. i % Slots(a) \in 0 .. Slots(a) - 1
  BY <1>1, TurnsOfRing
<1> QED BY <1>1, <1>2 DEF At

\* What grow() copies is where it was, counted in the new ring.
Grows(a, lo, hi, m, b) ==
    /\ Ring(a) /\ lo \in Int /\ hi \in Int /\ m \in Nat \ {0} /\ hi - lo <= m
    /\ b = [i \in 0 .. m - 1 |-> b[i]]
    /\ \A i \in 0 .. m - 1 : IF \E j \in lo .. hi - 1 : j % m = i
                               THEN \E j \in lo .. hi - 1 : j % m = i /\ b[i] = At(a, j)
                               ELSE b[i] \in Fibers \cup {NoFiber}

LEMMA GrownRing ==
    ASSUME NEW a, NEW lo, NEW hi, NEW m, NEW b, Grows(a, lo, hi, m, b)
    PROVE  Ring(b) /\ Slots(b) = m /\ \A k \in lo .. hi - 1 : At(b, k) = At(a, k)
<1> USE DEF Grows
<1>1. \A j \in lo .. hi - 1 : At(a, j) \in Fibers \cup {NoFiber}
  BY AtRing
<1>2. \A i \in 0 .. m - 1 : b[i] \in Fibers \cup {NoFiber}
  BY <1>1
<1>3. b \in [0 .. m - 1 -> Fibers \cup {NoFiber}]
  BY <1>2
<1>4. Slots(b) = m /\ Ring(b)
  BY <1>3, RingHasSlots
<1>5. ASSUME NEW k \in lo .. hi - 1 PROVE At(b, k) = At(a, k)
  <2>1. k % m \in 0 .. m - 1
    BY TurnsOfRing
  <2>2. PICK c \in lo .. hi - 1 : c % m = k % m /\ b[k % m] = At(a, c)
    BY <2>1
  <2>4. c \in Int /\ k \in Int /\ k - c < m /\ c - k < m
    BY <2>2
  <2>5. c < k => c % m # k % m
    BY <2>4, NearSlotsDiffer, Zenon
  <2>6. k < c => k % m # c % m
    BY <2>4, NearSlotsDiffer, Zenon
  <2>7. c = k
    BY <2>2, <2>4, <2>5, <2>6
  <2> QED BY <1>4, <2>2, <2>7 DEF At
<1> QED BY <1>4, <1>5

\* Storing at the upper end disturbs nothing below.
Stores(a, lo, hi, e, b) ==
    /\ Ring(a) /\ lo \in Int /\ hi \in Int /\ hi - lo < Slots(a)
    /\ e \in Fibers \cup {NoFiber} /\ b = [a EXCEPT ![hi % Slots(a)] = e]

LEMMA StoredRing ==
    ASSUME NEW a, NEW lo, NEW hi, NEW e, NEW b, Stores(a, lo, hi, e, b)
    PROVE  /\ Ring(b) /\ Slots(b) = Slots(a) /\ At(b, hi) = e
           /\ \A k \in lo .. hi - 1 : At(b, k) = At(a, k)
<1> USE DEF Stores
<1> DEFINE n == Slots(a)
<1>1. n \in Nat \ {0} /\ a \in [0 .. n - 1 -> Fibers \cup {NoFiber}]
  BY SlotsOfRing
<1> HIDE DEF n
<1>2. hi % n \in 0 .. n - 1
  BY <1>1, TurnsOfRing
<1>3. b = [a EXCEPT ![hi % n] = e] /\ hi - lo < n
  BY DEF n
<1>4. b \in [0 .. n - 1 -> Fibers \cup {NoFiber}] /\ b[hi % n] = e
  BY <1>1, <1>2, <1>3
<1>5. Slots(b) = n /\ Ring(b)
  BY <1>1, <1>4, RingHasSlots
<1>6. ASSUME NEW k \in lo .. hi - 1 PROVE b[k % n] = a[k % n]
  <2>1. k \in Int /\ k < hi /\ hi - k < n
    BY <1>1, <1>3
  <2>2. k % n # hi % n
    BY <1>1, <2>1, NearSlotsDiffer, Zenon
  <2>3. k % n \in 0 .. n - 1
    BY <1>1, <2>1, TurnsOfRing
  <2> QED BY <1>1, <1>3, <2>2, <2>3
<1> QED BY <1>4, <1>5, <1>6 DEF At, n

(***************************************************************************)
(* work_stealing: a queue for each thread, the array a[u] of which is live *)
(* from index lo[u] up to, and without, hi[u].                             *)
(***************************************************************************)

Live(lo, hi, u, i) == i \in Int /\ lo[u] <= i /\ i < hi[u]

QueuedFibers(a, lo, hi) ==
    {f \in Fibers \cup {NoFiber} : \E u \in Stealers : \E i \in Int : Live(lo, hi, u, i) /\ f = At(a[u], i)}

QueuedOnce(a, lo, hi) ==
    \A u, v \in Stealers : \A i, j \in Int :
        Live(lo, hi, u, i) /\ Live(lo, hi, v, j) /\ At(a[u], i) = At(a[v], j) => u = v /\ i = j

Indices == [Stealers -> Nat]

\* Replacing an array, what is live in it kept, is not seen.
LEMMA ReplacedArray ==
    ASSUME NEW a, NEW a2, NEW lo \in Indices, NEW hi \in Indices,
           \A u \in Stealers : \A i \in Int : Live(lo, hi, u, i) => At(a2[u], i) = At(a[u], i),
           QueuedOnce(a, lo, hi)
    PROVE  /\ QueuedOnce(a2, lo, hi)
           /\ \A f : f \in QueuedFibers(a2, lo, hi) <=> f \in QueuedFibers(a, lo, hi)
<1>1. QueuedOnce(a2, lo, hi)
  BY DEF QueuedOnce
<1>2. ASSUME NEW f PROVE f \in QueuedFibers(a2, lo, hi) <=> f \in QueuedFibers(a, lo, hi)
  BY DEF QueuedFibers
<1> QED BY <1>1, <1>2

Publishes(a, lo, hi, t, hi2) ==
    /\ lo \in Indices /\ hi \in Indices /\ QueuedOnce(a, lo, hi)
    /\ t \in Stealers /\ lo[t] <= hi[t] /\ At(a[t], hi[t]) \in Fibers
    /\ At(a[t], hi[t]) \notin QueuedFibers(a, lo, hi)
    /\ hi2 = [hi EXCEPT ![t] = @ + 1]

LEMMA PublishedFiber ==
    ASSUME NEW a, NEW lo, NEW hi, NEW t, NEW hi2, Publishes(a, lo, hi, t, hi2)
    PROVE  /\ QueuedOnce(a, lo, hi2)
           /\ \A f : f \in QueuedFibers(a, lo, hi2) <=> f \in QueuedFibers(a, lo, hi) \cup {At(a[t], hi[t])}
<1>1. \A u \in Stealers : \A i \in Int :
        Live(lo, hi2, u, i) <=> Live(lo, hi, u, i) \/ (u = t /\ i = hi[t])
  BY DEF Publishes, Live, Indices
<1>5. /\ hi[t] \in Int /\ QueuedOnce(a, lo, hi) /\ t \in Stealers
      /\ At(a[t], hi[t]) \in Fibers /\ At(a[t], hi[t]) \notin QueuedFibers(a, lo, hi)
  BY DEF Publishes, Indices
<1>2. \A u \in Stealers : \A i \in Int : Live(lo, hi, u, i) => At(a[u], i) # At(a[t], hi[t])
  BY <1>5 DEF QueuedFibers
<1>3. QueuedOnce(a, lo, hi2)
  BY <1>1, <1>2, <1>5 DEF QueuedOnce
<1>4. ASSUME NEW f
      PROVE  f \in QueuedFibers(a, lo, hi2) <=> f \in QueuedFibers(a, lo, hi) \cup {At(a[t], hi[t])}
  BY <1>1, <1>5 DEF QueuedFibers
<1> QED BY <1>3, <1>4

Pops(a, lo, hi, v, lo2) ==
    /\ lo \in Indices /\ hi \in Indices /\ QueuedOnce(a, lo, hi)
    /\ v \in Stealers /\ lo[v] < hi[v] /\ Ring(a[v])
    /\ lo2 = [lo EXCEPT ![v] = @ + 1]

LEMMA PoppedFiber ==
    ASSUME NEW a, NEW lo, NEW hi, NEW v, NEW lo2, Pops(a, lo, hi, v, lo2)
    PROVE  /\ QueuedOnce(a, lo2, hi) /\ At(a[v], lo[v]) \in QueuedFibers(a, lo, hi)
           /\ \A f : f \in QueuedFibers(a, lo2, hi) <=> f \in QueuedFibers(a, lo, hi) \ {At(a[v], lo[v])}
<1>1. \A u \in Stealers : \A i \in Int :
        Live(lo2, hi, u, i) <=> Live(lo, hi, u, i) /\ ~ (u = v /\ i = lo[v])
  BY DEF Pops, Live, Indices
<1>2. /\ lo[v] \in Int /\ Live(lo, hi, v, lo[v]) /\ QueuedOnce(a, lo, hi)
      /\ v \in Stealers /\ Ring(a[v])
  BY DEF Pops, Live, Indices
<1>3. At(a[v], lo[v]) \in QueuedFibers(a, lo, hi)
  BY <1>2, AtRing DEF QueuedFibers
<1>4. QueuedOnce(a, lo2, hi)
  BY <1>1, <1>2 DEF QueuedOnce
<1>5. ASSUME NEW f
      PROVE  f \in QueuedFibers(a, lo2, hi) <=> f \in QueuedFibers(a, lo, hi) \ {At(a[v], lo[v])}
  <2>1. \A u \in Stealers : \A i \in Int :
          Live(lo, hi, u, i) /\ At(a[u], i) = At(a[v], lo[v]) => u = v /\ i = lo[v]
    BY <1>2 DEF QueuedOnce
  <2> QED BY <1>1, <2>1 DEF QueuedFibers
<1> QED BY <1>3, <1>4, <1>5

AllQueued == QueuedFibers(array_, top_, bottom_)

StealingTypes ==
    /\ top_ \in Indices /\ bottom_ \in Indices /\ DOMAIN array_ = Stealers
    /\ pc \in [Stealers -> {"runs", "top", "bottom", "read", "cas", "push", "publish", "suspended"}]
    /\ victim \in [Stealers -> Stealers] /\ top \in Indices
    /\ DOMAIN ctx = Stealers

\* An array is never overfull, and what t is about to publish lies above its queue.
QueueIsSound(t) ==
    /\ Ring(array_[t]) /\ top_[t] <= bottom_[t] /\ bottom_[t] - top_[t] <= Slots(array_[t])
    /\ pc[t] = "publish" => /\ bottom_[t] - top_[t] < Slots(array_[t])
                            /\ At(array_[t], bottom_[t]) = pushes[t]

\* Only a dispatcher steals.  As long as nobody else has popped what t would pop,
\* that is still queued, and it is what t has read.
PopperKnows(t) ==
    LET u == victim[t] IN
    /\ u # t => pc[t] \in {"top", "bottom", "read", "cas"} /\ run[t] = NoFiber
    /\ pc[t] \in {"bottom", "read", "cas"} => top[t] <= top_[u]
    /\ pc[t] \in {"read", "cas"} /\ top[t] = top_[u] => top[t] < bottom_[u]
    /\ pc[t] = "cas" /\ top[t] = top_[u] => ctx[t] = At(array_[u], top[t])

StealingInv ==
    /\ StealingTypes
    /\ QueuedOnce(array_, top_, bottom_)
    /\ OnePlace(AllQueued, run, pushes, fresh)
    /\ \A t \in Stealers : StageKnows(t) /\ QueueIsSound(t) /\ PopperKnows(t)

LEMMA StealingOffers ==
    StealingInv => Stealing!Ready = Waiting(AllQueued, run, pushes)
<1> SUFFICES ASSUME StealingInv PROVE Stealing!Ready = Waiting(AllQueued, run, pushes)
  OBVIOUS
<1>5. /\ StealingTypes /\ OnePlace(AllQueued, run, pushes, fresh)
      /\ \A t \in Stealers : Ring(array_[t])
  BY DEF StealingInv, QueueIsSound
<1>1. ASSUME NEW t \in Stealers
      PROVE  \A f : f \in Stealing!Queued(t) <=> \E i \in Int : Live(top_, bottom_, t, i) /\ f = At(array_[t], i)
  <2>1. Stealing!Cardinality(DOMAIN array_[t]) = Slots(array_[t])
    BY <1>5, SlotsOfRing
  <2>2. top_[t] \in Nat /\ bottom_[t] \in Nat
    BY <1>5 DEF StealingTypes, Indices
  <2>3. \A i : i \in top_[t] .. bottom_[t] - 1 <=> Live(top_, bottom_, t, i)
    BY <2>2 DEF Live
  <2>4. \A i : Stealing!Holds(array_[t], i) = At(array_[t], i)
    BY <2>1 DEF Stealing!Holds, At
  <2> QED BY <2>3, <2>4 DEF Stealing!Queued, Live
<1>2. ASSUME NEW f
      PROVE  f \in AllQueued <=> \E t \in Stealers : f \in Stealing!Queued(t)
  <2>1. \A t \in Stealers, i \in Int : At(array_[t], i) \in Fibers \cup {NoFiber}
    BY <1>5, AtRing
  <2> QED BY <1>1, <2>1 DEF AllQueued, QueuedFibers
<1>3. UNION {{pushes[t]} \ {run[t], NoFiber} : t \in Stealers} = InHand(run, pushes)
  BY <1>5, PushedAreInHand
<1>4. ASSUME NEW f
      PROVE  f \in Stealing!Ready <=> f \in AllQueued \/ f \in InHand(run, pushes)
  <2>1. f \in Stealing!Ready <=> \E t \in Stealers : f \in Stealing!Queued(t) \/ f \in Stealing!Pushed(t)
    BY DEF Stealing!Ready
  <2>2. f \in InHand(run, pushes) <=> \E t \in Stealers : f \in Stealing!Pushed(t)
    BY <1>3 DEF Stealing!Pushed
  <2> QED BY <1>2, <2>1, <2>2
<1> QED BY <1>4 DEF Waiting

LEMMA FirstIsQueued ==
    ASSUME Stealing!Init
    PROVE  AllQueued = {Stealing!First} /\ Stealing!First \in Fibers /\ StealingInv
<1> DEFINE t0 == Stealing!FirstThread
           f0 == Stealing!First
<1>1. t0 \in Stealers
  <2>1. Stealing!Cardinality(Stealers) > 1
    BY ThreadsAssumption DEF Stealing!StealingAssumption
  <2>2. Cardinality({}) = 0
    BY FS_EmptySet
  <2>3. Stealers # {}
    <3>1. Stealing!Cardinality({}) = 0
      BY <2>2 DEF Cardinality, Stealing!Cardinality
    <3>2. ASSUME Stealers = {} PROVE Stealing!Cardinality(Stealers) = 0
      BY <3>1, <3>2, Zenon
    <3>3. ~ (0 > 1)
      OBVIOUS
    <3> QED BY <2>1, <3>2, <3>3, Zenon
  <2> QED BY <2>3 DEF Stealing!FirstThread
<1>2. f0 \in Fibers
  BY ThreadsAssumption DEF Stealing!StealingAssumption, Stealing!First
<1>3. /\ run = [t \in Stealers |-> NoFiber] /\ pushes = [t \in Stealers |-> NoFiber]
      /\ bottom_ = [t \in Stealers |-> IF t = t0 THEN 1 ELSE 0] /\ top_ = [t \in Stealers |-> 0]
      /\ array_ = [t \in Stealers |-> [i \in 0 .. 1 - 1 |-> IF t = t0 /\ i = 0 THEN f0 ELSE NoFiber]]
      /\ fresh = Fibers \ {f0}
      /\ pc = [t \in Stealers |-> "runs"] /\ victim = [t \in Stealers |-> t]
      /\ top = [t \in Stealers |-> 0] /\ ctx = [t \in Stealers |-> NoFiber]
  BY DEF Stealing!Init
<1> HIDE DEF t0, f0
<1>4. ASSUME NEW t \in Stealers
      PROVE  /\ Ring(array_[t]) /\ Slots(array_[t]) = 1
             /\ t = t0 => At(array_[t], 0) = f0
  <2>1. array_[t] \in [0 .. 1 - 1 -> Fibers \cup {NoFiber}]
    BY <1>2, <1>3
  <2>2. Ring(array_[t]) /\ Slots(array_[t]) = 1
    <3>1. 1 \in Nat \ {0}
      OBVIOUS
    <3> QED BY <2>1, <3>1, RingHasSlots
  <2>3. t = t0 => array_[t][0] = f0
    BY <1>3
  <2>4. 0 % 1 = 0
    OBVIOUS
  <2> QED BY <2>2, <2>3, <2>4 DEF At
<1>5. \A t \in Stealers : \A i \in Int : Live(top_, bottom_, t, i) <=> t = t0 /\ i = 0
  BY <1>3 DEF Live
<1>6. QueuedOnce(array_, top_, bottom_)
  BY <1>5 DEF QueuedOnce
<1>7. AllQueued = {f0}
  BY <1>1, <1>2, <1>4, <1>5 DEF AllQueued, QueuedFibers
<1>8. OnePlace({f0}, run, pushes, fresh)
  BY <1>2, <1>3, NoFiberIsNone DEF OnePlace
<1>9. StealingTypes
  BY <1>3 DEF StealingTypes, Indices
<1>10. \A t \in Stealers : StageKnows(t) /\ QueueIsSound(t) /\ PopperKnows(t)
  BY <1>3, <1>4 DEF StageKnows, QueueIsSound, PopperKnows
<1>11. StealingInv
  BY <1>6, <1>7, <1>8, <1>9, <1>10 DEF StealingInv
<1> QED BY <1>2, <1>7, <1>11 DEF f0

\* Resuming f, which was queued and no longer is, or the dispatcher.
LEMMA StealingResumes ==
    ASSUME StealingInv, part = "stealing", part' = part,
           NEW t \in Stealers, pushes[t] = NoFiber \/ pushes[t] = run[t],
           NEW f, f \in AllQueued \/ f = NoFiber,
           Stealing!Resumes(t, f), top_' \in Indices,
           QueuedOnce(array_, top_', bottom_),
           \A x : x \in QueuedFibers(array_, top_', bottom_) <=> x \in AllQueued \ {f},
           \A u \in Stealers : /\ top_'[u] \in {top_[u], top_[u] + 1}
                               /\ top_'[u] # top_[u] => top_[u] < bottom_[u]
    PROVE  StealingInv' /\ [AsPool!Next]_(AsPool!pool)
<1>1. /\ run' = [run EXCEPT ![t] = f]
      /\ pc' = [pc EXCEPT ![t] = IF pushes[t] = NoFiber THEN "runs" ELSE "push"]
      /\ victim' = [victim EXCEPT ![t] = t]
      /\ top' = [top EXCEPT ![t] = 0] /\ ctx' = [ctx EXCEPT ![t] = NoFiber]
      /\ bottom_' = bottom_ /\ array_' = array_ /\ pushes' = pushes /\ fresh' = fresh
  BY DEF Stealing!Resumes, Stealing!Goes, Stealing!MakesReady
<1>2. /\ StealingTypes /\ OnePlace(AllQueued, run, pushes, fresh)
      /\ \A u \in Stealers : StageKnows(u) /\ QueueIsSound(u) /\ PopperKnows(u)
  BY DEF StealingInv
<1>3. AllQueued' = AllQueued \ {f} /\ QueuedOnce(array_, top_, bottom_)'
  BY <1>1 DEF AllQueued
<1>4. run' = [run EXCEPT ![t] = f]
  BY <1>1
<1>5. OnePlace(AllQueued \ {f}, run', pushes, fresh)
  BY <1>2, <1>4, SwitchingKeepsPlaces
<1>6. Takes(Waiting(AllQueued, run, pushes), f, run[t], pushes[t], Waiting(AllQueued \ {f}, run', pushes))
  BY <1>2, <1>4, SwitchingTakesOne
<1>7. OnePlace(AllQueued, run, pushes, fresh)'
  BY <1>1, <1>3, <1>5
<1>8. StealingTypes'
  BY <1>1, <1>2 DEF StealingTypes, Indices
<1>9. \A u \in Stealers : QueueIsSound(u)'
  <2> SUFFICES ASSUME NEW u \in Stealers PROVE QueueIsSound(u)'
    OBVIOUS
  <2>1. QueueIsSound(u) /\ top_[u] \in Nat /\ bottom_[u] \in Nat /\ top_'[u] \in Nat
    BY <1>2 DEF StealingTypes, Indices
  <2>2. pc'[u] = "publish" => pc[u] = "publish"
    BY <1>1, <1>2 DEF StealingTypes
  <2>3. Slots(array_[u]) \in Nat
    BY <2>1, SlotsOfRing DEF QueueIsSound
  <2> QED BY <1>1, <2>1, <2>2, <2>3 DEF QueueIsSound
<1>10. \A u \in Stealers : StageKnows(u)'
  <2>1. StageKnows(t)'
    BY <1>1, <1>2, NoFiberIsNone DEF StageKnows, StealingTypes, OnePlace
  <2>2. \A u \in Stealers \ {t} : run'[u] = run[u] /\ pc'[u] = pc[u]
    BY <1>1, <1>2 DEF StealingTypes, OnePlace
  <2>3. \A u \in Stealers \ {t} : StageKnows(u)'
    BY <1>1, <1>2, <2>2 DEF StageKnows
  <2> QED BY <2>1, <2>3
<1>11. \A u \in Stealers : PopperKnows(u)'
  <2>1. PopperKnows(t)'
    BY <1>1, <1>2 DEF PopperKnows, StealingTypes
  <2>2. ASSUME NEW u \in Stealers \ {t} PROVE PopperKnows(u)'
    <3>1. run'[u] = run[u] /\ pc'[u] = pc[u] /\ victim'[u] = victim[u] /\ top'[u] = top[u] /\ ctx'[u] = ctx[u]
      BY <1>1, <1>2 DEF StealingTypes, OnePlace
    <3>2. PICK v \in Stealers : v = victim[u]
      BY <1>2 DEF StealingTypes
    <3>3. top_[v] \in Nat /\ top_'[v] \in Nat /\ top[u] \in Nat
      BY <1>2 DEF StealingTypes, Indices
    <3>4. PopperKnows(u)
      BY <1>2
    <3> QED BY <1>1, <3>1, <3>2, <3>3, <3>4 DEF PopperKnows
  <2> QED BY <2>1, <2>2
<1>12. StealingInv'
  BY <1>3, <1>7, <1>8, <1>9, <1>10, <1>11 DEF StealingInv
<1>13. Offered = Waiting(AllQueued, run, pushes)
  BY StealingOffers DEF Offered
<1>14. Offered' = Waiting(AllQueued, run, pushes)'
  <2>1. (StealingInv => Stealing!Ready = Waiting(AllQueued, run, pushes))'
    BY StealingOffers, PTL
  <2> QED BY <1>12, <2>1 DEF Offered
<1>15. Takes(Offered, f, run[t], pushes[t], Offered')
  BY <1>1, <1>3, <1>6, <1>13, <1>14
<1>16. f \in Offered \cup {NoFiber} /\ f \in Fibers \cup {NoFiber}
  BY <1>2, <1>13 DEF Waiting, OnePlace
<1>17. Offered' \in {Offered \ {f}, (Offered \ {f}) \cup ({run[t]} \ {NoFiber})}
  <2>1. CASE pushes[t] = NoFiber
    <3>1. Offered' = Offered \ {f}
      BY <1>15, <2>1 DEF Takes
    <3> QED BY <3>1
  <2>2. CASE pushes[t] # NoFiber
    <3>1. Offered' = (Offered \ {f}) \cup ({run[t]} \ {NoFiber})
      BY <1>15, <2>2 DEF Takes
    <3> QED BY <3>1
  <2> QED BY <2>1, <2>2
<1>18. AsPool!Switch(t, f)
  BY <1>1, <1>16, <1>17 DEF AsPool!Switch
<1> QED BY <1>12, <1>16, <1>18 DEF AsPool!Next

\* Nothing popped.
LEMMA PopFailsKeeps ==
    ASSUME StealingInv, part = "stealing", part' = part,
           NEW t \in Stealers, pc[t] \in {"bottom", "cas"}, Stealing!PopFails(t)
    PROVE  StealingInv' /\ [AsPool!Next]_(AsPool!pool)
<1>1. /\ StealingTypes /\ OnePlace(AllQueued, run, pushes, fresh) /\ QueuedOnce(array_, top_, bottom_)
      /\ \A u \in Stealers : StageKnows(u) /\ QueueIsSound(u) /\ PopperKnows(u)
  BY DEF StealingInv
<1>2. pushes[t] = NoFiber \/ pushes[t] = run[t]
  BY <1>1 DEF StageKnows
<1>3. CASE run[t] # NoFiber /\ Stealing!Resumes(t, NoFiber) /\ UNCHANGED top_
  <2>1. AllQueued \ {NoFiber} = AllQueued
    BY <1>1, NoFiberIsNone DEF OnePlace
  <2>2. top_' \in Indices /\ QueuedOnce(array_, top_', bottom_)
    BY <1>1, <1>3 DEF StealingTypes
  <2>3. \A x : x \in QueuedFibers(array_, top_', bottom_) <=> x \in AllQueued \ {NoFiber}
    BY <1>3, <2>1 DEF AllQueued
  <2>4. \A u \in Stealers : /\ top_'[u] \in {top_[u], top_[u] + 1}
                            /\ top_'[u] # top_[u] => top_[u] < bottom_[u]
    BY <1>3
  <2> DEFINE f == NoFiber
  <2>5. f \in AllQueued \/ f = NoFiber
    OBVIOUS
  <2> QED BY <1>2, <1>3, <2>2, <2>3, <2>4, <2>5, StealingResumes
<1>4. CASE /\ UNCHANGED <<run, top_, bottom_, array_, pushes, fresh>>
           /\ run[t] = NoFiber
           /\ \E stage \in {"top", "runs", "suspended"} : pc' = [pc EXCEPT ![t] = stage]
           /\ \E u \in Stealers : /\ victim' = [victim EXCEPT ![t] = u]
                                  /\ pc'[t] \in {"runs", "suspended"} => u = t
           /\ top' = [top EXCEPT ![t] = 0] /\ ctx' = [ctx EXCEPT ![t] = NoFiber]
  <2>1. PICK stage \in {"top", "runs", "suspended"} : pc' = [pc EXCEPT ![t] = stage]
    BY <1>4
  <2>2. pc'[t] = stage /\ pushes[t] = NoFiber
    BY <1>1, <1>2, <1>4, <2>1 DEF StealingTypes
  <2>3. PICK v \in Stealers : /\ victim' = [victim EXCEPT ![t] = v]
                              /\ stage \in {"runs", "suspended"} => v = t
    BY <1>4, <2>2
  <2>4. StealingTypes'
    BY <1>1, <1>4, <2>1, <2>3 DEF StealingTypes, Indices
  <2>5. \A u \in Stealers \ {t} : pc'[u] = pc[u] /\ victim'[u] = victim[u] /\ top'[u] = top[u] /\ ctx'[u] = ctx[u]
    BY <1>1, <1>4, <2>1, <2>3 DEF StealingTypes
  <2>6. \A u \in Stealers : StageKnows(u)' /\ QueueIsSound(u)' /\ PopperKnows(u)'
    <3>1. StageKnows(t)' /\ QueueIsSound(t)'
      BY <1>1, <1>4, <2>2, NoFiberIsNone DEF StageKnows, QueueIsSound
    <3>2. PopperKnows(t)'
      <4>1. victim'[t] = v
        BY <1>1, <2>3 DEF StealingTypes
      <4> QED BY <1>4, <2>2, <2>3, <4>1 DEF PopperKnows
    <3>3. ASSUME NEW u \in Stealers \ {t} PROVE StageKnows(u)' /\ QueueIsSound(u)' /\ PopperKnows(u)'
      BY <1>1, <1>4, <2>5 DEF StageKnows, QueueIsSound, PopperKnows
    <3> QED BY <3>1, <3>2, <3>3
  <2>7. OnePlace(AllQueued, run, pushes, fresh)' /\ QueuedOnce(array_, top_, bottom_)'
    BY <1>1, <1>4 DEF AllQueued
  <2>8. StealingInv'
    BY <2>4, <2>6, <2>7 DEF StealingInv
  <2>9. UNCHANGED AsPool!pool
    <3>1. (StealingInv => Stealing!Ready = Waiting(AllQueued, run, pushes))'
      BY StealingOffers, PTL
    <3>2. Offered = Waiting(AllQueued, run, pushes)
      BY StealingOffers DEF Offered
    <3>3. Offered' = Waiting(AllQueued, run, pushes)'
      BY <2>8, <3>1 DEF Offered
    <3>4. Waiting(AllQueued, run, pushes)' = Waiting(AllQueued, run, pushes)
      BY <1>4 DEF AllQueued
    <3> QED BY <1>4, <3>2, <3>3, <3>4 DEF AsPool!pool
  <2> QED BY <2>8, <2>9
<1>5. CASE victim[t] = t /\ run[t] = NoFiber /\ Stealing!PopFails(t)
  <2>1. /\ UNCHANGED <<run, top_, bottom_, array_, pushes, fresh>>
        /\ pc' = [pc EXCEPT ![t] = "top"]
        /\ top' = [top EXCEPT ![t] = 0] /\ ctx' = [ctx EXCEPT ![t] = NoFiber]
    BY <1>5 DEF Stealing!PopFails, Stealing!Goes, Stealing!queues
  <2>2. \E u \in Stealers : victim' = [victim EXCEPT ![t] = u]
    BY <1>5 DEF Stealing!PopFails
  <2>3. pc'[t] = "top"
    BY <1>1, <2>1 DEF StealingTypes
  <2> QED BY <1>4, <1>5, <2>1, <2>2, <2>3
<1>6. CASE victim[t] # t /\ Stealing!PopFails(t)
  <2>1. /\ UNCHANGED <<run, top_, bottom_, array_, pushes, fresh>>
        /\ pc' = [pc EXCEPT ![t] = IF t \in suspend_ THEN "suspended" ELSE "runs"]
        /\ victim' = [victim EXCEPT ![t] = t]
        /\ top' = [top EXCEPT ![t] = 0] /\ ctx' = [ctx EXCEPT ![t] = NoFiber]
    BY <1>6 DEF Stealing!PopFails, Stealing!Goes, Stealing!queues
  <2>2. run[t] = NoFiber
    BY <1>1, <1>6 DEF PopperKnows
  <2>3. \E stage \in {"top", "runs", "suspended"} : pc' = [pc EXCEPT ![t] = stage]
    BY <2>1
  <2> QED BY <1>4, <2>1, <2>2, <2>3
<1> QED BY <1>3, <1>5, <1>6 DEF Stealing!PopFails

\* Steps that take nothing from a queue and launch nothing.
LEMMA WaitingKept ==
    ASSUME StealingInv, StealingInv', part = "stealing", part' = part, run' = run, fresh' = fresh,
           \A x : x \in Waiting(AllQueued, run, pushes)' <=> x \in Waiting(AllQueued, run, pushes)
    PROVE  UNCHANGED AsPool!pool
<1>1. (StealingInv => Stealing!Ready = Waiting(AllQueued, run, pushes))'
  BY StealingOffers, PTL
<1>2. Offered = Waiting(AllQueued, run, pushes)
  BY StealingOffers DEF Offered
<1>3. Offered' = Waiting(AllQueued, run, pushes)'
  BY <1>1 DEF Offered
<1> QED BY <1>2, <1>3 DEF AsPool!pool

LEMMA StealingPushes ==
    ASSUME StealingInv, part = "stealing", part' = part, NEW t \in Stealers, Stealing!Push(t)
    PROVE  StealingInv' /\ [AsPool!Next]_(AsPool!pool)
<1>1. /\ StealingTypes /\ OnePlace(AllQueued, run, pushes, fresh) /\ QueuedOnce(array_, top_, bottom_)
      /\ \A u \in Stealers : StageKnows(u) /\ QueueIsSound(u) /\ PopperKnows(u)
  BY DEF StealingInv
<1>2. /\ pc[t] = "push" /\ pc' = [pc EXCEPT ![t] = "publish"]
      /\ array_' = [array_ EXCEPT ![t] = Stealing!ArrayAfterPush(t)]
      /\ UNCHANGED <<run, top_, bottom_, victim, top, ctx, pushes, fresh>>
  BY DEF Stealing!Push, Stealing!Goes, Stealing!locals
<1> DEFINE a == array_[t]
           lo == top_[t]
           hi == bottom_[t]
           n == Slots(a)
           size == Stealing!Cardinality(DOMAIN array_[t])
           room == IF size - 1 < bottom_[t] - top_[t] THEN 2 * size ELSE size
           kept == [i \in 0 .. room - 1 |->
                      IF \E j \in top_[t] .. bottom_[t] - 1 : j % room = i
                        THEN Stealing!Holds(array_[t], CHOOSE j \in top_[t] .. bottom_[t] - 1 : j % room = i)
                        ELSE IF room = size THEN array_[t][i] ELSE NoFiber]
           stored == [kept EXCEPT ![bottom_[t] % room] = pushes[t]]
<1>3. /\ Ring(a) /\ lo \in Nat /\ hi \in Nat /\ lo <= hi /\ hi - lo <= n
      /\ n \in Nat \ {0} /\ a \in [0 .. n - 1 -> Fibers \cup {NoFiber}]
      /\ Stealing!Cardinality(DOMAIN a) = n
  BY <1>1, SlotsOfRing DEF QueueIsSound, StealingTypes, Indices
<1>4. pushes[t] \in Fibers /\ pushes[t] # run[t]
  BY <1>1, <1>2 DEF StageKnows
<1>5. Stealing!ArrayAfterPush(t) = stored
  BY DEF Stealing!ArrayAfterPush
<1>6. size = n /\ room \in Nat \ {0} /\ hi - lo < room
  BY <1>3
<1> HIDE DEF room, size
<1>7. \A i \in 0 .. room - 1 :
        IF \E j \in lo .. hi - 1 : j % room = i
          THEN \E j \in lo .. hi - 1 : j % room = i /\ kept[i] = At(a, j)
          ELSE kept[i] \in Fibers \cup {NoFiber}
  <2> SUFFICES ASSUME NEW i \in 0 .. room - 1
               PROVE  IF \E j \in lo .. hi - 1 : j % room = i
                        THEN \E j \in lo .. hi - 1 : j % room = i /\ kept[i] = At(a, j)
                        ELSE kept[i] \in Fibers \cup {NoFiber}
    OBVIOUS
  <2>1. CASE \E j \in lo .. hi - 1 : j % room = i
    <3> DEFINE c == CHOOSE j \in top_[t] .. bottom_[t] - 1 : j % room = i
    <3>1. c \in lo .. hi - 1 /\ c % room = i
      BY <2>1
    <3>2. kept[i] = Stealing!Holds(array_[t], c)
      BY <2>1
    <3> HIDE DEF c
    <3>3. Stealing!Holds(array_[t], c) = At(a, c)
      BY <1>3 DEF Stealing!Holds, At
    <3> QED BY <2>1, <3>1, <3>2, <3>3
  <2>2. CASE ~ \E j \in lo .. hi - 1 : j % room = i
    <3>1. kept[i] = IF room = size THEN array_[t][i] ELSE NoFiber
      BY <2>2
    <3>2. i \in 0 .. room - 1
      OBVIOUS
    <3>3. room = size => array_[t][i] \in Fibers \cup {NoFiber}
      BY <1>3, <1>6, <3>2
    <3> QED BY <2>2, <3>1, <3>3
  <2> QED BY <2>1, <2>2
<1>21. kept = [i \in 0 .. room - 1 |-> kept[i]]
  OBVIOUS
<1> HIDE DEF a, lo, hi, n, kept
<1>8. Ring(kept) /\ Slots(kept) = room /\ \A k \in lo .. hi - 1 : At(kept, k) = At(a, k)
  <2>1. lo \in Int /\ hi \in Int /\ hi - lo <= room
    BY <1>3, <1>6
  <2>2. Grows(a, lo, hi, room, kept)
    BY <1>3, <1>6, <1>7, <1>21, <2>1 DEF Grows
  <2> QED BY <2>2, GrownRing
<1>22. stored = [kept EXCEPT ![hi % room] = pushes[t]]
  BY DEF hi
<1> HIDE DEF stored
<1>9. /\ Ring(stored) /\ Slots(stored) = room /\ At(stored, hi) = pushes[t]
      /\ \A k \in lo .. hi - 1 : At(stored, k) = At(kept, k)
  <2>1. lo \in Int /\ hi \in Int /\ hi - lo < Slots(kept) /\ pushes[t] \in Fibers \cup {NoFiber}
        /\ stored = [kept EXCEPT ![hi % Slots(kept)] = pushes[t]]
    BY <1>3, <1>4, <1>6, <1>8, <1>22
  <2>2. Stores(kept, lo, hi, pushes[t], stored)
    BY <1>8, <2>1 DEF Stores
  <2> QED BY <1>8, <2>2, StoredRing
<1>10. array_'[t] = stored /\ \A u \in Stealers \ {t} : array_'[u] = array_[u]
  BY <1>1, <1>2, <1>5 DEF StealingTypes
<1>11. \A u \in Stealers : \A i \in Int : Live(top_, bottom_, u, i) => At(array_'[u], i) = At(array_[u], i)
  <2>1. \A i \in Int : Live(top_, bottom_, t, i) => i \in lo .. hi - 1
    BY <1>3 DEF Live, lo, hi
  <2>2. \A i \in Int : Live(top_, bottom_, t, i) => At(array_'[t], i) = At(array_[t], i)
    BY <1>8, <1>9, <1>10, <2>1 DEF a
  <2> QED BY <1>10, <2>2
<1>12. /\ QueuedOnce(array_', top_, bottom_)
       /\ \A f : f \in QueuedFibers(array_', top_, bottom_) <=> f \in QueuedFibers(array_, top_, bottom_)
  <2>1. top_ \in Indices /\ bottom_ \in Indices
    BY <1>1 DEF StealingTypes
  <2> QED BY <1>1, <1>11, <2>1, ReplacedArray
<1>13. AllQueued' = AllQueued
  BY <1>2, <1>12 DEF AllQueued
<1>14. OnePlace(AllQueued, run, pushes, fresh)' /\ QueuedOnce(array_, top_, bottom_)'
  BY <1>1, <1>2, <1>12, <1>13
<1>15. StealingTypes'
  BY <1>1, <1>2 DEF StealingTypes
<1>16. \A u \in Stealers : StageKnows(u)'
  BY <1>1, <1>2, <1>4 DEF StageKnows, StealingTypes
<1>17. \A u \in Stealers : QueueIsSound(u)'
  <2>1. QueueIsSound(t)'
    <3>1. pc'[t] = "publish"
      BY <1>1, <1>2 DEF StealingTypes
    <3>2. /\ top_'[t] = lo /\ bottom_'[t] = hi /\ pushes'[t] = pushes[t] /\ lo <= hi /\ hi - lo < room
          /\ hi - lo <= room
      BY <1>2, <1>3, <1>6 DEF lo, hi
    <3> QED BY <1>9, <1>10, <3>1, <3>2 DEF QueueIsSound
  <2>2. ASSUME NEW u \in Stealers \ {t} PROVE QueueIsSound(u)'
    BY <1>1, <1>2, <1>10 DEF QueueIsSound, StealingTypes
  <2> QED BY <2>1, <2>2
<1>18. \A u \in Stealers : PopperKnows(u)'
  <2> SUFFICES ASSUME NEW u \in Stealers PROVE PopperKnows(u)'
    OBVIOUS
  <2>1. PopperKnows(u) /\ pc'[u] \in {pc[u], "publish"} /\ (u = t => pc'[u] = "publish") /\ (u # t => pc'[u] = pc[u])
    BY <1>1, <1>2 DEF StealingTypes
  <2>2. PICK v \in Stealers : v = victim[u]
    BY <1>1 DEF StealingTypes
  <2>3. pc[u] = "cas" /\ top[u] = top_[v] => Live(top_, bottom_, v, top[u]) /\ top[u] \in Int
    BY <1>1, <2>1, <2>2 DEF PopperKnows, StealingTypes, Indices, Live
  <2>4. pc[u] = "cas" /\ top[u] = top_[v] => ctx[u] = At(array_'[v], top[u])
    BY <1>11, <2>1, <2>2, <2>3 DEF PopperKnows
  <2> QED BY <1>2, <2>1, <2>2, <2>4 DEF PopperKnows
<1>19. StealingInv'
  BY <1>14, <1>15, <1>16, <1>17, <1>18 DEF StealingInv
<1>20. Waiting(AllQueued, run, pushes)' = Waiting(AllQueued, run, pushes)
  BY <1>2, <1>13
<1> QED BY <1>2, <1>19, <1>20, WaitingKept

LEMMA StealingPublishes ==
    ASSUME StealingInv, part = "stealing", part' = part, NEW t \in Stealers, Stealing!PublishBottom(t)
    PROVE  StealingInv' /\ [AsPool!Next]_(AsPool!pool)
<1>1. /\ StealingTypes /\ OnePlace(AllQueued, run, pushes, fresh) /\ QueuedOnce(array_, top_, bottom_)
      /\ \A u \in Stealers : StageKnows(u) /\ QueueIsSound(u) /\ PopperKnows(u)
  BY DEF StealingInv
<1>2. /\ pc[t] = "publish" /\ pc' = [pc EXCEPT ![t] = "runs"]
      /\ bottom_' = [bottom_ EXCEPT ![t] = @ + 1]
      /\ pushes' = [pushes EXCEPT ![t] = NoFiber]
      /\ UNCHANGED <<run, top_, array_, victim, top, ctx, fresh>>
  BY DEF Stealing!PublishBottom, Stealing!Goes, Stealing!locals
<1>3. /\ pushes[t] \in Fibers /\ pushes[t] # run[t] /\ At(array_[t], bottom_[t]) = pushes[t]
      /\ top_[t] <= bottom_[t] /\ bottom_[t] - top_[t] < Slots(array_[t])
  BY <1>1, <1>2 DEF StageKnows, QueueIsSound
<1>4. pushes[t] \notin AllQueued
  BY <1>1 DEF OnePlace
<1>5. /\ QueuedOnce(array_, top_, bottom_')
      /\ \A f : f \in QueuedFibers(array_, top_, bottom_') <=> f \in AllQueued \cup {pushes[t]}
  <2>1. top_ \in Indices /\ bottom_ \in Indices /\ bottom_' = [bottom_ EXCEPT ![t] = @ + 1]
    BY <1>1, <1>2 DEF StealingTypes
  <2>2. At(array_[t], bottom_[t]) \in Fibers /\ At(array_[t], bottom_[t]) \notin QueuedFibers(array_, top_, bottom_)
    BY <1>3, <1>4 DEF AllQueued
  <2>3. Publishes(array_, top_, bottom_, t, bottom_')
    BY <1>1, <1>3, <2>1, <2>2 DEF Publishes
  <2> QED BY <1>3, <2>3, PublishedFiber DEF AllQueued
<1>6. AllQueued' = AllQueued \cup {pushes[t]}
  BY <1>2, <1>5 DEF AllQueued
<1>7. pushes' = [pushes EXCEPT ![t] = NoFiber]
  BY <1>2
<1>8. OnePlace(AllQueued \cup {pushes[t]}, run, pushes', fresh)
  BY <1>1, <1>3, <1>7, PushingKeepsPlaces
<1>9. \A x : x \in Waiting(AllQueued \cup {pushes[t]}, run, pushes') <=> x \in Waiting(AllQueued, run, pushes)
  BY <1>1, <1>3, <1>7, PushingKeepsPlaces
<1>10. OnePlace(AllQueued, run, pushes, fresh)' /\ QueuedOnce(array_, top_, bottom_)'
  BY <1>2, <1>5, <1>6, <1>8
<1>11. StealingTypes'
  BY <1>1, <1>2 DEF StealingTypes, Indices
<1>12. \A u \in Stealers : StageKnows(u)'
  BY <1>1, <1>2 DEF StageKnows, StealingTypes, OnePlace
<1>13. \A u \in Stealers : QueueIsSound(u)'
  <2>1. QueueIsSound(t)'
    <3>1. pc'[t] = "runs" /\ bottom_'[t] = bottom_[t] + 1 /\ top_'[t] = top_[t] /\ array_'[t] = array_[t]
      BY <1>1, <1>2 DEF StealingTypes, Indices
    <3>2. top_[t] \in Nat /\ bottom_[t] \in Nat /\ Slots(array_[t]) \in Nat /\ Ring(array_[t])
      BY <1>1, SlotsOfRing DEF StealingTypes, Indices, QueueIsSound
    <3> QED BY <1>3, <3>1, <3>2 DEF QueueIsSound
  <2>2. ASSUME NEW u \in Stealers \ {t} PROVE QueueIsSound(u)'
    <3>1. pc'[u] = pc[u] /\ bottom_'[u] = bottom_[u] /\ top_'[u] = top_[u] /\ array_'[u] = array_[u]
          /\ pushes'[u] = pushes[u]
      BY <1>1, <1>2 DEF StealingTypes, OnePlace
    <3> QED BY <1>1, <3>1 DEF QueueIsSound
  <2> QED BY <2>1, <2>2
<1>14. \A u \in Stealers : PopperKnows(u)'
  <2> SUFFICES ASSUME NEW u \in Stealers PROVE PopperKnows(u)'
    OBVIOUS
  <2>1. PopperKnows(u) /\ (u = t => pc'[u] = "runs" /\ pc[u] = "publish") /\ (u # t => pc'[u] = pc[u])
    BY <1>1, <1>2 DEF StealingTypes
  <2>2. PICK v \in Stealers : v = victim[u]
    BY <1>1 DEF StealingTypes
  <2>3. bottom_[v] \in Nat /\ bottom_'[v] \in Nat /\ bottom_[v] <= bottom_'[v] /\ top[u] \in Nat
    BY <1>1, <1>2 DEF StealingTypes, Indices
  <2> QED BY <1>2, <2>1, <2>2, <2>3 DEF PopperKnows
<1>15. StealingInv'
  BY <1>10, <1>11, <1>12, <1>13, <1>14 DEF StealingInv
<1>16. \A x : x \in Waiting(AllQueued, run, pushes)' <=> x \in Waiting(AllQueued, run, pushes)
  BY <1>2, <1>6, <1>9
<1> QED BY <1>2, <1>15, <1>16, WaitingKept

\* Steps of a thread in its own variables: it makes nothing ready, and takes nothing.
LEMMA LocalSteps ==
    ASSUME StealingInv, part = "stealing", part' = part, NEW t \in Stealers,
           Stealing!LoadTop(t) \/ Stealing!ReadSlot(t) \/ Stealing!Dispatch(t) \/ Stealing!End(t)
             \/ (Stealing!LoadBottom(t) /\ ~ (Stealing!IsEmpty(t) /\ Stealing!PopFails(t)))
    PROVE  StealingInv' /\ [AsPool!Next]_(AsPool!pool)
<1>1. /\ StealingTypes /\ OnePlace(AllQueued, run, pushes, fresh) /\ QueuedOnce(array_, top_, bottom_)
      /\ \A u \in Stealers : StageKnows(u) /\ QueueIsSound(u) /\ PopperKnows(u)
  BY DEF StealingInv
<1> DEFINE Local == /\ UNCHANGED <<run, top_, bottom_, array_, pushes, fresh, victim>>
                    /\ \E stage \in {"bottom", "read", "cas", "top"} : pc' = [pc EXCEPT ![t] = stage]
                    /\ top' \in Indices /\ DOMAIN ctx' = Stealers
                    /\ \A u \in Stealers \ {t} : top'[u] = top[u] /\ ctx'[u] = ctx[u]
                    /\ pc[t] \in {"top", "bottom", "read", "runs"}
<1>2. ASSUME Local, PopperKnows(t)'
      PROVE  StealingInv' /\ [AsPool!Next]_(AsPool!pool)
  <2>1. StealingTypes'
    <3>1. pc' \in [Stealers -> {"runs", "top", "bottom", "read", "cas", "push", "publish", "suspended"}]
      <4>1. PICK stage \in {"bottom", "read", "cas", "top"} : pc' = [pc EXCEPT ![t] = stage]
        BY <1>2
      <4> QED BY <1>1, <4>1 DEF StealingTypes
    <3>2. UNCHANGED <<top_, bottom_, array_, victim>> /\ top' \in Indices /\ DOMAIN ctx' = Stealers
      BY <1>2
    <3> QED BY <1>1, <3>1, <3>2 DEF StealingTypes
  <2>2. OnePlace(AllQueued, run, pushes, fresh)' /\ QueuedOnce(array_, top_, bottom_)'
    BY <1>1, <1>2 DEF AllQueued
  <2>3. pc'[t] \in {"bottom", "read", "cas", "top"}
        /\ \A u \in Stealers \ {t} : pc'[u] = pc[u] /\ top'[u] = top[u] /\ ctx'[u] = ctx[u]
    BY <1>1, <1>2 DEF StealingTypes, Indices
  <2>4. \A u \in Stealers : StageKnows(u)'
    <3>1. StageKnows(t)'
      BY <1>1, <1>2, <2>3 DEF StageKnows
    <3>2. \A u \in Stealers \ {t} : StageKnows(u)'
      BY <1>1, <1>2, <2>3 DEF StageKnows
    <3> QED BY <3>1, <3>2
  <2>5. \A u \in Stealers : QueueIsSound(u)'
    <3>1. QueueIsSound(t)'
      BY <1>1, <1>2, <2>3 DEF QueueIsSound
    <3>2. \A u \in Stealers \ {t} : QueueIsSound(u)'
      BY <1>1, <1>2, <2>3 DEF QueueIsSound
    <3> QED BY <3>1, <3>2
  <2>6. \A u \in Stealers \ {t} : PopperKnows(u)'
    BY <1>1, <1>2, <2>3 DEF PopperKnows
  <2>7. StealingInv'
    BY <1>2, <2>1, <2>2, <2>4, <2>5, <2>6 DEF StealingInv
  <2>8. Waiting(AllQueued, run, pushes)' = Waiting(AllQueued, run, pushes)
    BY <1>2 DEF AllQueued
  <2> QED BY <1>2, <2>7, <2>8, WaitingKept
<1> HIDE DEF Local
<1>20. PICK v \in Stealers : v = victim[t]
  BY <1>1 DEF StealingTypes
<1>21. top_[v] \in Nat /\ bottom_[v] \in Nat /\ top[t] \in Nat /\ PopperKnows(t)
  BY <1>1, <1>20 DEF StealingTypes, Indices
<1>3. CASE Stealing!LoadTop(t)
  <2>1. /\ pc[t] = "top" /\ pc' = [pc EXCEPT ![t] = "bottom"] /\ top' = [top EXCEPT ![t] = top_[v]]
        /\ UNCHANGED <<run, top_, bottom_, array_, pushes, fresh, victim, ctx>>
    BY <1>3, <1>20 DEF Stealing!LoadTop, Stealing!Goes, Stealing!queues
  <2>2. Local
    BY <1>1, <1>21, <2>1 DEF Local, StealingTypes, Indices
  <2>3. pc'[t] = "bottom" /\ top'[t] = top_[v]
    BY <1>1, <2>1 DEF StealingTypes, Indices
  <2>4. PopperKnows(t)'
    BY <1>20, <1>21, <2>1, <2>3 DEF PopperKnows
  <2> QED BY <1>2, <2>2, <2>4
<1>4. CASE Stealing!ReadSlot(t)
  <2>1. /\ pc[t] = "read" /\ pc' = [pc EXCEPT ![t] = "cas"]
        /\ ctx' = [ctx EXCEPT ![t] = Stealing!Holds(array_[v], top[t])]
        /\ UNCHANGED <<run, top_, bottom_, array_, pushes, fresh, victim, top>>
    BY <1>4, <1>20 DEF Stealing!ReadSlot, Stealing!Goes, Stealing!queues
  <2>2. Local
    BY <1>1, <2>1 DEF Local, StealingTypes
  <2>3. Stealing!Holds(array_[v], top[t]) = At(array_[v], top[t])
    <3>1. Stealing!Cardinality(DOMAIN array_[v]) = Slots(array_[v])
      BY <1>1, SlotsOfRing DEF QueueIsSound
    <3> QED BY <3>1 DEF Stealing!Holds, At
  <2>4. pc'[t] = "cas" /\ ctx'[t] = At(array_[v], top[t])
    BY <1>1, <2>1, <2>3 DEF StealingTypes
  <2>5. PopperKnows(t)'
    BY <1>20, <1>21, <2>1, <2>4 DEF PopperKnows
  <2> QED BY <1>2, <2>2, <2>5
<1>5. CASE Stealing!LoadBottom(t) /\ ~ (Stealing!IsEmpty(t) /\ Stealing!PopFails(t))
  <2>1. /\ pc[t] = "bottom" /\ pc' = [pc EXCEPT ![t] = "read"] /\ ~ (top[t] >= bottom_[v])
        /\ UNCHANGED <<run, top_, bottom_, array_, pushes, fresh, victim, top, ctx>>
    BY <1>5, <1>20 DEF Stealing!LoadBottom, Stealing!Goes, Stealing!queues, Stealing!locals, Stealing!IsEmpty
  <2>2. Local
    BY <1>1, <2>1 DEF Local, StealingTypes
  <2>3. pc'[t] = "read"
    BY <1>1, <2>1 DEF StealingTypes
  <2>4. PopperKnows(t)'
    BY <1>20, <1>21, <2>1, <2>3 DEF PopperKnows
  <2> QED BY <1>2, <2>2, <2>4
<1>6. CASE Stealing!Dispatch(t) \/ Stealing!End(t)
  <2>1. /\ pc[t] = "runs" /\ pc' = [pc EXCEPT ![t] = "top"]
        /\ UNCHANGED <<run, top_, bottom_, array_, pushes, fresh, victim, top, ctx>>
    BY <1>6 DEF Stealing!Dispatch, Stealing!End, Stealing!PicksNext, Stealing!Goes, Stealing!queues, Stealing!locals
  <2>2. Local
    BY <1>1, <2>1 DEF Local, StealingTypes
  <2>3. pc'[t] = "top"
    BY <1>1, <2>1 DEF StealingTypes
  <2>4. PopperKnows(t)'
    BY <1>20, <1>21, <2>1, <2>3 DEF PopperKnows
  <2> QED BY <1>2, <2>2, <2>4
<1> QED BY <1>3, <1>4, <1>5, <1>6

LEMMA StealingCas ==
    ASSUME StealingInv, part = "stealing", part' = part, NEW t \in Stealers, Stealing!Cas(t),
           ~ Stealing!PopFails(t)
    PROVE  StealingInv' /\ [AsPool!Next]_(AsPool!pool)
<1>1. /\ StealingTypes /\ OnePlace(AllQueued, run, pushes, fresh) /\ QueuedOnce(array_, top_, bottom_)
      /\ \A u \in Stealers : StageKnows(u) /\ QueueIsSound(u) /\ PopperKnows(u)
  BY DEF StealingInv
<1>2. PICK v \in Stealers : v = victim[t]
  BY <1>1 DEF StealingTypes
<1>3. /\ pc[t] = "cas" /\ top_[v] = top[t] /\ top_' = [top_ EXCEPT ![v] = @ + 1]
      /\ Stealing!Resumes(t, ctx[t])
  BY <1>2 DEF Stealing!Cas, Stealing!TopIsUnchanged
<1>4. /\ top_[v] < bottom_[v] /\ ctx[t] = At(array_[v], top_[v])
  BY <1>1, <1>2, <1>3 DEF PopperKnows
<1>5. Pops(array_, top_, bottom_, v, top_')
  BY <1>1, <1>3, <1>4 DEF Pops, StealingTypes, QueueIsSound
<1>6. /\ QueuedOnce(array_, top_', bottom_) /\ At(array_[v], top_[v]) \in QueuedFibers(array_, top_, bottom_)
      /\ \A x : x \in QueuedFibers(array_, top_', bottom_)
                  <=> x \in QueuedFibers(array_, top_, bottom_) \ {At(array_[v], top_[v])}
  BY <1>5, PoppedFiber
<1>7. PICK f : f = ctx[t]
  OBVIOUS
<1>8. f \in AllQueued /\ \A x : x \in QueuedFibers(array_, top_', bottom_) <=> x \in AllQueued \ {f}
  BY <1>4, <1>6, <1>7 DEF AllQueued
<1>9. Stealing!Resumes(t, f)
  BY <1>3, <1>7
<1>10. pushes[t] = NoFiber \/ pushes[t] = run[t]
  BY <1>1, <1>3 DEF StageKnows
<1>11. top_' \in Indices
  BY <1>1, <1>3 DEF StealingTypes, Indices
<1>12. \A u \in Stealers : /\ top_'[u] \in {top_[u], top_[u] + 1}
                           /\ top_'[u] # top_[u] => top_[u] < bottom_[u]
  BY <1>1, <1>3, <1>4 DEF StealingTypes, Indices
<1>13. f \in AllQueued \/ f = NoFiber
  BY <1>8
<1> QED BY <1>6, <1>8, <1>9, <1>10, <1>11, <1>12, <1>13, StealingResumes

LEMMA StealingYields ==
    ASSUME StealingInv, part = "stealing", part' = part, NEW t \in Stealers, Stealing!Yield(t)
    PROVE  StealingInv' /\ [AsPool!Next]_(AsPool!pool)
<1>1. /\ StealingTypes /\ OnePlace(AllQueued, run, pushes, fresh) /\ QueuedOnce(array_, top_, bottom_)
      /\ \A u \in Stealers : StageKnows(u) /\ QueueIsSound(u) /\ PopperKnows(u)
  BY DEF StealingInv
<1>2. /\ pushes' = [pushes EXCEPT ![t] = run[t]] /\ pc[t] = "runs" /\ pc' = [pc EXCEPT ![t] = "top"]
      /\ UNCHANGED <<run, top_, bottom_, array_, fresh, victim, top, ctx>>
  BY DEF Stealing!Yield, Stealing!PicksNext, Stealing!Goes, Stealing!queues, Stealing!locals
<1>3. pushes[t] = NoFiber /\ pushes' = [pushes EXCEPT ![t] = run[t]]
  BY <1>1, <1>2 DEF StageKnows
<1>4. OnePlace(AllQueued, run, pushes', fresh)
  BY <1>1, <1>3, YieldingKeepsPlaces
<1>5. \A x : x \in Waiting(AllQueued, run, pushes') <=> x \in Waiting(AllQueued, run, pushes)
  BY <1>1, <1>3, YieldingKeepsPlaces
<1>6. AllQueued' = AllQueued
  BY <1>2 DEF AllQueued
<1>7. StealingTypes' /\ OnePlace(AllQueued, run, pushes, fresh)' /\ QueuedOnce(array_, top_, bottom_)'
  BY <1>1, <1>2, <1>4, <1>6 DEF StealingTypes
<1>8. pc'[t] = "top" /\ pushes'[t] = run[t]
      /\ \A u \in Stealers \ {t} : pc'[u] = pc[u] /\ pushes'[u] = pushes[u]
  BY <1>1, <1>2 DEF StealingTypes, OnePlace
<1>9. StageKnows(t)' /\ QueueIsSound(t)' /\ PopperKnows(t)'
  BY <1>1, <1>2, <1>8 DEF StageKnows, QueueIsSound, PopperKnows
<1>10. \A u \in Stealers \ {t} : StageKnows(u)' /\ QueueIsSound(u)' /\ PopperKnows(u)'
  BY <1>1, <1>2, <1>8 DEF StageKnows, QueueIsSound, PopperKnows
<1>11. StealingInv'
  BY <1>7, <1>9, <1>10 DEF StealingInv
<1>12. \A x : x \in Waiting(AllQueued, run, pushes)' <=> x \in Waiting(AllQueued, run, pushes)
  BY <1>2, <1>5, <1>6
<1> QED BY <1>2, <1>11, <1>12, WaitingKept

LEMMA StealingLaunches ==
    ASSUME StealingInv, part = "stealing", part' = part, NEW t \in Stealers, NEW f \in Fibers,
           Stealing!Launch(t, f)
    PROVE  StealingInv' /\ [AsPool!Next]_(AsPool!pool)
<1>1. /\ StealingTypes /\ OnePlace(AllQueued, run, pushes, fresh) /\ QueuedOnce(array_, top_, bottom_)
      /\ \A u \in Stealers : StageKnows(u) /\ QueueIsSound(u) /\ PopperKnows(u)
  BY DEF StealingInv
<1>2. /\ pushes' = [pushes EXCEPT ![t] = f] /\ f \in fresh /\ fresh' = fresh \ {f}
      /\ pc[t] = "runs" /\ pc' = [pc EXCEPT ![t] = "push"]
      /\ UNCHANGED <<run, top_, bottom_, array_, victim, top, ctx>>
  BY DEF Stealing!Launch, Stealing!Goes, Stealing!queues, Stealing!locals
<1>3. pushes[t] = NoFiber /\ pushes' = [pushes EXCEPT ![t] = f] /\ f \in fresh
  BY <1>1, <1>2 DEF StageKnows
<1>4. OnePlace(AllQueued, run, pushes', fresh \ {f})
  BY <1>1, <1>3, LaunchingKeepsPlaces
<1>16. f # run[t]
  BY <1>1, <1>3 DEF OnePlace
<1>17. Adds(Waiting(AllQueued, run, pushes), f, Waiting(AllQueued, run, pushes'))
  BY <1>1, <1>3, LaunchingAddsOne
<1>5. \A x : x \in Waiting(AllQueued, run, pushes') <=> x \in Waiting(AllQueued, run, pushes) \cup {f}
  BY <1>17 DEF Adds
<1>6. AllQueued' = AllQueued
  BY <1>2 DEF AllQueued
<1>7. StealingTypes' /\ OnePlace(AllQueued, run, pushes, fresh)' /\ QueuedOnce(array_, top_, bottom_)'
  BY <1>1, <1>2, <1>4, <1>6 DEF StealingTypes
<1>8. pc'[t] = "push" /\ pushes'[t] = f
      /\ \A u \in Stealers \ {t} : pc'[u] = pc[u] /\ pushes'[u] = pushes[u]
  BY <1>1, <1>2 DEF StealingTypes, OnePlace
<1>9. StageKnows(t)' /\ QueueIsSound(t)' /\ PopperKnows(t)'
  BY <1>1, <1>2, <1>16, <1>8 DEF StageKnows, QueueIsSound, PopperKnows
<1>10. \A u \in Stealers \ {t} : StageKnows(u)' /\ QueueIsSound(u)' /\ PopperKnows(u)'
  BY <1>1, <1>2, <1>8 DEF StageKnows, QueueIsSound, PopperKnows
<1>11. StealingInv'
  BY <1>7, <1>9, <1>10 DEF StealingInv
<1>12. Offered = Waiting(AllQueued, run, pushes)
  BY StealingOffers DEF Offered
<1>13. Offered' = Waiting(AllQueued, run, pushes)'
  <2>1. (StealingInv => Stealing!Ready = Waiting(AllQueued, run, pushes))'
    BY StealingOffers, PTL
  <2> QED BY <1>11, <2>1 DEF Offered
<1>14. Offered' = Offered \cup {f}
  BY <1>2, <1>5, <1>6, <1>12, <1>13
<1>15. AsPool!Next
  BY <1>2, <1>14 DEF AsPool!Next, AsPool!Launch
<1> QED BY <1>11, <1>15

LEMMA StealingStep ==
    ASSUME StealingInv, part = "stealing", part' = part, Stealing!Next
    PROVE  StealingInv' /\ [AsPool!Next]_(AsPool!pool)
<1>1. PICK t \in Stealers : Stealing!Step(t)
  BY DEF Stealing!Next
<1>2. CASE Stealing!Push(t)
  BY <1>2, StealingPushes
<1>3. CASE Stealing!PublishBottom(t)
  BY <1>3, StealingPublishes
<1>4. CASE Stealing!Cas(t) /\ ~ Stealing!PopFails(t)
  BY <1>4, StealingCas
<1>5. CASE (Stealing!Cas(t) \/ Stealing!LoadBottom(t)) /\ Stealing!PopFails(t)
  <2>1. pc[t] \in {"bottom", "cas"}
    BY <1>5 DEF Stealing!Cas, Stealing!LoadBottom
  <2> QED BY <1>5, <2>1, PopFailsKeeps
<1>6. CASE Stealing!LoadTop(t) \/ Stealing!ReadSlot(t) \/ Stealing!Dispatch(t) \/ Stealing!End(t)
  BY <1>6, LocalSteps
<1>7. CASE Stealing!LoadBottom(t) /\ ~ Stealing!PopFails(t)
  BY <1>7, LocalSteps
<1>8. CASE Stealing!Yield(t)
  BY <1>8, StealingYields
<1>9. CASE \E f \in Fibers : Stealing!Launch(t, f)
  BY <1>9, StealingLaunches
<1> QED BY <1>1, <1>2, <1>3, <1>4, <1>5, <1>6, <1>7, <1>8, <1>9 DEF Stealing!Step

SharedFibersInv ==
    /\ part = "sharing" => SharingInv
    /\ part = "stealing" => StealingInv

LEMMA SharingPool ==
    SharingInv => Sharing!Ready = Waiting(Elements(rqueue_), run, pushes)
BY SharingOffers DEF SharingInv, Sharing!Ready, Sharing!Pushed

\* Nobody has left a fiber, so only the queues offer some.
LEMMA PoolStarts ==
    ASSUME NEW queued, NEW r, NEW p, NEW new, OnePlace(queued, r, p, new),
           p = [t \in Stealers |-> NoFiber]
    PROVE  \A x : x \in Waiting(queued, r, p) <=> x \in queued
BY NoFiberIsNone DEF Waiting, InHand

LEMMA SharedFibersStart ==
    ThreadsInit => SharedFibersInv /\ (Shared => AsPool!Init)
<1> SUFFICES ASSUME ThreadsInit PROVE SharedFibersInv /\ (Shared => AsPool!Init)
  OBVIOUS
<1>1. CASE part = "sharing"
  <2>1. Sharing!Init
    BY <1>1 DEF ThreadsInit, Distributing
  <2>2. SharingInv
    BY <2>1, SharingStarts
  <2>3. PICK f \in Fibers : rqueue_ = <<f>> /\ fresh = Fibers \ {f}
    BY <2>1 DEF Sharing!Init
  <2>4. Elements(rqueue_) = {f}
    BY <2>3 DEF Elements
  <2>5. \A x : x \in Waiting(Elements(rqueue_), run, pushes) <=> x \in Elements(rqueue_)
    <3>1. pushes = [t \in Stealers |-> NoFiber]
      BY <2>1 DEF Sharing!Init
    <3> QED BY <2>2, <3>1, PoolStarts DEF SharingInv
  <2>6. Offered = {f}
    <3>1. Offered = Waiting(Elements(rqueue_), run, pushes)
      BY <1>1, <2>2, SharingPool DEF Offered
    <3> QED BY <2>4, <2>5, <3>1
  <2>7. AsPool!Init
    BY <2>1, <2>3, <2>6 DEF AsPool!Init, Sharing!Init
  <2> QED BY <1>1, <2>2, <2>7 DEF SharedFibersInv
<1>2. CASE part = "stealing"
  <2>1. Stealing!Init
    BY <1>2 DEF ThreadsInit, Distributing
  <2>2. StealingInv
    BY <2>1, FirstIsQueued
  <2>3. Offered = Waiting(AllQueued, run, pushes)
    BY <1>2, <2>2, StealingOffers DEF Offered
  <2>4. \A x : x \in Waiting(AllQueued, run, pushes) <=> x \in AllQueued
    <3>1. pushes = [t \in Stealers |-> NoFiber]
      BY <2>1 DEF Stealing!Init
    <3> QED BY <2>2, <3>1, PoolStarts DEF StealingInv
  <2>5. Offered = {Stealing!First} /\ Stealing!First \in Fibers
    BY <2>1, <2>3, <2>4, FirstIsQueued
  <2>6. AsPool!Init
    BY <2>1, <2>5 DEF AsPool!Init, Stealing!Init
  <2> QED BY <1>2, <2>2, <2>6 DEF SharedFibersInv
<1> QED BY <1>1, <1>2 DEF SharedFibersInv, Shared

LEMMA SharedFibersStep ==
    SharedFibersInv /\ [ThreadsNext]_threadVars
      => SharedFibersInv' /\ [Shared => AsPool!Next]_(AsPool!pool)
<1> SUFFICES ASSUME SharedFibersInv, [ThreadsNext]_threadVars
             PROVE  SharedFibersInv' /\ [Shared => AsPool!Next]_(AsPool!pool)
  OBVIOUS
<1>1. part' = part
  BY DEF ThreadsNext, Of, threadVars
<1>2. CASE part = "sharing" /\ Sharing!Next
  BY <1>1, <1>2, SharingStep DEF SharedFibersInv, Shared
<1>3. CASE part = "stealing" /\ Stealing!Next
  BY <1>1, <1>3, StealingStep DEF SharedFibersInv, Shared
<1>4. CASE Shared /\ UNCHANGED threadVars
  <2>1. /\ part' = part /\ run' = run /\ rqueue_' = rqueue_ /\ suspend_' = suspend_ /\ pc' = pc
        /\ pushes' = pushes /\ fresh' = fresh /\ yields' = yields
        /\ top_' = top_ /\ bottom_' = bottom_ /\ array_' = array_ /\ victim' = victim
        /\ top' = top /\ ctx' = ctx
    BY <1>4 DEF threadVars, fiberVars, indices
  <2>2. SharingInv => SharingInv'
    BY <2>1 DEF SharingInv, Sharing!TypeOK, StageKnows
  <2>3. AllQueued' = AllQueued
    BY <2>1 DEF AllQueued
  <2>4. StealingInv => StealingInv'
    BY <2>1, <2>3 DEF StealingInv, StealingTypes, StageKnows, QueueIsSound, PopperKnows
  <2>5. SharedFibersInv'
    BY <2>1, <2>2, <2>4 DEF SharedFibersInv
  <2>6. Offered' = Offered
    <3>1. CASE part = "sharing"
      <4>1. (SharingInv => Sharing!Ready = Waiting(Elements(rqueue_), run, pushes))'
        BY SharingPool, PTL
      <4>2. SharingInv /\ SharingInv'
        BY <2>2, <3>1 DEF SharedFibersInv
      <4>3. Offered' = Waiting(Elements(rqueue_), run, pushes)'
        BY <2>1, <3>1, <4>1, <4>2 DEF Offered
      <4>4. Offered = Waiting(Elements(rqueue_), run, pushes)
        BY <3>1, <4>2, SharingPool DEF Offered
      <4> QED BY <2>1, <4>3, <4>4
    <3>2. CASE part = "stealing"
      <4>1. (StealingInv => Stealing!Ready = Waiting(AllQueued, run, pushes))'
        BY StealingOffers, PTL
      <4>2. StealingInv /\ StealingInv'
        BY <2>4, <3>2 DEF SharedFibersInv
      <4>3. Offered' = Waiting(AllQueued, run, pushes)'
        BY <2>1, <3>2, <4>1, <4>2 DEF Offered
      <4>4. Offered = Waiting(AllQueued, run, pushes)
        BY <3>2, <4>2, StealingOffers DEF Offered
      <4> QED BY <2>1, <2>3, <4>3, <4>4
    <3> QED BY <1>4, <3>1, <3>2 DEF Shared
  <2> QED BY <2>1, <2>5, <2>6 DEF AsPool!pool
<1>5. CASE ~ Shared
  BY <1>1, <1>5 DEF SharedFibersInv, Shared
<1>6. Shared => \/ UNCHANGED threadVars
                \/ part = "sharing" /\ Sharing!Next
                \/ part = "stealing" /\ Stealing!Next
  BY DEF ThreadsNext, Of, Shared
<1> QED BY <1>2, <1>3, <1>4, <1>5, <1>6

\* A ready fiber is in one queue, once, and runs on one thread, once it no longer
\* runs on another: what work_stealing and shared_work do together with the threads
\* that use them is what the pool of ready fibers does, for any threads and fibers.
THEOREM FibersAreShared == ThreadsSpec => SharesFibers
<1>1. ThreadsInit => SharedFibersInv /\ (Shared => AsPool!Init)
  BY SharedFibersStart
<1>2. SharedFibersInv /\ [ThreadsNext]_threadVars
        => SharedFibersInv' /\ [Shared => AsPool!Next]_(AsPool!pool)
  BY SharedFibersStep
<1> QED BY <1>1, <1>2, PTL DEF ThreadsSpec, SharesFibers

(***************************************************************************)
(* The deque of fiber/algo/detail.  What it still has to hand out is what  *)
(* is held at some indices: those between top_ and bottom_, the one the    *)
(* owner is about to publish, and the one its pop() has lowered bottom_ to *)
(* as long as no thief has taken it.                                       *)
(***************************************************************************)

DequeOwner == CHOOSE t \in Threads : TRUE

HeldIn(lo, hi, stage) ==
    {i \in Int : \/ lo <= i /\ i < hi
                 \/ i = hi /\ (stage = "publish" \/ (stage \in {"top", "last"} /\ lo <= hi))}
Held == HeldIn(top_, bottom_, pc[DequeOwner])

\* What is held was pushed and not taken, and is held once.
HoldsUntaken(held, a, new, count) ==
    /\ new \subseteq Fibers /\ count \in [Fibers -> 0 .. 1]
    /\ \A c \in new : count[c] = 0
    /\ \A i \in held : At(a, i) \in Fibers \ new /\ count[At(a, i)] = 0
    /\ \A i, j \in held : At(a, i) = At(a, j) => i = j

\* Whatever was pushed, but these, is held or was taken.
NothingIsLost(held, a, new, count, but) ==
    \A c \in Fibers : c \in new \cup but \/ count[c] = 1 \/ \E i \in held : c = At(a, i)

PutsAt(held, a, new, count, c, h, held2, a2, new2) ==
    /\ HoldsUntaken(held, a, new, count)
    /\ c \in new /\ new2 = new \ {c}
    /\ h \notin held /\ held2 = held \cup {h} /\ At(a2, h) = c
    /\ \A i \in held : At(a2, i) = At(a, i)

LEMMA WhatIsPutIsHeld ==
    ASSUME NEW held, NEW a, NEW new, NEW count, NEW c, NEW h, NEW held2, NEW a2, NEW new2, NEW but,
           PutsAt(held, a, new, count, c, h, held2, a2, new2)
    PROVE  /\ HoldsUntaken(held2, a2, new2, count)
           /\ NothingIsLost(held, a, new, count, but) => NothingIsLost(held2, a2, new2, count, but)
BY DEF PutsAt, HoldsUntaken, NothingIsLost

TakesAt(held, a, new, count, h, held2, count2) ==
    /\ HoldsUntaken(held, a, new, count)
    /\ h \in held /\ held2 = held \ {h}
    /\ count2 = [count EXCEPT ![At(a, h)] = @ + 1]

LEMMA WhatIsTakenIsNotHeld ==
    ASSUME NEW held, NEW a, NEW new, NEW count, NEW h, NEW held2, NEW count2, NEW but,
           TakesAt(held, a, new, count, h, held2, count2)
    PROVE  /\ HoldsUntaken(held2, a, new, count2)
           /\ NothingIsLost(held, a, new, count, but) => NothingIsLost(held2, a, new, count2, but)
<1> DEFINE c == At(a, h)
<1>1. /\ c \in Fibers \ new /\ count[c] = 0 /\ count \in [Fibers -> 0 .. 1]
      /\ count2 = [count EXCEPT ![c] = @ + 1]
  BY DEF TakesAt, HoldsUntaken
<1>2. count2 \in [Fibers -> 0 .. 1] /\ count2[c] = 1 /\ \A d \in Fibers \ {c} : count2[d] = count[d]
  BY <1>1
<1>3. \A i \in held2 : i \in held /\ At(a, i) # c
  BY DEF TakesAt, HoldsUntaken
<1>4. HoldsUntaken(held2, a, new, count2)
  BY <1>1, <1>2, <1>3 DEF TakesAt, HoldsUntaken
<1>5. NothingIsLost(held, a, new, count, but) => NothingIsLost(held2, a, new, count2, but)
  <2> SUFFICES ASSUME NothingIsLost(held, a, new, count, but), NEW d \in Fibers,
                      d \notin new \cup but, count2[d] # 1
               PROVE  \E i \in held2 : d = At(a, i)
    BY DEF NothingIsLost
  <2>1. d # c /\ count[d] # 1
    BY <1>2
  <2>2. PICK i \in held : d = At(a, i)
    BY <2>1 DEF NothingIsLost
  <2>3. i \in held2
    BY <2>1, <2>2 DEF TakesAt
  <2> QED BY <2>2, <2>3
<1> QED BY <1>4, <1>5

DequeTypes ==
    /\ Ring(array_) /\ top_ \in Nat /\ bottom_ \in Int
    /\ pc \in [Threads -> {"idle", "publish", "top", "restore", "last", "bottom", "read", "cas"}]
    /\ top \in [Threads -> Nat] /\ ctx \in [Threads -> Fibers \cup {NoFiber}]

\* How far bottom_ may be from top_, by what the owner does.
DequeOwnerKnows ==
    LET stage == pc[DequeOwner] IN
    /\ stage \in {"idle", "publish", "top", "restore", "last"}
    /\ bottom_ - top_ <= Slots(array_)
    /\ stage \in {"publish", "top"} => bottom_ - top_ < Slots(array_)
    /\ stage \in {"idle", "publish"} => bottom_ >= (IF raced THEN top_ - 1 ELSE top_)
    /\ stage = "top" => bottom_ >= (IF raced THEN top_ - 2 ELSE top_ - 1)
    /\ stage = "restore" => bottom_ < top_ /\ bottom_ >= (IF raced THEN top_ - 2 ELSE top_ - 1)
    /\ stage = "last" => /\ top_ \in {bottom_, bottom_ + 1}
                         /\ top[DequeOwner] = bottom_ /\ ctx[DequeOwner] = At(array_, bottom_)

\* As long as nobody has taken what a thief would take, that is there, and is what
\* the thief has read.
ThiefKnows(t) ==
    /\ pc[t] \in {"idle", "bottom", "read", "cas"}
    /\ pc[t] # "idle" => top[t] <= top_
    /\ pc[t] \in {"read", "cas"} /\ top[t] = top_ =>
          top_ < bottom_ \/ (top_ = bottom_ /\ pc[DequeOwner] \in {"top", "last"})
    /\ pc[t] = "cas" /\ top[t] = top_ => ctx[t] = At(array_, top_)

DequeInv ==
    /\ DequeTypes /\ raced \in BOOLEAN /\ buried \subseteq Fibers
    /\ DequeOwnerKnows
    /\ \A t \in Threads \ {DequeOwner} : ThiefKnows(t)
    /\ HoldsUntaken(Held, array_, fresh, taken)
    /\ NothingIsLost(Held, array_, fresh, taken, buried)

LEMMA DequeOwnerIsThread == DequeOwner \in Threads
BY ThreadsAssumption DEF Deque!DequeAssumption, DequeOwner

LEMMA DequeStarts ==
    ASSUME Deque!Init
    PROVE  DequeInv
<1>1. /\ top_ = 0 /\ bottom_ = 0 /\ array_ \in [0 .. 1 - 1 -> Fibers \cup {NoFiber}]
      /\ pc = [t \in Threads |-> "idle"] /\ top = [t \in Threads |-> 0]
      /\ ctx = [t \in Threads |-> NoFiber]
      /\ fresh = Fibers /\ taken = [c \in Fibers |-> 0] /\ raced = FALSE /\ buried = {}
  BY DEF Deque!Init
<1>2. Ring(array_) /\ Slots(array_) = 1
  <2>1. 1 \in Nat \ {0}
    OBVIOUS
  <2> QED BY <1>1, <2>1, RingHasSlots
<1>3. pc[DequeOwner] = "idle"
  BY <1>1, DequeOwnerIsThread
<1>4. Held = {}
  BY <1>1, <1>3 DEF Held, HeldIn
<1>5. HoldsUntaken(Held, array_, fresh, taken) /\ NothingIsLost(Held, array_, fresh, taken, buried)
  BY <1>1, <1>4 DEF HoldsUntaken, NothingIsLost
<1>6. DequeTypes
  BY <1>1, <1>2 DEF DequeTypes
<1>7. DequeOwnerKnows
  BY <1>1, <1>2, <1>3 DEF DequeOwnerKnows
<1>8. \A t \in Threads \ {DequeOwner} : ThiefKnows(t)
  <2> SUFFICES ASSUME NEW t \in Threads \ {DequeOwner} PROVE ThiefKnows(t)
    OBVIOUS
  <2>1. pc[t] = "idle"
    BY <1>1
  <2> QED BY <2>1 DEF ThiefKnows
<1>9. raced \in BOOLEAN /\ buried \subseteq Fibers
  BY <1>1
<1> QED BY <1>5, <1>6, <1>7, <1>8, <1>9 DEF DequeInv

LEMMA DequeParts ==
    DequeInv => /\ DequeTypes /\ raced \in BOOLEAN /\ buried \subseteq Fibers /\ DequeOwnerKnows
                /\ \A t \in Threads \ {DequeOwner} : ThiefKnows(t)
                /\ HoldsUntaken(Held, array_, fresh, taken)
                /\ DequeOwner \in Threads /\ Slots(array_) \in Nat \ {0}
                /\ top_ \in Nat /\ bottom_ \in Int
BY DequeOwnerIsThread, SlotsOfRing DEF DequeInv, DequeTypes

\* A step of the owner that leaves top_, and the threads that would steal, alone.
LEMMA ThievesStandBy ==
    ASSUME DequeInv, NEW stage, pc' = [pc EXCEPT ![DequeOwner] = stage],
           top_' = top_, bottom_' \in Int,
           top_ < bottom_ \/ (top_ = bottom_ /\ pc[DequeOwner] \in {"top", "last"})
             => /\ At(array_', top_) = At(array_, top_)
                /\ top_ < bottom_' \/ (top_ = bottom_' /\ stage \in {"top", "last"}),
           \A t \in Threads \ {DequeOwner} : top'[t] = top[t] /\ ctx'[t] = ctx[t]
    PROVE  \A t \in Threads \ {DequeOwner} : ThiefKnows(t)'
<1> SUFFICES ASSUME NEW t \in Threads \ {DequeOwner} PROVE ThiefKnows(t)'
  OBVIOUS
<1>1. /\ DequeTypes /\ ThiefKnows(t) /\ top_ \in Nat /\ bottom_ \in Int /\ DequeOwner \in Threads
  BY DequeParts
<1>2. pc'[t] = pc[t] /\ pc'[DequeOwner] = stage
  BY <1>1 DEF DequeTypes
<1>3. top[t] \in Nat
  BY <1>1 DEF DequeTypes
<1>4. /\ pc[t] \in {"idle", "bottom", "read", "cas"}
      /\ pc[t] # "idle" => top[t] <= top_
  BY <1>1 DEF ThiefKnows
<1>5. pc[t] \in {"read", "cas"} /\ top[t] = top_ =>
        top_ < bottom_ \/ (top_ = bottom_ /\ pc[DequeOwner] \in {"top", "last"})
  BY <1>1 DEF ThiefKnows
<1>6. pc[t] = "cas" /\ top[t] = top_ => ctx[t] = At(array_, top_)
  BY <1>1 DEF ThiefKnows
<1> QED BY <1>2, <1>4, <1>5, <1>6 DEF ThiefKnows

LEMMA DequeGrown ==
    ASSUME DequeInv
    PROVE  /\ Ring(Deque!Grown) /\ bottom_ - top_ <= Slots(Deque!Grown) - 1
           /\ Deque!Cardinality(DOMAIN Deque!Grown) = Slots(Deque!Grown)
           /\ \A k \in top_ .. bottom_ - 1 : At(Deque!Grown, k) = At(array_, k)
<1> DEFINE size == Deque!Cardinality(DOMAIN array_)
           kept == top_ .. bottom_ - 1
           n == Slots(array_)
           m == 2 * size
           b == [i \in 0 .. 2 * size - 1 |->
                   IF \E j \in kept : j % (2 * size) = i
                     THEN Deque!Get(array_, CHOOSE j \in kept : j % (2 * size) = i) ELSE NoFiber]
<1>1. /\ Ring(array_) /\ size = n /\ n \in Nat \ {0} /\ top_ \in Int /\ bottom_ \in Int
      /\ bottom_ - top_ <= n
  BY DequeParts, SlotsOfRing DEF DequeTypes, DequeOwnerKnows
<1>2. CASE bottom_ - top_ <= size - 1
  <2>1. Deque!Grown = array_
    BY <1>2 DEF Deque!Grown
  <2> QED BY <1>1, <1>2, <2>1, SlotsOfRing
<1>3. CASE ~ (bottom_ - top_ <= size - 1)
  <2>1. Deque!Grown = b
    BY <1>3 DEF Deque!Grown
  <2> HIDE DEF size
  <2>2. m \in Nat \ {0} /\ bottom_ - top_ <= m - 1
    BY <1>1
  <2>3. \A i \in 0 .. m - 1 :
          IF \E j \in top_ .. bottom_ - 1 : j % m = i
            THEN \E j \in top_ .. bottom_ - 1 : j % m = i /\ b[i] = At(array_, j)
            ELSE b[i] \in Fibers \cup {NoFiber}
    <3> SUFFICES ASSUME NEW i \in 0 .. m - 1
                 PROVE  IF \E j \in top_ .. bottom_ - 1 : j % m = i
                          THEN \E j \in top_ .. bottom_ - 1 : j % m = i /\ b[i] = At(array_, j)
                          ELSE b[i] \in Fibers \cup {NoFiber}
      OBVIOUS
    <3>1. CASE \E j \in top_ .. bottom_ - 1 : j % m = i
      <4> DEFINE c == CHOOSE j \in kept : j % (2 * size) = i
      <4>1. c \in top_ .. bottom_ - 1 /\ c % m = i
        BY <3>1
      <4>2. b[i] = Deque!Get(array_, c)
        BY <3>1
      <4> HIDE DEF c
      <4>3. Deque!Get(array_, c) = At(array_, c)
        BY <1>1 DEF Deque!Get, At, size
      <4> QED BY <3>1, <4>1, <4>2, <4>3
    <3>2. CASE ~ \E j \in top_ .. bottom_ - 1 : j % m = i
      <4>1. b[i] = NoFiber
        BY <3>2
      <4> QED BY <3>2, <4>1
    <3> QED BY <3>1, <3>2
  <2>4. b = [i \in 0 .. m - 1 |-> b[i]]
    OBVIOUS
  <2> HIDE DEF b
  <2>5. Grows(array_, top_, bottom_, m, b)
    BY <1>1, <2>2, <2>3, <2>4 DEF Grows
  <2>6. Ring(b) /\ Slots(b) = m /\ \A k \in top_ .. bottom_ - 1 : At(b, k) = At(array_, k)
    BY <2>5, GrownRing
  <2> QED BY <2>1, <2>2, <2>6, SlotsOfRing
<1> QED BY <1>2, <1>3

LEMMA DequePut ==
    ASSUME DequeInv, NEW c \in Fibers, Deque!Put(c)
    PROVE  DequeInv'
<1> DEFINE o == DequeOwner
           grown == Deque!Grown
<1>1. /\ DequeTypes /\ raced \in BOOLEAN /\ buried \subseteq Fibers /\ DequeOwnerKnows
      /\ HoldsUntaken(Held, array_, fresh, taken)
      /\ o \in Threads /\ top_ \in Nat /\ bottom_ \in Int
  BY DequeParts
<1>2. /\ pc[o] = "idle" /\ pc' = [pc EXCEPT ![o] = "publish"]
      /\ c \in fresh /\ fresh' = fresh \ {c}
      /\ UNCHANGED <<top_, bottom_, top, ctx, taken, raced, buried>>
  BY DEF Deque!Put, Deque!Goes, Deque!losses, DequeOwner
<1>14. array_' = [grown EXCEPT ![bottom_ % Deque!Cardinality(DOMAIN grown)] = c]
  BY DEF Deque!Put
<1>3. /\ Ring(grown) /\ bottom_ - top_ < Slots(grown)
      /\ Deque!Cardinality(DOMAIN grown) = Slots(grown)
      /\ \A k \in top_ .. bottom_ - 1 : At(grown, k) = At(array_, k)
  <2>1. /\ Ring(grown) /\ bottom_ - top_ <= Slots(grown) - 1
        /\ Deque!Cardinality(DOMAIN grown) = Slots(grown)
        /\ \A k \in top_ .. bottom_ - 1 : At(grown, k) = At(array_, k)
    BY DequeGrown
  <2> HIDE DEF grown
  <2>2. Slots(grown) \in Nat
    BY <2>1, SlotsOfRing
  <2> QED BY <1>1, <2>1, <2>2
<1> HIDE DEF grown
<1>4. Stores(grown, top_, bottom_, c, array_')
  <2>1. array_' = [grown EXCEPT ![bottom_ % Slots(grown)] = c]
    <3>1. Deque!Cardinality(DOMAIN grown) = Slots(grown)
      BY <1>3
    <3> QED BY <1>14, <3>1, Zenon
  <2>2. top_ \in Int /\ bottom_ \in Int /\ c \in Fibers \cup {NoFiber}
    BY <1>1
  <2> QED BY <1>3, <2>1, <2>2 DEF Stores
<1>5. /\ Ring(array_') /\ Slots(array_') = Slots(grown) /\ At(array_', bottom_) = c
      /\ \A k \in top_ .. bottom_ - 1 : At(array_', k) = At(grown, k)
  BY <1>4, StoredRing
<1>6. pc'[o] = "publish"
  BY <1>1, <1>2 DEF DequeTypes
<1>7. bottom_ \notin Held /\ Held' = Held \cup {bottom_} /\ Held \subseteq top_ .. bottom_ - 1
  BY <1>1, <1>2, <1>6 DEF Held, HeldIn
<1>8. \A i \in Held : At(array_', i) = At(array_, i)
  BY <1>3, <1>5, <1>7
<1>9. PutsAt(Held, array_, fresh, taken, c, bottom_, Held', array_', fresh')
  BY <1>1, <1>2, <1>5, <1>7, <1>8 DEF PutsAt
<1>10. /\ HoldsUntaken(Held', array_', fresh', taken)
       /\ NothingIsLost(Held, array_, fresh, taken, buried) => NothingIsLost(Held', array_', fresh', taken, buried)
  BY <1>9, WhatIsPutIsHeld
<1>11. DequeTypes'
  BY <1>1, <1>2, <1>5 DEF DequeTypes
<1>12. DequeOwnerKnows'
  <2>1. bottom_ >= (IF raced THEN top_ - 1 ELSE top_)
    BY <1>1, <1>2 DEF DequeOwnerKnows
  <2>2. bottom_' >= (IF raced' THEN top_' - 1 ELSE top_')
    BY <1>2, <2>1
  <2>3. bottom_' - top_' < Slots(array_') /\ bottom_' - top_' <= Slots(array_')
    <3>1. Slots(grown) \in Nat
      BY <1>3, SlotsOfRing
    <3> QED BY <1>1, <1>2, <1>3, <1>5, <3>1
  <2> QED BY <1>6, <2>2, <2>3 DEF DequeOwnerKnows
<1>13. \A t \in Threads \ {DequeOwner} : ThiefKnows(t)'
  <2>1. top_ < bottom_ \/ (top_ = bottom_ /\ pc[DequeOwner] \in {"top", "last"})
          => /\ At(array_', top_) = At(array_, top_)
             /\ top_ < bottom_' \/ (top_ = bottom_' /\ "publish" \in {"top", "last"})
    BY <1>1, <1>2, <1>3, <1>5
  <2>2. PICK stage : stage = "publish"
    OBVIOUS
  <2>3. pc' = [pc EXCEPT ![DequeOwner] = stage] /\ top_' = top_ /\ bottom_' \in Int
        /\ \A t \in Threads \ {DequeOwner} : top'[t] = top[t] /\ ctx'[t] = ctx[t]
    BY <1>1, <1>2, <2>2
  <2>4. top_ < bottom_ \/ (top_ = bottom_ /\ pc[DequeOwner] \in {"top", "last"})
          => /\ At(array_', top_) = At(array_, top_)
             /\ top_ < bottom_' \/ (top_ = bottom_' /\ stage \in {"top", "last"})
    BY <2>1, <2>2
  <2> QED BY <2>3, <2>4, ThievesStandBy
<1> QED BY <1>1, <1>2, <1>10, <1>11, <1>12, <1>13 DEF DequeInv

\* The owner moves bottom_ or looks at top_, and takes nothing.
OwnerMoves(stage, hi) ==
    /\ pc' = [pc EXCEPT ![DequeOwner] = stage] /\ bottom_' = hi
    /\ UNCHANGED <<top_, array_, fresh, taken>>
    /\ top' \in [Threads -> Nat] /\ ctx' \in [Threads -> Fibers \cup {NoFiber}]
    /\ \A t \in Threads \ {DequeOwner} : top'[t] = top[t] /\ ctx'[t] = ctx[t]
    /\ stage \in {"idle", "publish", "top", "restore", "last"} /\ hi \in Int
    /\ raced' \in BOOLEAN /\ buried \subseteq buried' /\ buried' \subseteq Fibers
    /\ HeldIn(top_, hi, stage) \subseteq Held
    /\ \A i \in Held : i \in HeldIn(top_, hi, stage) \/ At(array_, i) \in buried'
    /\ top_ < bottom_ \/ (top_ = bottom_ /\ pc[DequeOwner] \in {"top", "last"})
         => top_ < hi \/ (top_ = hi /\ stage \in {"top", "last"})

LEMMA OwnerMovesKeep ==
    ASSUME DequeInv, NEW stage, NEW hi, OwnerMoves(stage, hi), DequeOwnerKnows'
    PROVE  DequeInv'
<1>1. /\ DequeTypes /\ HoldsUntaken(Held, array_, fresh, taken)
      /\ DequeOwner \in Threads /\ top_ \in Nat /\ bottom_ \in Int
  BY DequeParts
<1>2. pc' = [pc EXCEPT ![DequeOwner] = stage] /\ pc'[DequeOwner] = stage
  BY <1>1 DEF OwnerMoves, DequeTypes
<1>3. DequeTypes'
  <2>1. pc' \in [Threads -> {"idle", "publish", "top", "restore", "last", "bottom", "read", "cas"}]
    BY <1>1, <1>2 DEF DequeTypes, OwnerMoves
  <2> QED BY <1>1, <2>1 DEF DequeTypes, OwnerMoves
<1>4. Held' = HeldIn(top_, hi, stage)
  BY <1>2 DEF Held, OwnerMoves
<1>5. HoldsUntaken(Held', array_, fresh, taken)
  BY <1>1, <1>4 DEF HoldsUntaken, OwnerMoves
<1>6. HoldsUntaken(Held, array_, fresh, taken)'
  BY <1>5 DEF OwnerMoves
<1>7. NothingIsLost(Held, array_, fresh, taken, buried)'
  <2>1. NothingIsLost(Held, array_, fresh, taken, buried)
    BY DEF DequeInv
  <2>2. NothingIsLost(Held', array_, fresh, taken, buried')
    BY <1>4, <2>1 DEF OwnerMoves, NothingIsLost
  <2> QED BY <2>2 DEF OwnerMoves
<1>8. \A t \in Threads \ {DequeOwner} : ThiefKnows(t)'
  <2>1. /\ top_' = top_ /\ bottom_' \in Int
        /\ \A t \in Threads \ {DequeOwner} : top'[t] = top[t] /\ ctx'[t] = ctx[t]
    BY DEF OwnerMoves
  <2>2. top_ < bottom_ \/ (top_ = bottom_ /\ pc[DequeOwner] \in {"top", "last"})
          => /\ At(array_', top_) = At(array_, top_)
             /\ top_ < bottom_' \/ (top_ = bottom_' /\ stage \in {"top", "last"})
    BY DEF OwnerMoves
  <2> QED BY <1>2, <2>1, <2>2, ThievesStandBy
<1>9. raced' \in BOOLEAN /\ buried' \subseteq Fibers
  BY DEF OwnerMoves
<1> QED BY <1>3, <1>6, <1>7, <1>8, <1>9 DEF DequeInv

LEMMA DequePublish ==
    ASSUME DequeInv, Deque!PublishBottom
    PROVE  DequeInv'
<1>1. /\ DequeTypes /\ raced \in BOOLEAN /\ buried \subseteq Fibers /\ DequeOwnerKnows
      /\ HoldsUntaken(Held, array_, fresh, taken)
      /\ DequeOwner \in Threads /\ top_ \in Nat /\ bottom_ \in Int /\ Slots(array_) \in Nat
  BY DequeParts
<1>2. /\ pc[DequeOwner] = "publish" /\ pc' = [pc EXCEPT ![DequeOwner] = "idle"]
      /\ bottom_' = bottom_ + 1 /\ raced' = FALSE
      /\ buried' = IF raced THEN buried \cup {Deque!Get(array_, bottom_)} ELSE buried
      /\ UNCHANGED <<top_, array_, top, ctx, fresh, taken>>
  BY DEF Deque!PublishBottom, Deque!Goes, DequeOwner
<1>3. pc'[DequeOwner] = "idle"
  BY <1>1, <1>2 DEF DequeTypes
<1>4. /\ bottom_ - top_ < Slots(array_)
      /\ bottom_ >= (IF raced THEN top_ - 1 ELSE top_)
  BY <1>1, <1>2 DEF DequeOwnerKnows
<1>5. DequeOwnerKnows'
  BY <1>1, <1>2, <1>3, <1>4 DEF DequeOwnerKnows
<1>6. Held = {i \in Int : (top_ <= i /\ i < bottom_) \/ i = bottom_}
  BY <1>2 DEF Held, HeldIn
<1>7. HeldIn(top_, bottom_ + 1, "idle") = {i \in Int : top_ <= i /\ i < bottom_ + 1}
  BY DEF HeldIn
<1>8. HeldIn(top_, bottom_ + 1, "idle") \subseteq Held
  BY <1>1, <1>6, <1>7
<1>9. buried' = IF raced THEN buried \cup {At(array_, bottom_)} ELSE buried
  <2>1. Deque!Cardinality(DOMAIN array_) = Slots(array_)
    BY <1>1, SlotsOfRing DEF DequeTypes
  <2> QED BY <1>2, <2>1 DEF Deque!Get, At
<1>10. buried' \subseteq Fibers /\ buried \subseteq buried'
  <2>1. bottom_ \in Held
    BY <1>1, <1>6
  <2>2. At(array_, bottom_) \in Fibers
    BY <1>1, <2>1 DEF HoldsUntaken
  <2> QED BY <1>1, <1>9, <2>2
<1>11. \A i \in Held : i \in HeldIn(top_, bottom_ + 1, "idle") \/ At(array_, i) \in buried'
  <2> SUFFICES ASSUME NEW i \in Held, i \notin HeldIn(top_, bottom_ + 1, "idle")
               PROVE  At(array_, i) \in buried'
    OBVIOUS
  <2>1. i = bottom_ /\ bottom_ < top_
    BY <1>1, <1>6, <1>7
  <2>2. raced
    BY <1>1, <1>4, <2>1
  <2> QED BY <1>9, <2>1, <2>2
<1>12. OwnerMoves("idle", bottom_ + 1)
  <2>1. top' \in [Threads -> Nat] /\ ctx' \in [Threads -> Fibers \cup {NoFiber}]
        /\ \A t \in Threads \ {DequeOwner} : top'[t] = top[t] /\ ctx'[t] = ctx[t]
    BY <1>1, <1>2 DEF DequeTypes
  <2>2. bottom_ + 1 \in Int
    BY <1>1
  <2>4. raced' \in BOOLEAN
    BY <1>2
  <2>3. top_ < bottom_ \/ (top_ = bottom_ /\ pc[DequeOwner] \in {"top", "last"})
          => top_ < bottom_ + 1
    BY <1>1
  <2> QED BY <1>2, <1>8, <1>10, <1>11, <2>1, <2>2, <2>3, <2>4 DEF OwnerMoves
<1> QED BY <1>5, <1>12, OwnerMovesKeep

LEMMA DequeLower ==
    ASSUME DequeInv, Deque!LowerBottom
    PROVE  DequeInv'
<1>1. /\ DequeTypes /\ raced \in BOOLEAN /\ buried \subseteq Fibers /\ DequeOwnerKnows
      /\ DequeOwner \in Threads /\ top_ \in Nat /\ bottom_ \in Int /\ Slots(array_) \in Nat
  BY DequeParts
<1>2. /\ pc[DequeOwner] = "idle" /\ pc' = [pc EXCEPT ![DequeOwner] = "top"]
      /\ bottom_' = bottom_ - 1
      /\ UNCHANGED <<top_, array_, top, ctx, fresh, taken, raced, buried>>
  BY DEF Deque!LowerBottom, Deque!Goes, Deque!losses, DequeOwner
<1>3. pc'[DequeOwner] = "top"
  BY <1>1, <1>2 DEF DequeTypes
<1>4. /\ bottom_ - top_ <= Slots(array_)
      /\ bottom_ >= (IF raced THEN top_ - 1 ELSE top_)
  BY <1>1, <1>2 DEF DequeOwnerKnows
<1>5. DequeOwnerKnows'
  BY <1>1, <1>2, <1>3, <1>4 DEF DequeOwnerKnows
<1>6. Held = {i \in Int : top_ <= i /\ i < bottom_}
  BY <1>2 DEF Held, HeldIn
<1>7. HeldIn(top_, bottom_ - 1, "top")
        = {i \in Int : (top_ <= i /\ i < bottom_ - 1) \/ (i = bottom_ - 1 /\ top_ <= bottom_ - 1)}
  BY DEF HeldIn
<1>8. HeldIn(top_, bottom_ - 1, "top") = Held
  BY <1>1, <1>6, <1>7
<1>10. OwnerMoves("top", bottom_ - 1)
  BY <1>1, <1>2, <1>8 DEF OwnerMoves, DequeTypes
<1> QED BY <1>5, <1>10, OwnerMovesKeep

LEMMA DequeRestore ==
    ASSUME DequeInv, Deque!RestoreBottom
    PROVE  DequeInv'
<1>1. /\ DequeTypes /\ raced \in BOOLEAN /\ buried \subseteq Fibers /\ DequeOwnerKnows
      /\ DequeOwner \in Threads /\ top_ \in Nat /\ bottom_ \in Int /\ Slots(array_) \in Nat \ {0}
  BY DequeParts
<1>2. /\ pc[DequeOwner] = "restore" /\ pc' = [pc EXCEPT ![DequeOwner] = "idle"]
      /\ bottom_' = bottom_ + 1
      /\ UNCHANGED <<top_, array_, top, ctx, fresh, taken, raced, buried>>
  BY DEF Deque!RestoreBottom, Deque!Goes, Deque!losses, DequeOwner
<1>3. pc'[DequeOwner] = "idle"
  BY <1>1, <1>2 DEF DequeTypes
<1>4. /\ bottom_ < top_
      /\ bottom_ >= (IF raced THEN top_ - 2 ELSE top_ - 1)
  BY <1>1, <1>2 DEF DequeOwnerKnows
<1>5. DequeOwnerKnows'
  BY <1>1, <1>2, <1>3, <1>4 DEF DequeOwnerKnows
<1>6. Held = {i \in Int : top_ <= i /\ i < bottom_}
  BY <1>2 DEF Held, HeldIn
<1>7. HeldIn(top_, bottom_ + 1, "idle") = {i \in Int : top_ <= i /\ i < bottom_ + 1}
  BY DEF HeldIn
<1>8. HeldIn(top_, bottom_ + 1, "idle") = Held
  BY <1>1, <1>4, <1>6, <1>7
<1>10. OwnerMoves("idle", bottom_ + 1)
  BY <1>1, <1>2, <1>4, <1>8 DEF OwnerMoves, DequeTypes
<1> QED BY <1>5, <1>10, OwnerMovesKeep

\* A step that hands out what is held at h: the owner's or a thief's.
HandsOut(h) ==
    /\ h \in Held /\ Held' = Held \ {h}
    /\ taken' = [taken EXCEPT ![At(array_, h)] = @ + 1]
    /\ UNCHANGED <<array_, fresh, raced, buried>>

LEMMA HandedOutKeeps ==
    ASSUME DequeInv, NEW h, HandsOut(h)
    PROVE  /\ HoldsUntaken(Held, array_, fresh, taken)'
           /\ NothingIsLost(Held, array_, fresh, taken, buried)'
<1>1. TakesAt(Held, array_, fresh, taken, h, Held', taken')
  BY DEF TakesAt, HandsOut, DequeInv
<1>2. HoldsUntaken(Held', array_, fresh, taken')
  BY <1>1, WhatIsTakenIsNotHeld
<1>3. NothingIsLost(Held, array_, fresh, taken, buried) => NothingIsLost(Held', array_, fresh, taken', buried)
  BY <1>1, WhatIsTakenIsNotHeld
<1> QED BY <1>2, <1>3 DEF HandsOut, DequeInv

LEMMA DequeLoadTop ==
    ASSUME DequeInv, Deque!LoadTop
    PROVE  DequeInv'
<1>1. /\ DequeTypes /\ raced \in BOOLEAN /\ buried \subseteq Fibers /\ DequeOwnerKnows
      /\ DequeOwner \in Threads /\ top_ \in Nat /\ bottom_ \in Int /\ Slots(array_) \in Nat \ {0}
      /\ Ring(array_)
  BY DequeParts DEF DequeTypes
<1>2. /\ pc[DequeOwner] = "top" /\ UNCHANGED <<top_, bottom_, array_, fresh, raced, buried>>
  BY DEF Deque!LoadTop, Deque!losses, DequeOwner
<1>3. /\ bottom_ - top_ < Slots(array_)
      /\ bottom_ >= (IF raced THEN top_ - 2 ELSE top_ - 1)
  BY <1>1, <1>2 DEF DequeOwnerKnows
<1>4. Deque!Get(array_, bottom_) = At(array_, bottom_)
  <2>1. Deque!Cardinality(DOMAIN array_) = Slots(array_)
    BY <1>1, SlotsOfRing
  <2> QED BY <2>1 DEF Deque!Get, At
<1>5. Held = {i \in Int : (top_ <= i /\ i < bottom_) \/ (i = bottom_ /\ top_ <= bottom_)}
  BY <1>2 DEF Held, HeldIn
<1>6. CASE /\ top_ > bottom_ /\ pc' = [pc EXCEPT ![DequeOwner] = "restore"]
           /\ UNCHANGED <<top, ctx, taken>>
  <2>1. pc'[DequeOwner] = "restore"
    BY <1>1, <1>6 DEF DequeTypes
  <2>2. DequeOwnerKnows'
    BY <1>1, <1>2, <1>3, <1>6, <2>1 DEF DequeOwnerKnows
  <2>3. HeldIn(top_, bottom_, "restore") = Held
    BY <1>1, <1>5, <1>6 DEF HeldIn
  <2>4. OwnerMoves("restore", bottom_)
    BY <1>1, <1>2, <1>6, <2>3 DEF OwnerMoves, DequeTypes
  <2> QED BY <2>2, <2>4, OwnerMovesKeep
<1>7. CASE /\ top_ <= bottom_ /\ top_ = bottom_ /\ pc' = [pc EXCEPT ![DequeOwner] = "last"]
           /\ ctx' = [ctx EXCEPT ![DequeOwner] = Deque!Get(array_, bottom_)]
           /\ top' = [top EXCEPT ![DequeOwner] = top_]
           /\ UNCHANGED taken
  <2>1. /\ pc'[DequeOwner] = "last" /\ top'[DequeOwner] = bottom_
        /\ ctx'[DequeOwner] = At(array_, bottom_)
    BY <1>1, <1>4, <1>7 DEF DequeTypes
  <2>2. DequeOwnerKnows'
    BY <1>1, <1>2, <1>3, <1>7, <2>1 DEF DequeOwnerKnows
  <2>3. HeldIn(top_, bottom_, "last") = Held
    BY <1>1, <1>5, <1>7 DEF HeldIn
  <2>4. At(array_, bottom_) \in Fibers \cup {NoFiber}
    BY <1>1, AtRing
  <2>5. top' \in [Threads -> Nat] /\ ctx' \in [Threads -> Fibers \cup {NoFiber}]
        /\ \A t \in Threads \ {DequeOwner} : top'[t] = top[t] /\ ctx'[t] = ctx[t]
    BY <1>1, <1>4, <1>7, <2>4 DEF DequeTypes
  <2>6. OwnerMoves("last", bottom_)
    BY <1>1, <1>2, <1>7, <2>3, <2>5 DEF OwnerMoves
  <2> QED BY <2>2, <2>6, OwnerMovesKeep
<1>8. CASE /\ top_ <= bottom_ /\ top_ # bottom_ /\ pc' = [pc EXCEPT ![DequeOwner] = "idle"]
           /\ Deque!Takes(Deque!Get(array_, bottom_)) /\ UNCHANGED <<top, ctx>>
  <2>1. pc'[DequeOwner] = "idle"
    BY <1>1, <1>8 DEF DequeTypes
  <2>2. DequeOwnerKnows'
    BY <1>1, <1>2, <1>3, <1>8, <2>1 DEF DequeOwnerKnows
  <2>3. Held' = {i \in Int : top_ <= i /\ i < bottom_}
    BY <1>2, <2>1 DEF Held, HeldIn
  <2>4. bottom_ \in Held /\ Held' = Held \ {bottom_}
    BY <1>1, <1>5, <1>8, <2>3
  <2>5. HandsOut(bottom_)
    BY <1>2, <1>4, <1>8, <2>4 DEF HandsOut, Deque!Takes
  <2>6. HoldsUntaken(Held, array_, fresh, taken)' /\ NothingIsLost(Held, array_, fresh, taken, buried)'
    BY <2>5, HandedOutKeeps
  <2>7. DequeTypes'
    BY <1>1, <1>2, <1>8 DEF DequeTypes
  <2>8. \A t \in Threads \ {DequeOwner} : ThiefKnows(t)'
    <3>1. PICK stage : stage = "idle"
      OBVIOUS
    <3>2. pc' = [pc EXCEPT ![DequeOwner] = stage] /\ top_' = top_ /\ bottom_' \in Int
          /\ \A t \in Threads \ {DequeOwner} : top'[t] = top[t] /\ ctx'[t] = ctx[t]
      BY <1>1, <1>2, <1>8, <3>1
    <3>3. top_ < bottom_ \/ (top_ = bottom_ /\ pc[DequeOwner] \in {"top", "last"})
            => /\ At(array_', top_) = At(array_, top_)
               /\ top_ < bottom_' \/ (top_ = bottom_' /\ stage \in {"top", "last"})
      BY <1>1, <1>2, <1>8
    <3> QED BY <3>2, <3>3, ThievesStandBy
  <2> QED BY <1>1, <1>2, <2>2, <2>6, <2>7, <2>8 DEF DequeInv
<1> QED BY <1>6, <1>7, <1>8 DEF Deque!LoadTop, Deque!IsLast, Deque!Goes, DequeOwner

LEMMA DequeTakeLast ==
    ASSUME DequeInv, Deque!TakeLast
    PROVE  DequeInv'
<1>1. /\ DequeTypes /\ raced \in BOOLEAN /\ buried \subseteq Fibers /\ DequeOwnerKnows
      /\ DequeOwner \in Threads /\ top_ \in Nat /\ bottom_ \in Int /\ Slots(array_) \in Nat \ {0}
      /\ \A t \in Threads \ {DequeOwner} : ThiefKnows(t)
  BY DequeParts
<1>2. /\ pc[DequeOwner] = "last" /\ UNCHANGED <<bottom_, array_, fresh, buried>>
      /\ ctx' = [ctx EXCEPT ![DequeOwner] = NoFiber] /\ top' = [top EXCEPT ![DequeOwner] = 0]
  BY DEF Deque!TakeLast, Deque!Returns, DequeOwner
<1>3. /\ top_ \in {bottom_, bottom_ + 1} /\ top[DequeOwner] = bottom_
      /\ ctx[DequeOwner] = At(array_, bottom_)
  BY <1>1, <1>2 DEF DequeOwnerKnows
<1>4. top' \in [Threads -> Nat] /\ ctx' \in [Threads -> Fibers \cup {NoFiber}]
      /\ \A t \in Threads \ {DequeOwner} : top'[t] = top[t] /\ ctx'[t] = ctx[t]
  BY <1>1, <1>2 DEF DequeTypes
<1>5. Held = {i \in Int : (top_ <= i /\ i < bottom_) \/ (i = bottom_ /\ top_ <= bottom_)}
  BY <1>2 DEF Held, HeldIn
<1>6. CASE /\ top_ = top[DequeOwner] /\ top_' = top_ + 1 /\ Deque!Takes(ctx[DequeOwner])
           /\ pc' = [pc EXCEPT ![DequeOwner] = "restore"] /\ UNCHANGED raced
  <2>1. pc'[DequeOwner] = "restore" /\ top_' = bottom_ + 1 /\ top_ = bottom_
    BY <1>1, <1>3, <1>6 DEF DequeTypes
  <2>2. DequeOwnerKnows'
    BY <1>1, <1>2, <1>6, <2>1 DEF DequeOwnerKnows
  <2>3. Held' = {i \in Int : top_' <= i /\ i < bottom_}
    BY <1>2, <2>1 DEF Held, HeldIn
  <2>4. bottom_ \in Held /\ Held' = Held \ {bottom_}
    BY <1>1, <1>5, <2>1, <2>3
  <2>5. HandsOut(bottom_)
    BY <1>2, <1>3, <1>6, <2>4 DEF HandsOut, Deque!Takes
  <2>6. HoldsUntaken(Held, array_, fresh, taken)' /\ NothingIsLost(Held, array_, fresh, taken, buried)'
    BY <2>5, HandedOutKeeps
  <2>7. DequeTypes'
    BY <1>1, <1>2, <1>4, <1>6 DEF DequeTypes
  <2>8. ASSUME NEW t \in Threads \ {DequeOwner} PROVE ThiefKnows(t)'
    <3>1. pc'[t] = pc[t] /\ top'[t] = top[t] /\ top[t] \in Nat
      BY <1>1, <1>4, <1>6 DEF DequeTypes
    <3>2. pc[t] \in {"idle", "bottom", "read", "cas"} /\ (pc[t] # "idle" => top[t] < top_')
      BY <1>1, <1>6, <3>1 DEF ThiefKnows
    <3> QED BY <1>1, <1>6, <3>1, <3>2 DEF ThiefKnows
  <2>9. raced' \in BOOLEAN /\ buried' \subseteq Fibers
    <3>1. raced' = raced /\ buried' = buried
      BY <1>2, <1>6
    <3> QED BY <1>1, <3>1
  <2> QED BY <2>2, <2>6, <2>7, <2>8, <2>9 DEF DequeInv
<1>7. CASE /\ top_ # top[DequeOwner] /\ raced' = TRUE
           /\ pc' = [pc EXCEPT ![DequeOwner] = "idle"] /\ UNCHANGED <<top_, taken>>
  <2>1. pc'[DequeOwner] = "idle" /\ top_ = bottom_ + 1
    BY <1>1, <1>3, <1>7 DEF DequeTypes
  <2>2. DequeOwnerKnows'
    BY <1>1, <1>2, <1>7, <2>1 DEF DequeOwnerKnows
  <2>3. HeldIn(top_, bottom_, "idle") = {i \in Int : top_ <= i /\ i < bottom_}
    BY DEF HeldIn
  <2>4. HeldIn(top_, bottom_, "idle") = Held
    BY <1>1, <1>5, <2>1, <2>3
  <2>5. OwnerMoves("idle", bottom_)
    BY <1>1, <1>2, <1>4, <1>7, <2>1, <2>4 DEF OwnerMoves
  <2> QED BY <2>2, <2>5, OwnerMovesKeep
<1> QED BY <1>6, <1>7 DEF Deque!TakeLast, Deque!Goes, DequeOwner

LEMMA DequeThief ==
    ASSUME DequeInv, NEW t \in Threads,
           Deque!Steal(t) \/ Deque!LoadBottom(t) \/ Deque!ReadSlot(t) \/ Deque!Cas(t)
    PROVE  DequeInv'
<1> DEFINE o == DequeOwner
<1>1. /\ DequeTypes /\ raced \in BOOLEAN /\ buried \subseteq Fibers /\ DequeOwnerKnows
      /\ DequeOwner \in Threads /\ top_ \in Nat /\ bottom_ \in Int /\ Slots(array_) \in Nat \ {0}
      /\ \A u \in Threads \ {DequeOwner} : ThiefKnows(u)
      /\ Ring(array_)
  BY DequeParts DEF DequeTypes
<1>2. t # DequeOwner
  <2>1. CASE Deque!Steal(t)
    BY <2>1 DEF Deque!Steal, DequeOwner
  <2>2. CASE Deque!LoadBottom(t) \/ Deque!ReadSlot(t) \/ Deque!Cas(t)
    <3>1. pc[t] \in {"bottom", "read", "cas"}
      BY <2>2 DEF Deque!LoadBottom, Deque!ReadSlot, Deque!Cas
    <3>2. pc[DequeOwner] \notin {"bottom", "read", "cas"}
      BY <1>1 DEF DequeOwnerKnows
    <3> QED BY <3>1, <3>2
  <2> QED BY <2>1, <2>2
<1>3. t \in Threads \ {DequeOwner} /\ ThiefKnows(t) /\ top[t] \in Nat
  BY <1>1, <1>2 DEF DequeTypes
<1> DEFINE Looks == /\ UNCHANGED <<top_, bottom_, array_, fresh, taken, raced, buried>>
                    /\ \E stage \in {"idle", "bottom", "read", "cas"} : pc' = [pc EXCEPT ![t] = stage]
                    /\ top' \in [Threads -> Nat] /\ ctx' \in [Threads -> Fibers \cup {NoFiber}]
                    /\ \A u \in Threads \ {t} : top'[u] = top[u] /\ ctx'[u] = ctx[u]
<1>4. ASSUME Looks, ThiefKnows(t)' PROVE DequeInv'
  <2>1. DequeTypes'
    BY <1>1, <1>4 DEF DequeTypes
  <2>2. \A u \in Threads \ {t} : pc'[u] = pc[u]
    BY <1>1, <1>4 DEF DequeTypes
  <2>3. pc'[DequeOwner] = pc[DequeOwner]
    BY <1>1, <1>2, <2>2
  <2>4. DequeOwnerKnows'
    BY <1>1, <1>2, <1>4, <2>3 DEF DequeOwnerKnows
  <2>5. \A u \in Threads \ {DequeOwner} : ThiefKnows(u)'
    BY <1>1, <1>4, <2>2, <2>3 DEF ThiefKnows
  <2>6. Held' = Held
    BY <1>4, <2>3 DEF Held
  <2>7. /\ HoldsUntaken(Held, array_, fresh, taken)'
        /\ NothingIsLost(Held, array_, fresh, taken, buried)'
    BY <1>4, <2>6 DEF DequeInv
  <2> QED BY <1>1, <1>4, <2>1, <2>4, <2>5, <2>7 DEF DequeInv
<1> HIDE DEF Looks
<1>5. CASE Deque!Steal(t)
  <2>1. /\ pc' = [pc EXCEPT ![t] = "bottom"] /\ top' = [top EXCEPT ![t] = top_]
        /\ UNCHANGED <<top_, bottom_, array_, ctx, fresh, taken, raced, buried>>
    BY <1>5 DEF Deque!Steal, Deque!Goes, Deque!losses
  <2>2. pc'[t] = "bottom" /\ top'[t] = top_
    BY <1>1, <2>1 DEF DequeTypes
  <2>3. Looks
    BY <1>1, <2>1 DEF Looks, DequeTypes
  <2>4. ThiefKnows(t)'
    BY <1>1, <2>1, <2>2 DEF ThiefKnows
  <2> QED BY <1>4, <2>3, <2>4
<1>6. CASE Deque!LoadBottom(t)
  <2>1. /\ UNCHANGED <<top_, bottom_, array_, fresh, taken, raced, buried>> /\ pc[t] = "bottom"
        /\ \/ top[t] < bottom_ /\ pc' = [pc EXCEPT ![t] = "read"] /\ UNCHANGED <<top, ctx>>
           \/ /\ pc' = [pc EXCEPT ![t] = "idle"] /\ ctx' = [ctx EXCEPT ![t] = NoFiber]
              /\ top' = [top EXCEPT ![t] = 0]
    BY <1>6 DEF Deque!LoadBottom, Deque!Goes, Deque!Returns, Deque!losses
  <2>2. Looks
    BY <1>1, <2>1 DEF Looks, DequeTypes
  <2>3. pc'[t] = "idle" \/ (pc'[t] = "read" /\ top[t] < bottom_ /\ top' = top)
    BY <1>1, <2>1 DEF DequeTypes
  <2>4. ThiefKnows(t)'
    BY <1>1, <1>3, <2>1, <2>3 DEF ThiefKnows
  <2> QED BY <1>4, <2>2, <2>4
<1>7. CASE Deque!ReadSlot(t)
  <2>1. /\ UNCHANGED <<top_, bottom_, array_, top, fresh, taken, raced, buried>> /\ pc[t] = "read"
        /\ pc' = [pc EXCEPT ![t] = "cas"] /\ ctx' = [ctx EXCEPT ![t] = Deque!Get(array_, top[t])]
    BY <1>7 DEF Deque!ReadSlot, Deque!Goes, Deque!losses
  <2>2. Deque!Get(array_, top[t]) = At(array_, top[t])
    <3>1. Deque!Cardinality(DOMAIN array_) = Slots(array_)
      BY <1>1, SlotsOfRing
    <3> QED BY <3>1 DEF Deque!Get, At
  <2>3. At(array_, top[t]) \in Fibers \cup {NoFiber}
    BY <1>1, <1>3, AtRing
  <2>4. Looks
    BY <1>1, <2>1, <2>2, <2>3 DEF Looks, DequeTypes
  <2>5. pc'[t] = "cas" /\ ctx'[t] = At(array_, top[t])
    BY <1>1, <2>1, <2>2 DEF DequeTypes
  <2>6. ThiefKnows(t)'
    <3>1. top[t] = top_ => top_ < bottom_ \/ (top_ = bottom_ /\ pc[DequeOwner] \in {"top", "last"})
      BY <1>3, <2>1 DEF ThiefKnows
    <3>2. pc'[DequeOwner] = pc[DequeOwner]
      BY <1>1, <1>2, <2>1 DEF DequeTypes
    <3>3. top[t] <= top_
      BY <1>3, <2>1 DEF ThiefKnows
    <3> QED BY <2>1, <2>5, <3>1, <3>2, <3>3 DEF ThiefKnows
  <2> QED BY <1>4, <2>4, <2>6
<1>8. CASE Deque!Cas(t)
  <2>1. /\ UNCHANGED <<bottom_, array_, fresh, raced, buried>> /\ pc[t] = "cas"
        /\ pc' = [pc EXCEPT ![t] = "idle"] /\ ctx' = [ctx EXCEPT ![t] = NoFiber]
        /\ top' = [top EXCEPT ![t] = 0]
    BY <1>8 DEF Deque!Cas, Deque!Goes, Deque!Returns, Deque!losses
  <2>2. pc'[t] = "idle" /\ \A u \in Threads \ {t} : pc'[u] = pc[u] /\ top'[u] = top[u] /\ ctx'[u] = ctx[u]
    BY <1>1, <2>1 DEF DequeTypes
  <2>3. CASE UNCHANGED <<top_, taken>>
    <3>1. Looks
      BY <1>1, <2>1, <2>3 DEF Looks, DequeTypes
    <3>2. ThiefKnows(t)'
      BY <2>2 DEF ThiefKnows
    <3> QED BY <1>4, <3>1, <3>2
  <2>4. CASE top_ = top[t] /\ top_' = top_ + 1 /\ Deque!Takes(ctx[t])
    <3>1. /\ top_ < bottom_ \/ (top_ = bottom_ /\ pc[DequeOwner] \in {"top", "last"})
          /\ ctx[t] = At(array_, top_)
      BY <1>3, <2>1, <2>4 DEF ThiefKnows
    <3>2. pc'[DequeOwner] = pc[DequeOwner] /\ top'[DequeOwner] = top[DequeOwner]
          /\ ctx'[DequeOwner] = ctx[DequeOwner]
      BY <1>1, <1>2, <2>2
    <3>3. top_ \in Held
      BY <1>1, <3>1 DEF Held, HeldIn
    <3>4. Held' = Held \ {top_}
      <4>1. pc[DequeOwner] = "publish" => top_ < bottom_
        BY <3>1
      <4>2. Held' = HeldIn(top_ + 1, bottom_, pc[DequeOwner])
        BY <2>1, <2>4, <3>2 DEF Held
      <4>3. HeldIn(top_ + 1, bottom_, pc[DequeOwner]) = HeldIn(top_, bottom_, pc[DequeOwner]) \ {top_}
        BY <1>1, <4>1 DEF HeldIn
      <4> QED BY <4>2, <4>3 DEF Held
    <3>5. HandsOut(top_)
      BY <2>1, <2>4, <3>1, <3>3, <3>4 DEF HandsOut, Deque!Takes
    <3>6. HoldsUntaken(Held, array_, fresh, taken)' /\ NothingIsLost(Held, array_, fresh, taken, buried)'
      BY <3>5, HandedOutKeeps
    <3>7. DequeTypes'
      BY <1>1, <2>1, <2>4 DEF DequeTypes
    <3>8. ASSUME NEW u \in Threads \ {DequeOwner} PROVE ThiefKnows(u)'
      <4>1. CASE u = t
        BY <2>2, <4>1 DEF ThiefKnows
      <4>2. CASE u # t
        <5>1. pc'[u] = pc[u] /\ top'[u] = top[u] /\ top[u] \in Nat /\ ThiefKnows(u)
          BY <1>1, <2>2, <4>2 DEF DequeTypes
        <5>2. pc[u] \in {"idle", "bottom", "read", "cas"} /\ (pc[u] # "idle" => top[u] <= top_)
          BY <5>1 DEF ThiefKnows
        <5>3. pc[u] # "idle" => top'[u] < top_'
          BY <1>1, <2>4, <5>1, <5>2
        <5> QED BY <1>1, <2>4, <5>1, <5>2, <5>3 DEF ThiefKnows
      <4> QED BY <4>1, <4>2
    <3>9. DequeOwnerKnows'
      BY <1>1, <2>1, <2>4, <3>1, <3>2 DEF DequeOwnerKnows
    <3> QED BY <1>1, <2>1, <3>6, <3>7, <3>8, <3>9 DEF DequeInv
  <2> QED BY <1>8, <2>3, <2>4 DEF Deque!Cas
<1> QED BY <1>5, <1>6, <1>7, <1>8

LEMMA DequeStep ==
    ASSUME DequeInv, Deque!Next
    PROVE  DequeInv'
<1>1. CASE \E c \in Fibers : Deque!Put(c)
  BY <1>1, DequePut
<1>2. CASE Deque!PublishBottom \/ Deque!LowerBottom \/ Deque!LoadTop \/ Deque!TakeLast \/ Deque!RestoreBottom
  BY <1>2, DequePublish, DequeLower, DequeLoadTop, DequeTakeLast, DequeRestore
<1>3. CASE \E t \in Threads : Deque!Steal(t) \/ Deque!LoadBottom(t) \/ Deque!ReadSlot(t) \/ Deque!Cas(t)
  BY <1>3, DequeThief
<1> QED BY <1>1, <1>2, <1>3 DEF Deque!Next

LEMMA DequeHandsOutOnce ==
    DequeInv => Deque!TypeOK /\ Deque!HandedOutOnce
<1> SUFFICES ASSUME DequeInv PROVE Deque!TypeOK /\ Deque!HandedOutOnce
  OBVIOUS
<1>1. /\ DequeTypes /\ raced \in BOOLEAN /\ buried \subseteq Fibers /\ HoldsUntaken(Held, array_, fresh, taken)
      /\ top_ \in Nat /\ bottom_ \in Int /\ Ring(array_)
  BY DequeParts DEF DequeTypes
<1>2. Deque!TypeOK
  <2>1. \A i \in DOMAIN array_ : array_[i] \in Fibers \cup {NoFiber}
    BY <1>1, SlotsOfRing
  <2>2. fresh \subseteq Fibers /\ taken \in [Fibers -> Nat]
    BY <1>1 DEF HoldsUntaken
  <2> QED BY <1>1, <2>1, <2>2 DEF Deque!TypeOK, DequeTypes
<1>3. \A i : Deque!Get(array_, i) = At(array_, i)
  <2>1. Deque!Cardinality(DOMAIN array_) = Slots(array_)
    BY <1>1, SlotsOfRing
  <2> QED BY <2>1 DEF Deque!Get, At
<1>4. \A c : c \in Deque!Queued \cup Deque!InPush \cup Deque!InPop <=> \E i \in Held : c = At(array_, i)
  <2>1. Deque!Queued = {At(array_, i) : i \in top_ .. bottom_ - 1}
    BY <1>3 DEF Deque!Queued
  <2>2. Deque!InPush = IF pc[DequeOwner] = "publish" THEN {At(array_, bottom_)} ELSE {}
    BY <1>3 DEF Deque!InPush, DequeOwner
  <2>3. Deque!InPop = IF pc[DequeOwner] \in {"top", "last"} /\ top_ <= bottom_ THEN {At(array_, bottom_)} ELSE {}
    BY <1>3 DEF Deque!InPop, DequeOwner
  <2>4. \A i : i \in Held <=> \/ i \in top_ .. bottom_ - 1
                              \/ i = bottom_ /\ pc[DequeOwner] = "publish"
                              \/ i = bottom_ /\ pc[DequeOwner] \in {"top", "last"} /\ top_ <= bottom_
    BY <1>1 DEF Held, HeldIn
  <2> QED BY <2>1, <2>2, <2>3, <2>4
<1>5. \A c \in Fibers : taken[c] <= 1 /\ taken[c] \in {0, 1}
  BY <1>1 DEF HoldsUntaken
<1>6. (Deque!Queued \cup Deque!InPush \cup Deque!InPop) \cap Deque!Taken = {}
  <2> SUFFICES ASSUME NEW c \in Deque!Queued \cup Deque!InPush \cup Deque!InPop, c \in Deque!Taken
               PROVE  FALSE
    OBVIOUS
  <2>1. PICK i \in Held : c = At(array_, i)
    BY <1>4
  <2>2. taken[c] = 0
    BY <1>1, <2>1 DEF HoldsUntaken
  <2> QED BY <2>2 DEF Deque!Taken
<1>7. Deque!Lost \subseteq buried
  <2> SUFFICES ASSUME NEW c \in Deque!Lost, c \notin buried PROVE FALSE
    OBVIOUS
  <2>1. c \in Fibers /\ c \notin fresh /\ c \notin Deque!Taken
        /\ c \notin Deque!Queued \cup Deque!InPush \cup Deque!InPop
    BY DEF Deque!Lost
  <2>2. taken[c] = 0
    BY <1>5, <2>1 DEF Deque!Taken
  <2>3. NothingIsLost(Held, array_, fresh, taken, buried)
    BY DEF DequeInv
  <2> QED BY <1>4, <2>1, <2>2, <2>3 DEF NothingIsLost
<1> QED BY <1>2, <1>5, <1>6, <1>7 DEF Deque!HandedOutOnce

LEMMA DequeHolds ==
    /\ ThreadsInit => (part = "deque" => DequeInv)
    /\ (part = "deque" => DequeInv) /\ [ThreadsNext]_threadVars => (part = "deque" => DequeInv)'
<1>1. ASSUME ThreadsInit, part = "deque" PROVE DequeInv
  <2>1. Deque!Init
    BY <1>1 DEF ThreadsInit, Distributing
  <2> QED BY <2>1, DequeStarts
<1>2. ASSUME part = "deque" => DequeInv, [ThreadsNext]_threadVars, part' = "deque" PROVE DequeInv'
  <2>1. part = "deque" /\ DequeInv
    BY <1>2 DEF ThreadsNext, Of, threadVars
  <2>2. CASE Deque!Next
    BY <2>1, <2>2, DequeStep
  <2>3. CASE UNCHANGED threadVars
    <3>1. /\ top_' = top_ /\ bottom_' = bottom_ /\ array_' = array_ /\ pc' = pc /\ top' = top /\ ctx' = ctx
          /\ fresh' = fresh /\ taken' = taken /\ raced' = raced /\ buried' = buried
      BY <2>3 DEF threadVars, fiberVars, indices, dequeVars
    <3>2. Held' = Held
      BY <3>1 DEF Held
    <3> QED BY <2>1, <3>1, <3>2 DEF DequeInv, DequeTypes, DequeOwnerKnows, ThiefKnows
  <2> QED BY <1>2, <2>1, <2>2, <2>3 DEF ThreadsNext, Of
<1> QED BY <1>1, <1>2

(***************************************************************************)
(* The queue of remotely readied fibers.  q is the list from tail_ to      *)
(* head_, dummy_ in it or not, nxt are the links, and pending the pairs of *)
(* neighbours that somebody has swapped in and has yet to link.            *)
(***************************************************************************)

Nodes == Fibers \cup {Dummy}

Gapped(q, nxt, pending) ==
    /\ \A i \in 1 .. Len(q) - 1 :
          nxt[q[i]] = q[i + 1] \/ (nxt[q[i]] = NoFiber /\ <<q[i], q[i + 1]>> \in pending)
    /\ \A p \in pending : \E i \in 1 .. Len(q) - 1 :
          p = <<q[i], q[i + 1]>> /\ nxt[q[i]] = NoFiber

ListIs(q, hd, tl, nxt, pending) ==
    /\ q \in Seq(Nodes) /\ q # <<>> /\ Once(q)
    /\ q[1] = tl /\ q[Len(q)] = hd
    /\ nxt \in [Nodes -> Nodes \cup {NoFiber}] /\ nxt[hd] = NoFiber
    /\ Gapped(q, nxt, pending)

LEMMA NodesAreNodes == NoFiber \notin Nodes /\ Dummy \notin Fibers
BY ThreadsAssumption DEF Remote!ContextQueueAssumption, Nodes

\* A swap of head_: e comes last, its link to it is pending.
SwapsIn(q, hd, tl, nxt, pending, e, nxt2, pending2) ==
    /\ ListIs(q, hd, tl, nxt, pending)
    /\ e \in Nodes /\ e \notin Elements(q)
    /\ nxt2 = [nxt EXCEPT ![e] = NoFiber] /\ pending2 = pending \cup {<<hd, e>>}

LEMMA SwappedIn ==
    ASSUME NEW q, NEW hd, NEW tl, NEW nxt, NEW pending, NEW e, NEW nxt2, NEW pending2,
           SwapsIn(q, hd, tl, nxt, pending, e, nxt2, pending2)
    PROVE  ListIs(Append(q, e), e, tl, nxt2, pending2)
<1>1. /\ q \in Seq(Nodes) /\ q # <<>> /\ Once(q) /\ q[1] = tl /\ q[Len(q)] = hd
      /\ nxt \in [Nodes -> Nodes \cup {NoFiber}] /\ nxt[hd] = NoFiber /\ Gapped(q, nxt, pending)
      /\ e \in Nodes /\ e \notin Elements(q)
      /\ nxt2 = [nxt EXCEPT ![e] = NoFiber] /\ pending2 = pending \cup {<<hd, e>>}
  BY DEF SwapsIn, ListIs
<1> DEFINE n == Len(q)
           r == Append(q, e)
<1>2. /\ n \in Nat \ {0} /\ Len(r) = n + 1 /\ r[n + 1] = e /\ r \in Seq(Nodes) /\ r # <<>>
      /\ \A i \in 1 .. n : r[i] = q[i] /\ q[i] \in Elements(q) /\ q[i] \in Nodes
  BY <1>1 DEF Elements
<1>3. Once(r)
  BY <1>1, AppendOnce
<1>4. /\ nxt2 \in [Nodes -> Nodes \cup {NoFiber}] /\ nxt2[e] = NoFiber
      /\ \A i \in 1 .. n : nxt2[q[i]] = nxt[q[i]]
  BY <1>1, <1>2
<1> HIDE DEF n, r
<1>5. q[n] = hd /\ nxt2[r[n]] = NoFiber /\ <<r[n], r[n + 1]>> = <<hd, e>> /\ n \in 1 .. n
  BY <1>1, <1>2, <1>4 DEF n
<1>6. \A i \in 1 .. n - 1 : r[i] = q[i] /\ r[i + 1] = q[i + 1] /\ nxt2[r[i]] = nxt[q[i]]
  BY <1>2, <1>4
<1>7. Gapped(r, nxt2, pending2)
  <2>1. ASSUME NEW i \in 1 .. n
        PROVE  nxt2[r[i]] = r[i + 1] \/ (nxt2[r[i]] = NoFiber /\ <<r[i], r[i + 1]>> \in pending2)
    <3>1. CASE i = n
      BY <1>1, <1>5, <3>1
    <3>2. CASE i # n
      <4>1. i \in 1 .. n - 1
        BY <1>2, <3>2
      <4> QED BY <1>1, <1>6, <4>1 DEF Gapped, n
    <3> QED BY <3>1, <3>2
  <2>2. ASSUME NEW p \in pending2
        PROVE  \E i \in 1 .. n : p = <<r[i], r[i + 1]>> /\ nxt2[r[i]] = NoFiber
    <3>1. CASE p = <<hd, e>>
      BY <1>5, <3>1
    <3>2. CASE p \in pending
      <4>1. PICK i \in 1 .. n - 1 : p = <<q[i], q[i + 1]>> /\ nxt[q[i]] = NoFiber
        BY <1>1, <3>2 DEF Gapped, n
      <4>2. i \in 1 .. n
        BY <1>2
      <4> QED BY <1>6, <4>1, <4>2
    <3> QED BY <1>1, <3>1, <3>2
  <2>3. Len(r) - 1 = n
    BY <1>2
  <2> QED BY <2>1, <2>2, <2>3 DEF Gapped
<1>8. r[1] = tl /\ r[Len(r)] = e
  BY <1>1, <1>2
<1>9. ListIs(r, e, tl, nxt2, pending2)
  BY <1>2, <1>3, <1>4, <1>7, <1>8 DEF ListIs
<1> QED BY <1>9 DEF r

\* A link that was pending is made.
LinksUp(q, hd, tl, nxt, pending, m, e, nxt2, pending2) ==
    /\ ListIs(q, hd, tl, nxt, pending)
    /\ <<m, e>> \in pending
    /\ nxt2 = [nxt EXCEPT ![m] = e] /\ pending2 = pending \ {<<m, e>>}

LEMMA LinkedUp ==
    ASSUME NEW q, NEW hd, NEW tl, NEW nxt, NEW pending, NEW m, NEW e, NEW nxt2, NEW pending2,
           LinksUp(q, hd, tl, nxt, pending, m, e, nxt2, pending2)
    PROVE  ListIs(q, hd, tl, nxt2, pending2) /\ nxt[m] = NoFiber /\ m \in Elements(q)
<1>1. /\ q \in Seq(Nodes) /\ q # <<>> /\ Once(q) /\ q[1] = tl /\ q[Len(q)] = hd
      /\ nxt \in [Nodes -> Nodes \cup {NoFiber}] /\ nxt[hd] = NoFiber /\ Gapped(q, nxt, pending)
      /\ <<m, e>> \in pending /\ nxt2 = [nxt EXCEPT ![m] = e] /\ pending2 = pending \ {<<m, e>>}
  BY DEF LinksUp, ListIs
<1>2. PICK j \in 1 .. Len(q) - 1 : <<m, e>> = <<q[j], q[j + 1]>> /\ nxt[q[j]] = NoFiber
  BY <1>1 DEF Gapped
<1>3. m = q[j] /\ e = q[j + 1]
  BY <1>2
<1> DEFINE n == Len(q)
<1>4. n \in Nat \ {0} /\ \A i \in 1 .. n : q[i] \in Nodes
  BY <1>1
<1>5. \A i, k \in 1 .. n : q[i] = q[k] => i = k
  BY <1>1 DEF Once
<1> HIDE DEF n
<1>6. nxt2 \in [Nodes -> Nodes \cup {NoFiber}] /\ nxt2[q[j]] = q[j + 1]
      /\ \A i \in 1 .. n : i # j => nxt2[q[i]] = nxt[q[i]]
  BY <1>1, <1>2, <1>3, <1>4, <1>5 DEF n
<1>7. nxt2[hd] = NoFiber
  BY <1>1, <1>2, <1>4, <1>6 DEF n
<1>8. Gapped(q, nxt2, pending2)
  <2>1. ASSUME NEW i \in 1 .. n - 1
        PROVE  nxt2[q[i]] = q[i + 1] \/ (nxt2[q[i]] = NoFiber /\ <<q[i], q[i + 1]>> \in pending2)
    <3>1. CASE i = j
      BY <1>6, <3>1
    <3>2. CASE i # j
      <4>1. nxt2[q[i]] = nxt[q[i]] /\ q[i] # q[j]
        BY <1>2, <1>4, <1>5, <1>6, <3>2 DEF n
      <4>2. nxt[q[i]] = q[i + 1] \/ (nxt[q[i]] = NoFiber /\ <<q[i], q[i + 1]>> \in pending)
        BY <1>1 DEF Gapped, n
      <4>3. <<q[i], q[i + 1]>> # <<m, e>>
        BY <1>3, <4>1
      <4> QED BY <1>1, <4>1, <4>2, <4>3
    <3> QED BY <3>1, <3>2
  <2>2. ASSUME NEW p \in pending2
        PROVE  \E i \in 1 .. n - 1 : p = <<q[i], q[i + 1]>> /\ nxt2[q[i]] = NoFiber
    <3>1. PICK i \in 1 .. n - 1 : p = <<q[i], q[i + 1]>> /\ nxt[q[i]] = NoFiber
      BY <1>1 DEF Gapped, n
    <3>2. i # j
      BY <1>1, <1>3, <3>1
    <3>3. i \in 1 .. n
      BY <1>4
    <3> QED BY <1>6, <3>1, <3>2, <3>3
  <2> QED BY <2>1, <2>2 DEF Gapped, n
<1>9. m \in Elements(q)
  BY <1>2, <1>3, <1>4 DEF Elements, n
<1> QED BY <1>1, <1>2, <1>3, <1>6, <1>7, <1>8, <1>9 DEF ListIs

\* The first of the list is taken off; its link has been made.
LEMMA TakenOff ==
    ASSUME NEW q, NEW hd, NEW tl, NEW nxt, NEW pending, ListIs(q, hd, tl, nxt, pending),
           nxt[tl] # NoFiber
    PROVE  ListIs(Tail(q), hd, nxt[tl], nxt, pending) /\ nxt[tl] \in Nodes
<1>1. /\ q \in Seq(Nodes) /\ q # <<>> /\ Once(q) /\ q[1] = tl /\ q[Len(q)] = hd
      /\ nxt \in [Nodes -> Nodes \cup {NoFiber}] /\ nxt[hd] = NoFiber /\ Gapped(q, nxt, pending)
  BY DEF ListIs
<1> DEFINE n == Len(q)
           r == Tail(q)
<1>2. n \in Nat /\ n > 1
  <2>1. Len(q) \in Nat \ {0}
    BY <1>1
  <2>2. Len(q) # 1
    BY <1>1
  <2>3. \A m : m \in Nat \ {0} /\ m # 1 => m \in Nat /\ m > 1
    OBVIOUS
  <2>4. Len(q) \in Nat /\ Len(q) > 1
    BY <2>1, <2>2, <2>3
  <2> QED BY <2>4
<1>3. r \in Seq(Nodes) /\ Len(r) = n - 1 /\ \A i \in 1 .. n - 1 : r[i] = q[i + 1]
  BY <1>1
<1>4. Once(r)
  BY <1>1, TailOnce
<1> HIDE DEF n, r
<1>5. r # <<>> /\ r[1] = q[2] /\ r[Len(r)] = hd
  BY <1>1, <1>2, <1>3 DEF n
<1>6. nxt[q[1]] = q[2]
  <2>1. 1 \in 1 .. n - 1 /\ 1 + 1 = 2
    BY <1>2
  <2>2. nxt[q[1]] # NoFiber
    BY <1>1
  <2>3. \A i \in 1 .. n - 1 :
           nxt[q[i]] = q[i + 1] \/ (nxt[q[i]] = NoFiber /\ <<q[i], q[i + 1]>> \in pending)
    BY <1>1 DEF Gapped, n
  <2>4. nxt[q[1]] = q[1 + 1]
    BY <2>1, <2>2, <2>3
  <2> QED BY <2>1, <2>4
<1>7. Gapped(r, nxt, pending)
  <2>1. ASSUME NEW i \in 1 .. n - 2
        PROVE  nxt[r[i]] = r[i + 1] \/ (nxt[r[i]] = NoFiber /\ <<r[i], r[i + 1]>> \in pending)
    <3>1. i + 1 \in 1 .. n - 1 /\ r[i] = q[i + 1] /\ r[i + 1] = q[(i + 1) + 1]
      BY <1>2, <1>3
    <3> QED BY <1>1, <3>1 DEF Gapped, n
  <2>2. ASSUME NEW p \in pending
        PROVE  \E i \in 1 .. n - 2 : p = <<r[i], r[i + 1]>> /\ nxt[r[i]] = NoFiber
    <3>1. PICK i \in 1 .. n - 1 : p = <<q[i], q[i + 1]>> /\ nxt[q[i]] = NoFiber
      BY <1>1 DEF Gapped, n
    <3>2. i # 1
      BY <1>1, <3>1
    <3>3. i - 1 \in 1 .. n - 2 /\ r[i - 1] = q[i] /\ r[(i - 1) + 1] = q[i + 1]
      BY <1>2, <1>3, <3>2
    <3> QED BY <3>1, <3>3
  <2>3. Len(r) - 1 = n - 2
    BY <1>2, <1>3
  <2> QED BY <2>1, <2>2, <2>3 DEF Gapped
<1>8. ListIs(r, hd, nxt[tl], nxt, pending)
  BY <1>1, <1>3, <1>4, <1>5, <1>6, <1>7 DEF ListIs
<1>9. nxt[tl] \in Nodes
  BY <1>1
<1> QED BY <1>8, <1>9 DEF r

\* order is the list without dummy_, which has place d in it, or none when d is
\* beyond its end.
MatchesAt(q, o, d) ==
    /\ q \in Seq(Nodes) /\ o \in Seq(Fibers) /\ d \in 1 .. Len(q) + 1
    /\ d = Len(q) + 1 => Len(o) = Len(q)
    /\ d <= Len(q) => Len(q) = Len(o) + 1 /\ q[d] = Dummy
    /\ \A i \in 1 .. Len(o) : o[i] = IF i < d THEN q[i] ELSE q[i + 1]

Matches(q, o) == \E d : MatchesAt(q, o, d)

LEMMA MatchesFromPlace ==
    ASSUME NEW q, NEW o, NEW d, MatchesAt(q, o, d)
    PROVE  Matches(q, o)
BY DEF Matches

\* Without dummy_ in the list, the place is beyond its end.
LEMMA PlaceOfDummy ==
    ASSUME NEW q, NEW o, NEW d, MatchesAt(q, o, d)
    PROVE  /\ Dummy \notin Elements(q) => d = Len(q) + 1
           /\ \A i \in 1 .. Len(q) : q[i] # Dummy /\ i < d => i <= Len(o) /\ o[i] = q[i]
           /\ \A i \in 1 .. Len(q) : q[i] # Dummy /\ i > d => i - 1 \in 1 .. Len(o) /\ o[i - 1] = q[i]
           /\ \A i \in 1 .. Len(o) : i < d => i \in 1 .. Len(q) /\ q[i] # Dummy
<1>1. /\ q \in Seq(Nodes) /\ o \in Seq(Fibers) /\ d \in 1 .. Len(q) + 1
      /\ d = Len(q) + 1 => Len(o) = Len(q)
      /\ d <= Len(q) => Len(q) = Len(o) + 1 /\ q[d] = Dummy
      /\ \A i \in 1 .. Len(o) : o[i] = IF i < d THEN q[i] ELSE q[i + 1]
  BY DEF MatchesAt
<1>2. Len(q) \in Nat /\ Len(o) \in Nat /\ \A i \in 1 .. Len(o) : o[i] \in Fibers
  BY <1>1
<1>3. d # Len(q) + 1 => d \in 1 .. Len(q)
  BY <1>1, <1>2
<1>4. Dummy \notin Elements(q) => d = Len(q) + 1
  BY <1>1, <1>3 DEF Elements
<1>5. ASSUME NEW i \in 1 .. Len(q), i < d PROVE i <= Len(o) /\ o[i] = q[i]
  BY <1>1, <1>2, <1>5
<1>6. ASSUME NEW i \in 1 .. Len(q), i > d PROVE i - 1 \in 1 .. Len(o) /\ o[i - 1] = q[i]
  <2>1. i - 1 \in 1 .. Len(o) /\ ~ (i - 1 < d) /\ (i - 1) + 1 = i
    BY <1>1, <1>2, <1>6
  <2> QED BY <1>1, <2>1
<1>7. ASSUME NEW i \in 1 .. Len(o), i < d PROVE i \in 1 .. Len(q) /\ q[i] # Dummy
  <2>1. i \in 1 .. Len(q) /\ o[i] = q[i] /\ o[i] \in Fibers
    BY <1>1, <1>2, <1>7
  <2> QED BY <2>1, NodesAreNodes
<1> QED BY <1>4, <1>5, <1>6, <1>7

LEMMA MatchesElements ==
    ASSUME NEW q, NEW o, Matches(q, o), NEW c \in Fibers, c \in Elements(q)
    PROVE  c \in Elements(o)
<1>1. PICK d : MatchesAt(q, o, d)
  BY DEF Matches
<1>2. q \in Seq(Nodes) /\ o \in Seq(Fibers) /\ d \in 1 .. Len(q) + 1
      /\ (d <= Len(q) => q[d] = Dummy)
  BY <1>1 DEF MatchesAt
<1>3. PICK i \in 1 .. Len(q) : c = q[i]
  BY <1>2 DEF Elements
<1>4. q[i] # Dummy
  BY <1>3, NodesAreNodes
<1>5. i < d \/ i > d
  BY <1>2, <1>4
<1>6. \E j \in 1 .. Len(o) : c = o[j]
  <2>1. CASE i < d
    <3>1. i <= Len(o) /\ o[i] = q[i]
      BY <1>1, <1>4, <2>1, PlaceOfDummy
    <3>2. i \in 1 .. Len(o)
      BY <1>2, <3>1
    <3> QED BY <1>3, <3>1, <3>2
  <2>2. CASE i > d
    BY <1>1, <1>3, <1>4, <2>2, PlaceOfDummy
  <2> QED BY <1>5, <2>1, <2>2
<1> QED BY <1>2, <1>6 DEF Elements

LEMMA MatchesAppended ==
    ASSUME NEW q, NEW o, NEW e \in Fibers, Matches(q, o)
    PROVE  Matches(Append(q, e), Append(o, e))
<1>1. PICK d : MatchesAt(q, o, d)
  BY DEF Matches
<1>2. /\ q \in Seq(Nodes) /\ o \in Seq(Fibers) /\ d \in 1 .. Len(q) + 1
      /\ d = Len(q) + 1 => Len(o) = Len(q)
      /\ d <= Len(q) => Len(q) = Len(o) + 1 /\ q[d] = Dummy
      /\ \A i \in 1 .. Len(o) : o[i] = IF i < d THEN q[i] ELSE q[i + 1]
  BY <1>1 DEF MatchesAt
<1> DEFINE r == Append(q, e)
           p == Append(o, e)
           n == Len(q)
           m == Len(o)
<1>3. /\ r \in Seq(Nodes) /\ Len(r) = n + 1 /\ r[n + 1] = e /\ \A i \in 1 .. n : r[i] = q[i]
      /\ p \in Seq(Fibers) /\ Len(p) = m + 1 /\ p[m + 1] = e /\ \A i \in 1 .. m : p[i] = o[i]
      /\ n \in Nat /\ m \in Nat
  BY <1>2 DEF Nodes
<1> HIDE DEF r, p
<1>4. CASE d = n + 1
  <2>1. m = n
    BY <1>2, <1>4
  <2>2. ASSUME NEW i \in 1 .. n + 1 PROVE p[i] = r[i]
    BY <1>2, <1>3, <1>4, <2>1
  <2>3. n + 2 \in 1 .. Len(r) + 1 /\ n + 2 = Len(r) + 1 /\ Len(p) = Len(r) /\ Len(p) = n + 1
        /\ ~ (n + 2 <= Len(r)) /\ \A i \in 1 .. n + 1 : i < n + 2
    BY <1>3, <2>1
  <2>4. MatchesAt(r, p, n + 2)
    BY <1>3, <2>2, <2>3 DEF MatchesAt
  <2> QED BY <2>4, MatchesFromPlace DEF r, p
<1>5. CASE d # n + 1
  <2>1. d \in 1 .. n /\ n = m + 1 /\ q[d] = Dummy
    BY <1>2, <1>3, <1>5
  <2>2. ASSUME NEW i \in 1 .. m + 1 PROVE p[i] = IF i < d THEN r[i] ELSE r[i + 1]
    <3>1. CASE i = m + 1
      BY <1>3, <2>1, <3>1
    <3>2. CASE i # m + 1
      <4>1. i \in 1 .. m /\ i \in 1 .. n /\ i + 1 \in 1 .. n
        BY <1>3, <2>1, <3>2
      <4> QED BY <1>2, <1>3, <4>1
    <3> QED BY <3>1, <3>2
  <2>3. /\ d \in 1 .. Len(r) + 1 /\ d # Len(r) + 1 /\ Len(r) = Len(p) + 1 /\ Len(p) = m + 1
        /\ r[d] = Dummy
    BY <1>3, <2>1
  <2>4. MatchesAt(r, p, d)
    BY <1>3, <2>2, <2>3 DEF MatchesAt
  <2> QED BY <2>4, MatchesFromPlace DEF r, p
<1> QED BY <1>4, <1>5

LEMMA MatchesDummyAppended ==
    ASSUME NEW q, NEW o, Matches(q, o), Dummy \notin Elements(q)
    PROVE  Matches(Append(q, Dummy), o)
<1>1. PICK d : MatchesAt(q, o, d)
  BY DEF Matches
<1>2. d = Len(q) + 1
  BY <1>1, PlaceOfDummy
<1>3. /\ q \in Seq(Nodes) /\ o \in Seq(Fibers) /\ Len(o) = Len(q)
      /\ \A i \in 1 .. Len(o) : o[i] = IF i < d THEN q[i] ELSE q[i + 1]
  BY <1>1, <1>2 DEF MatchesAt
<1> DEFINE r == Append(q, Dummy)
           n == Len(q)
<1>4. /\ r \in Seq(Nodes) /\ Len(r) = n + 1 /\ r[n + 1] = Dummy /\ \A i \in 1 .. n : r[i] = q[i]
      /\ n \in Nat
  BY <1>3 DEF Nodes
<1> HIDE DEF r
<1>5. \A i \in 1 .. Len(o) : i < d /\ o[i] = r[i]
  BY <1>2, <1>3, <1>4
<1>6. d \in 1 .. Len(r) + 1 /\ d # Len(r) + 1 /\ Len(r) = Len(o) + 1 /\ r[d] = Dummy
  BY <1>2, <1>3, <1>4
<1>7. MatchesAt(r, o, d)
  BY <1>3, <1>4, <1>5, <1>6 DEF MatchesAt
<1> QED BY <1>7, MatchesFromPlace DEF r

LEMMA MatchesTaken ==
    ASSUME NEW q, NEW o, Matches(q, o), q # <<>>, q[1] # Dummy
    PROVE  o # <<>> /\ Head(o) = q[1] /\ Matches(Tail(q), Tail(o))
<1>1. PICK d : MatchesAt(q, o, d)
  BY DEF Matches
<1>2. /\ q \in Seq(Nodes) /\ o \in Seq(Fibers) /\ d \in 1 .. Len(q) + 1
      /\ d = Len(q) + 1 => Len(o) = Len(q)
      /\ d <= Len(q) => Len(q) = Len(o) + 1 /\ q[d] = Dummy
      /\ \A i \in 1 .. Len(o) : o[i] = IF i < d THEN q[i] ELSE q[i + 1]
  BY <1>1 DEF MatchesAt
<1> DEFINE r == Tail(q)
           p == Tail(o)
           n == Len(q)
           m == Len(o)
<1>3. n \in Nat \ {0} /\ m \in Nat
  BY <1>2
<1>4. d # 1 /\ d > 1
  BY <1>2, <1>3
<1>5. 1 \in 1 .. m /\ o # <<>> /\ Head(o) = q[1]
  BY <1>2, <1>3, <1>4
<1>6. /\ r \in Seq(Nodes) /\ Len(r) = n - 1 /\ \A i \in 1 .. n - 1 : r[i] = q[i + 1]
      /\ p \in Seq(Fibers) /\ Len(p) = m - 1 /\ \A i \in 1 .. m - 1 : p[i] = o[i + 1]
  BY <1>2, <1>5
<1> HIDE DEF r, p
<1>7. ASSUME NEW i \in 1 .. m - 1 PROVE p[i] = IF i < d - 1 THEN r[i] ELSE r[i + 1]
  <2>1. i + 1 \in 1 .. m /\ i \in 1 .. n - 1
    BY <1>2, <1>3, <1>4
  <2>2. p[i] = IF i + 1 < d THEN q[i + 1] ELSE q[(i + 1) + 1]
    BY <1>2, <1>6, <2>1
  <2>3. CASE i + 1 < d
    <3>1. i < d - 1
      BY <1>2, <2>3
    <3> QED BY <1>6, <2>1, <2>2, <2>3, <3>1
  <2>4. CASE ~ (i + 1 < d)
    <3>1. ~ (i < d - 1) /\ i + 1 \in 1 .. n - 1
      BY <1>2, <1>3, <2>1, <2>4
    <3> QED BY <1>6, <2>2, <2>4, <3>1
  <2> QED BY <2>3, <2>4
<1>8. /\ d - 1 \in 1 .. Len(r) + 1
      /\ d - 1 = Len(r) + 1 => Len(p) = Len(r)
      /\ d - 1 <= Len(r) => Len(r) = Len(p) + 1 /\ r[d - 1] = Dummy
  BY <1>2, <1>3, <1>4, <1>6
<1>9. MatchesAt(r, p, d - 1)
  BY <1>6, <1>7, <1>8 DEF MatchesAt
<1> QED BY <1>5, <1>9, MatchesFromPlace DEF r, p

LEMMA MatchesSkipped ==
    ASSUME NEW q, NEW o, Matches(q, o), q # <<>>, q[1] = Dummy
    PROVE  Matches(Tail(q), o)
<1>1. PICK d : MatchesAt(q, o, d)
  BY DEF Matches
<1>2. /\ q \in Seq(Nodes) /\ o \in Seq(Fibers) /\ d \in 1 .. Len(q) + 1
      /\ d = Len(q) + 1 => Len(o) = Len(q)
      /\ d <= Len(q) => Len(q) = Len(o) + 1 /\ q[d] = Dummy
      /\ \A i \in 1 .. Len(o) : o[i] = IF i < d THEN q[i] ELSE q[i + 1]
  BY <1>1 DEF MatchesAt
<1> DEFINE r == Tail(q)
           n == Len(q)
<1>3. n \in Nat \ {0} /\ Len(o) \in Nat
  BY <1>2
<1>4. d = 1
  <2> SUFFICES ASSUME d # 1 PROVE FALSE
    OBVIOUS
  <2>1. 1 < d /\ 1 \in 1 .. Len(o)
    BY <1>2, <1>3
  <2> QED BY <1>1, <2>1, PlaceOfDummy
<1>5. /\ r \in Seq(Nodes) /\ Len(r) = n - 1 /\ \A i \in 1 .. n - 1 : r[i] = q[i + 1]
  BY <1>2, <1>3
<1> HIDE DEF r
<1>6. Len(o) = n - 1 /\ \A i \in 1 .. Len(o) : o[i] = q[i + 1]
  BY <1>2, <1>3, <1>4
<1>7. /\ n \in 1 .. Len(r) + 1 /\ n = Len(r) + 1 /\ Len(o) = Len(r) /\ ~ (n <= Len(r))
      /\ \A i \in 1 .. Len(o) : i < n /\ o[i] = r[i]
  BY <1>3, <1>5, <1>6
<1>8. MatchesAt(r, o, n)
  BY <1>2, <1>5, <1>7 DEF MatchesAt
<1> QED BY <1>8, MatchesFromPlace DEF r

\* The node that n leads to, past dummy_.
Past(nxt, n) == IF n = Dummy THEN nxt[Dummy] ELSE n

\* With no link pending, the links lead through all of the list.
LEMMA ListReachesAll ==
    ASSUME NEW q, NEW hd, NEW tl, NEW nxt, NEW o, ListIs(q, hd, tl, nxt, {}), Matches(q, o)
    PROVE  IF o = <<>> THEN Past(nxt, tl) = NoFiber
           ELSE /\ Past(nxt, tl) = Head(o)
                /\ \A i \in 1 .. Len(o) - 1 : Past(nxt, nxt[o[i]]) = o[i + 1]
                /\ Past(nxt, nxt[o[Len(o)]]) = NoFiber
<1>1. /\ q \in Seq(Nodes) /\ q # <<>> /\ q[1] = tl /\ q[Len(q)] = hd /\ nxt[hd] = NoFiber
      /\ Gapped(q, nxt, {}) /\ Once(q)
  BY DEF ListIs
<1>2. PICK d : MatchesAt(q, o, d)
  BY DEF Matches
<1> DEFINE n == Len(q)
           m == Len(o)
<1>3. /\ o \in Seq(Fibers) /\ d \in 1 .. n + 1 /\ n \in Nat \ {0} /\ m \in Nat
      /\ d = n + 1 => m = n
      /\ d <= n => n = m + 1 /\ q[d] = Dummy
      /\ \A i \in 1 .. m : o[i] = IF i < d THEN q[i] ELSE q[i + 1]
  BY <1>1, <1>2 DEF MatchesAt
<1>4. \A i \in 1 .. m : o[i] \in Fibers /\ o[i] # Dummy
  BY <1>3, NodesAreNodes
<1>5. \A i \in 1 .. n - 1 : nxt[q[i]] = q[i + 1]
  BY <1>1 DEF Gapped
<1>6. nxt[q[n]] = NoFiber /\ NoFiber # Dummy
  BY <1>1, NodesAreNodes DEF Nodes
<1>9. o = <<>> <=> m = 0
  BY <1>3
<1>10. o # <<>> => Head(o) = o[1]
  BY <1>3
<1> HIDE DEF n, m
\* The successor of a node of the list, past dummy_.
<1>7. ASSUME NEW i \in 1 .. n, i # d
      PROVE  Past(nxt, nxt[q[i]]) =
                IF i + 1 = d THEN (IF d < n THEN q[d + 1] ELSE NoFiber)
                ELSE IF i < n THEN q[i + 1] ELSE NoFiber
  <2>1. CASE i = n
    <3>1. Past(nxt, nxt[q[i]]) = NoFiber
      BY <1>6, <2>1 DEF Past
    <3>2. ~ (i < n) /\ (i + 1 = d => ~ (d < n))
      BY <1>3, <2>1
    <3> QED BY <3>1, <3>2
  <2>2. CASE i # n /\ i + 1 = d
    <3>1. i \in 1 .. n - 1 /\ d <= n /\ i + 1 = d
      BY <1>3, <2>2
    <3>2. nxt[q[i]] = Dummy
      BY <1>3, <1>5, <3>1
    <3>3. CASE d < n
      <4>1. d \in 1 .. n - 1 /\ q[d] = Dummy
        BY <1>3, <3>1, <3>3
      <4>2. nxt[Dummy] = q[d + 1]
        BY <1>5, <4>1
      <4> QED BY <3>1, <3>2, <3>3, <4>2 DEF Past
    <3>4. CASE ~ (d < n)
      <4>1. d = n /\ q[n] = Dummy
        BY <1>3, <3>1, <3>4
      <4> QED BY <1>6, <3>1, <3>2, <3>4, <4>1 DEF Past
    <3> QED BY <3>3, <3>4
  <2>3. CASE i # n /\ i + 1 # d
    <3>1. i \in 1 .. n - 1 /\ i < n
      BY <1>3, <2>3
    <3>2. nxt[q[i]] = q[i + 1]
      BY <1>5, <3>1
    <3>3. q[i + 1] # Dummy
      <4>1. CASE i + 1 < d
        <5>1. i + 1 \in 1 .. m
          BY <1>3, <3>1, <4>1
        <5> QED BY <1>3, <1>4, <4>1, <5>1
      <4>2. CASE ~ (i + 1 < d)
        <5>1. i \in 1 .. m /\ ~ (i < d)
          BY <1>3, <2>3, <3>1, <4>2
        <5> QED BY <1>3, <1>4, <5>1
      <4> QED BY <4>1, <4>2
    <3> QED BY <2>3, <3>1, <3>2, <3>3 DEF Past
  <2> QED BY <2>1, <2>2, <2>3
<1>8. Past(nxt, tl) = IF m = 0 THEN NoFiber ELSE o[1]
  <2>1. CASE d = 1
    <3>1. tl = Dummy /\ n = m + 1
      BY <1>1, <1>3, <2>1
    <3>2. CASE m = 0
      BY <1>1, <1>6, <3>1, <3>2 DEF Past
    <3>3. CASE m # 0
      <4>1. 1 \in 1 .. n - 1 /\ 1 \in 1 .. m /\ ~ (1 < d)
        BY <1>3, <2>1, <3>1, <3>3
      <4>2. nxt[q[1]] = q[1 + 1] /\ o[1] = q[1 + 1]
        BY <1>3, <1>5, <4>1
      <4> QED BY <1>1, <3>1, <3>3, <4>2 DEF Past
    <3> QED BY <3>2, <3>3
  <2>2. CASE d # 1
    <3>1. 1 < d /\ 1 \in 1 .. m /\ m # 0
      BY <1>3, <2>2
    <3>2. o[1] = q[1]
      BY <1>3, <3>1
    <3> QED BY <1>1, <1>4, <3>1, <3>2 DEF Past
  <2> QED BY <2>1, <2>2
<1>11. ASSUME NEW i \in 1 .. m
       PROVE  Past(nxt, nxt[o[i]]) = IF i < m THEN o[i + 1] ELSE NoFiber
  <2>1. CASE i < d
    <3>1. i \in 1 .. n /\ i # d /\ o[i] = q[i]
      BY <1>3, <2>1
    <3>2. CASE i + 1 = d
      <4>1. d < n <=> i < m
        BY <1>3, <3>1, <3>2
      <4>2. i < m => o[i + 1] = q[d + 1]
        <5>1. i < m => i + 1 \in 1 .. m /\ ~ (i + 1 < d)
          BY <1>3, <3>2
        <5> QED BY <1>3, <3>2, <5>1
      <4> QED BY <1>7, <3>1, <3>2, <4>1, <4>2
    <3>3. CASE i + 1 # d
      <4>1. i + 1 < d
        BY <1>3, <2>1, <3>3
      <4>2. i < n <=> i < m
        BY <1>3, <4>1
      <4>3. i < m => o[i + 1] = q[i + 1]
        <5>1. i < m => i + 1 \in 1 .. m
          BY <1>3
        <5> QED BY <1>3, <4>1, <5>1
      <4> QED BY <1>7, <3>1, <3>3, <4>2, <4>3
    <3> QED BY <3>2, <3>3
  <2>2. CASE ~ (i < d)
    <3>1. /\ i + 1 \in 1 .. n /\ i + 1 # d /\ o[i] = q[i + 1] /\ (i + 1) + 1 # d
          /\ i + 1 < n <=> i < m
      BY <1>3, <2>2
    <3>2. i < m => o[i + 1] = q[(i + 1) + 1]
      <4>1. i < m => i + 1 \in 1 .. m /\ ~ (i + 1 < d)
        BY <1>3, <2>2
      <4> QED BY <1>3, <4>1
    <3>3. Past(nxt, nxt[q[i + 1]]) = IF i + 1 < n THEN q[(i + 1) + 1] ELSE NoFiber
      BY <1>7, <3>1
    <3> QED BY <3>1, <3>2, <3>3
  <2> QED BY <2>1, <2>2
<1>12. CASE m = 0
  BY <1>8, <1>9, <1>12
<1>13. CASE m # 0
  <2>1. m \in 1 .. m /\ \A i \in 1 .. m - 1 : i \in 1 .. m /\ i < m
    BY <1>3, <1>13
  <2>2. ~ (m < m)
    BY <1>3
  <2>3. Past(nxt, nxt[o[m]]) = NoFiber
    BY <1>11, <2>1, <2>2
  <2>4. \A i \in 1 .. m - 1 : Past(nxt, nxt[o[i]]) = o[i + 1]
    BY <1>11, <2>1
  <2> QED BY <1>8, <1>9, <1>10, <1>13, <2>3, <2>4 DEF m
<1> QED BY <1>12, <1>13

\* The pairs that threads which push, and pop() with dummy_, have yet to link.
Pends(prv, psh, stage, nx) ==
    {<<prv[t], psh[t]>> : t \in {u \in Pushers : psh[u] # NoFiber}}
    \cup (IF stage = "link" THEN {<<nx, Dummy>>} ELSE {})

PushersApart(psh) == \A t, u \in Pushers : psh[t] # NoFiber /\ psh[t] = psh[u] => t = u

\* What pop() has in its locals at each of its stages.
PopKnows(q, stage, tl, nx, nxt) ==
    /\ stage = "out" => tl = NoFiber /\ nx = NoFiber
    /\ stage # "out" => tl = q[1]
    /\ stage = "skip" => tl = Dummy
    /\ stage \notin {"out", "skip"} => tl \in Fibers
    /\ stage = "look" /\ nx # NoFiber => nx = nxt[tl]
    /\ stage \in {"skip", "take"} => nx = nxt[tl] /\ nx # NoFiber
    /\ stage = "swap" => Dummy \notin Elements(q) /\ nx = NoFiber
    /\ stage = "link" => nx \in Elements(q)

RemoteIs(q, hd, tl_, nxt, prv, psh, stage, tl, nx, o) ==
    /\ ListIs(q, hd, tl_, nxt, Pends(prv, psh, stage, nx))
    /\ Matches(q, o)
    /\ PopKnows(q, stage, tl, nx, nxt)

RemoteInv ==
    /\ Remote!ContextQueueTypeOK /\ PushersApart(pushed)
    /\ \E q : RemoteIs(q, head_, tail_, remote_nxt_, prev, pushed, popping, tail, next, order)

LEMMA PendingAreInList ==
    ASSUME NEW q, NEW hd, NEW tl, NEW nxt, NEW pending, ListIs(q, hd, tl, nxt, pending),
           NEW a, NEW b, <<a, b>> \in pending
    PROVE  a \in Elements(q) /\ b \in Elements(q)
<1>1. PICK i \in 1 .. Len(q) - 1 : <<a, b>> = <<q[i], q[i + 1]>>
  BY DEF ListIs, Gapped
<1>2. q \in Seq(Nodes)
  BY DEF ListIs
<1>3. a = q[i] /\ b = q[i + 1] /\ i \in 1 .. Len(q) /\ i + 1 \in 1 .. Len(q)
  BY <1>1, <1>2
<1> QED BY <1>2, <1>3 DEF Elements

LEMMA FirstIsInList ==
    ASSUME NEW q, NEW hd, NEW tl, NEW nxt, NEW pending, ListIs(q, hd, tl, nxt, pending)
    PROVE  /\ q \in Seq(Nodes) /\ q # <<>> /\ q[1] = tl /\ q[1] \in Elements(q) /\ tl \in Nodes
           /\ hd \in Elements(q) /\ hd \in Nodes
<1>1. q \in Seq(Nodes) /\ q # <<>> /\ q[1] = tl /\ q[Len(q)] = hd
  BY DEF ListIs
<1>2. 1 \in 1 .. Len(q) /\ Len(q) \in 1 .. Len(q)
  BY <1>1
<1>3. q[1] \in Elements(q) /\ q[Len(q)] \in Elements(q)
  BY <1>1, <1>2 DEF Elements
<1>4. q[1] \in Nodes /\ q[Len(q)] \in Nodes
  BY <1>1, <1>2
<1> QED BY <1>1, <1>3, <1>4

LEMMA PopKnowsStill ==
    ASSUME NEW q, NEW stage, NEW tl, NEW nx, NEW nxt, PopKnows(q, stage, tl, nx, nxt),
           NEW r, NEW nxt2, q[1] \in Elements(q), r[1] = q[1],
           \A x \in Elements(q) : x \in Elements(r) /\ (nxt[x] # NoFiber => nxt2[x] = nxt[x]),
           stage = "swap" => Dummy \notin Elements(r)
    PROVE  PopKnows(r, stage, tl, nx, nxt2)
BY DEF PopKnows

LEMMA RemoteStarts == Remote!Init => RemoteInv
<1> SUFFICES ASSUME Remote!Init PROVE RemoteInv
  OBVIOUS
<1>1. /\ head_ = Dummy /\ tail_ = Dummy /\ remote_nxt_ = [n \in Nodes |-> NoFiber]
      /\ prev = [t \in Pushers |-> NoFiber] /\ pushed = [t \in Pushers |-> NoFiber]
      /\ popping = "out" /\ tail = NoFiber /\ next = NoFiber
      /\ order = <<>> /\ swaps = 0
  BY DEF Remote!Init, Remote!Nodes, Nodes
<1>2. MaxPushes \in Nat
  BY ThreadsAssumption DEF Remote!ContextQueueAssumption
<1>3. Remote!ContextQueueTypeOK
  BY <1>1, <1>2 DEF Remote!ContextQueueTypeOK, Remote!Nodes, Nodes
<1> DEFINE q == <<Dummy>>
<1>4. /\ q \in Seq(Nodes) /\ q # <<>> /\ Len(q) = 1 /\ q[1] = Dummy /\ q[Len(q)] = Dummy
      /\ Dummy \in Nodes
  BY DEF Nodes
<1>5. Once(q)
  BY <1>4 DEF Once
<1>6. \A p : p \notin Pends(prev, pushed, popping, next)
  BY <1>1 DEF Pends
<1>7. ListIs(q, head_, tail_, remote_nxt_, Pends(prev, pushed, popping, next))
  BY <1>1, <1>4, <1>5, <1>6 DEF ListIs, Gapped
<1>8. MatchesAt(q, order, 1)
  BY <1>1, <1>4 DEF MatchesAt
<1>9. Matches(q, order)
  BY <1>8, MatchesFromPlace
<1>10. PopKnows(q, popping, tail, next, remote_nxt_)
  BY <1>1 DEF PopKnows
<1>11. PushersApart(pushed)
  BY <1>1 DEF PushersApart
<1> QED BY <1>3, <1>7, <1>9, <1>10, <1>11 DEF RemoteInv, RemoteIs

LEMMA RemoteSwap ==
    ASSUME RemoteInv, NEW t \in Pushers, NEW c \in Fibers, Remote!Swap(t, c)
    PROVE  RemoteInv'
<1>1. PICK q : RemoteIs(q, head_, tail_, remote_nxt_, prev, pushed, popping, tail, next, order)
  BY DEF RemoteInv
<1> DEFINE P == Pends(prev, pushed, popping, next)
<1>2. ListIs(q, head_, tail_, remote_nxt_, P) /\ Matches(q, order) /\ PopKnows(q, popping, tail, next, remote_nxt_)
  BY <1>1 DEF RemoteIs
<1>3. /\ pushed[t] = NoFiber /\ c \notin Elements(order) /\ swaps < MaxPushes
      /\ remote_nxt_' = [remote_nxt_ EXCEPT ![c] = NoFiber]
      /\ head_' = c /\ prev' = [prev EXCEPT ![t] = head_] /\ pushed' = [pushed EXCEPT ![t] = c]
      /\ order' = Append(order, c) /\ swaps' = swaps + 1
      /\ tail_' = tail_ /\ popping' = popping /\ tail' = tail /\ next' = next
  BY DEF Remote!Swap, Remote!Fresh, Remote!ToSet, Elements
<1>4. /\ head_ \in Nodes /\ tail_ \in Nodes /\ remote_nxt_ \in [Nodes -> Nodes \cup {NoFiber}]
      /\ prev \in [Pushers -> Nodes \cup {NoFiber}] /\ pushed \in [Pushers -> Fibers \cup {NoFiber}]
      /\ popping \in {"out", "skip", "look", "swap", "link", "reload", "take"}
      /\ tail \in Nodes \cup {NoFiber} /\ next \in Nodes \cup {NoFiber}
      /\ order \in Seq(Fibers) /\ swaps \in 0 .. MaxPushes /\ PushersApart(pushed)
  BY DEF RemoteInv, Remote!ContextQueueTypeOK, Remote!Nodes, Nodes
<1>5. MaxPushes \in Nat /\ c \in Nodes /\ c # NoFiber /\ c # Dummy
  BY NodesAreNodes, ThreadsAssumption DEF Remote!ContextQueueAssumption, Nodes
<1>6. c \notin Elements(q)
  BY <1>2, <1>3, MatchesElements
<1>7. Remote!ContextQueueTypeOK'
  <2>1. swaps' \in 0 .. MaxPushes
    BY <1>3, <1>4, <1>5
  <2>2. order' \in Seq(Fibers)
    BY <1>3, <1>4
  <2>3. /\ prev' \in [Pushers -> Nodes \cup {NoFiber}] /\ pushed' \in [Pushers -> Fibers \cup {NoFiber}]
        /\ remote_nxt_' \in [Nodes -> Nodes \cup {NoFiber}]
    BY <1>3, <1>4
  <2> QED BY <1>3, <1>4, <1>5, <2>1, <2>2, <2>3 DEF Remote!ContextQueueTypeOK, Remote!Nodes, Nodes
<1>8. \A u \in Pushers : pushed'[u] = IF u = t THEN c ELSE pushed[u]
  BY <1>3, <1>4
<1>9. \A u \in Pushers : prev'[u] = IF u = t THEN head_ ELSE prev[u]
  BY <1>3, <1>4
<1>10. Pends(prev', pushed', popping', next') = P \cup {<<head_, c>>}
  <2>1. \A p : p \in Pends(prev', pushed', popping', next') <=> p \in P \cup {<<head_, c>>}
    BY <1>3, <1>5, <1>8, <1>9 DEF Pends
  <2> QED BY <2>1
<1>11. SwapsIn(q, head_, tail_, remote_nxt_, P, c, remote_nxt_', P \cup {<<head_, c>>})
  BY <1>2, <1>3, <1>5, <1>6 DEF SwapsIn
<1>12. ListIs(Append(q, c), c, tail_, remote_nxt_', P \cup {<<head_, c>>})
  BY <1>11, SwappedIn
<1>13. Matches(Append(q, c), order')
  BY <1>2, <1>3, MatchesAppended
<1>14. q \in Seq(Nodes) /\ q # <<>> /\ q[1] \in Elements(q) /\ Once(q)
  BY <1>2, FirstIsInList DEF ListIs
<1>15. Append(q, c)[1] = q[1] /\ Elements(Append(q, c)) = Elements(q) \cup {c}
  <2>1. Elements(Append(q, c)) = Elements(q) \cup {c}
    BY <1>5, <1>6, <1>14, AppendOnce
  <2>2. Append(q, c)[1] = q[1]
    BY <1>14
  <2> QED BY <2>1, <2>2
<1>16. \A x \in Elements(q) : remote_nxt_'[x] = remote_nxt_[x]
  <2>1. \A x \in Elements(q) : x \in Nodes
    BY <1>14 DEF Elements
  <2> QED BY <1>3, <1>4, <1>6, <2>1
<1>17. PopKnows(Append(q, c), popping, tail, next, remote_nxt_')
  <2>1. popping = "swap" => Dummy \notin Elements(Append(q, c))
    BY <1>2, <1>5, <1>15 DEF PopKnows
  <2> QED BY <1>2, <1>14, <1>15, <1>16, <2>1, PopKnowsStill
<1>18. PushersApart(pushed')
  <2>1. ASSUME NEW u \in Pushers PROVE pushed[u] # c
    <3> SUFFICES ASSUME pushed[u] = c PROVE FALSE
      OBVIOUS
    <3>1. <<prev[u], c>> \in P
      BY <1>5 DEF Pends
    <3> HIDE DEF P
    <3> QED BY <1>2, <1>6, <3>1, PendingAreInList
  <2> QED BY <1>4, <1>8, <2>1 DEF PushersApart
<1> HIDE DEF P
<1>19. RemoteIs(Append(q, c), head_', tail_', remote_nxt_', prev', pushed', popping', tail', next', order')
  BY <1>3, <1>10, <1>12, <1>13, <1>17 DEF RemoteIs
<1> QED BY <1>7, <1>18, <1>19 DEF RemoteInv

LEMMA RemoteLink ==
    ASSUME RemoteInv, NEW t \in Pushers, Remote!Link(t)
    PROVE  RemoteInv'
<1>1. PICK q : RemoteIs(q, head_, tail_, remote_nxt_, prev, pushed, popping, tail, next, order)
  BY DEF RemoteInv
<1> DEFINE P == Pends(prev, pushed, popping, next)
           m == prev[t]
           e == pushed[t]
<1>2. ListIs(q, head_, tail_, remote_nxt_, P) /\ Matches(q, order) /\ PopKnows(q, popping, tail, next, remote_nxt_)
  BY <1>1 DEF RemoteIs
<1>3. /\ e # NoFiber
      /\ remote_nxt_' = [remote_nxt_ EXCEPT ![m] = e]
      /\ prev' = [prev EXCEPT ![t] = NoFiber] /\ pushed' = [pushed EXCEPT ![t] = NoFiber]
      /\ order' = order /\ swaps' = swaps /\ head_' = head_
      /\ tail_' = tail_ /\ popping' = popping /\ tail' = tail /\ next' = next
  BY DEF Remote!Link
<1>4. /\ head_ \in Nodes /\ tail_ \in Nodes /\ remote_nxt_ \in [Nodes -> Nodes \cup {NoFiber}]
      /\ prev \in [Pushers -> Nodes \cup {NoFiber}] /\ pushed \in [Pushers -> Fibers \cup {NoFiber}]
      /\ popping \in {"out", "skip", "look", "swap", "link", "reload", "take"}
      /\ tail \in Nodes \cup {NoFiber} /\ next \in Nodes \cup {NoFiber}
      /\ order \in Seq(Fibers) /\ swaps \in 0 .. MaxPushes /\ PushersApart(pushed)
  BY DEF RemoteInv, Remote!ContextQueueTypeOK, Remote!Nodes, Nodes
<1>5. e \in Fibers /\ e # Dummy
  BY <1>3, <1>4, NodesAreNodes
<1>6. <<m, e>> \in P
  BY <1>3 DEF Pends
<1>7. \A u \in Pushers : pushed'[u] = IF u = t THEN NoFiber ELSE pushed[u]
  BY <1>3, <1>4
<1>8. \A u \in Pushers : prev'[u] = IF u = t THEN NoFiber ELSE prev[u]
  BY <1>3, <1>4
<1>9. \A u \in Pushers : u # t => pushed[u] # e
  BY <1>3, <1>4 DEF PushersApart
<1>10. Pends(prev', pushed', popping', next') = P \ {<<m, e>>}
  <2>1. \A p : p \in Pends(prev', pushed', popping', next') <=> p \in P \ {<<m, e>>}
    BY <1>3, <1>5, <1>7, <1>8, <1>9 DEF Pends
  <2> QED BY <2>1
<1>11. LinksUp(q, head_, tail_, remote_nxt_, P, m, e, remote_nxt_', P \ {<<m, e>>})
  BY <1>2, <1>3, <1>6 DEF LinksUp
<1> HIDE DEF P, m, e
<1>12. ListIs(q, head_, tail_, remote_nxt_', P \ {<<m, e>>}) /\ remote_nxt_[m] = NoFiber
  BY <1>11, LinkedUp
<1>13. q[1] \in Elements(q) /\ q \in Seq(Nodes)
  BY <1>2, FirstIsInList
<1>14. \A x \in Elements(q) : remote_nxt_[x] # NoFiber => remote_nxt_'[x] = remote_nxt_[x]
  <2>1. \A x \in Elements(q) : x \in Nodes
    BY <1>13 DEF Elements
  <2> QED BY <1>3, <1>4, <1>12, <2>1
<1>15. PopKnows(q, popping, tail, next, remote_nxt_')
  <2>1. popping = "swap" => Dummy \notin Elements(q)
    BY <1>2 DEF PopKnows
  <2> QED BY <1>2, <1>13, <1>14, <2>1, PopKnowsStill
<1>16. PushersApart(pushed')
  BY <1>4, <1>7 DEF PushersApart
<1>17. Remote!ContextQueueTypeOK'
  <2>1. e \in Nodes
    BY <1>5 DEF Nodes
  <2>2. /\ prev' \in [Pushers -> Nodes \cup {NoFiber}] /\ pushed' \in [Pushers -> Fibers \cup {NoFiber}]
        /\ remote_nxt_' \in [Nodes -> Nodes \cup {NoFiber}]
    BY <1>3, <1>4, <2>1
  <2> QED BY <1>3, <1>4, <2>2 DEF Remote!ContextQueueTypeOK, Remote!Nodes, Nodes
<1>18. RemoteIs(q, head_', tail_', remote_nxt_', prev', pushed', popping', tail', next', order')
  BY <1>2, <1>3, <1>10, <1>12, <1>15 DEF RemoteIs
<1> QED BY <1>16, <1>17, <1>18 DEF RemoteInv

LEMMA RemoteTypes ==
    ASSUME RemoteInv
    PROVE  /\ head_ \in Nodes /\ tail_ \in Nodes /\ remote_nxt_ \in [Nodes -> Nodes \cup {NoFiber}]
           /\ prev \in [Pushers -> Nodes \cup {NoFiber}] /\ pushed \in [Pushers -> Fibers \cup {NoFiber}]
           /\ popping \in {"out", "skip", "look", "swap", "link", "reload", "take"}
           /\ tail \in Nodes \cup {NoFiber} /\ next \in Nodes \cup {NoFiber}
           /\ order \in Seq(Fibers) /\ swaps \in 0 .. MaxPushes /\ PushersApart(pushed)
BY DEF RemoteInv, Remote!ContextQueueTypeOK, Remote!Nodes, Nodes

\* Unless pop() has swapped in dummy_, it has nothing to link.
LEMMA PendsOfPushes ==
    ASSUME NEW prv, NEW psh, NEW stage, NEW nx, NEW stage2, NEW nx2, stage # "link", stage2 # "link"
    PROVE  Pends(prv, psh, stage, nx) = Pends(prv, psh, stage2, nx2)
BY DEF Pends

\* A step of pop() that writes only its locals.
PopLooks(q) ==
    /\ popping # "link" /\ popping' # "link"
    /\ head_' = head_ /\ tail_' = tail_ /\ remote_nxt_' = remote_nxt_ /\ prev' = prev
    /\ pushed' = pushed /\ order' = order /\ swaps' = swaps
    /\ popping' \in {"out", "skip", "look", "swap", "reload", "take"}
    /\ tail' \in Nodes \cup {NoFiber} /\ next' \in Nodes \cup {NoFiber}
    /\ PopKnows(q, popping', tail', next', remote_nxt_)

LEMMA RemoteLooks ==
    ASSUME RemoteInv, NEW q, PopLooks(q),
           RemoteIs(q, head_, tail_, remote_nxt_, prev, pushed, popping, tail, next, order)
    PROVE  RemoteInv'
<1>1. Pends(prev, pushed, popping', next') = Pends(prev, pushed, popping, next)
  BY PendsOfPushes DEF PopLooks
<1>2. RemoteIs(q, head_', tail_', remote_nxt_', prev', pushed', popping', tail', next', order')
  BY <1>1 DEF PopLooks, RemoteIs
<1>3. Remote!ContextQueueTypeOK' /\ PushersApart(pushed')
  BY RemoteTypes DEF PopLooks, Remote!ContextQueueTypeOK, Remote!Nodes, Nodes
<1> QED BY <1>2, <1>3 DEF RemoteInv

LEMMA RemoteLoadNext ==
    ASSUME RemoteInv, Remote!LoadNext
    PROVE  RemoteInv'
<1>1. PICK q : RemoteIs(q, head_, tail_, remote_nxt_, prev, pushed, popping, tail, next, order)
  BY DEF RemoteInv
<1>2. q[1] = tail_ /\ tail_ \in Nodes
  BY <1>1, FirstIsInList DEF RemoteIs
<1>3. popping = "out" /\ remote_nxt_[tail_] \in Nodes \cup {NoFiber}
  BY <1>2, RemoteTypes DEF Remote!LoadNext
<1>4. /\ head_' = head_ /\ tail_' = tail_ /\ remote_nxt_' = remote_nxt_ /\ prev' = prev
      /\ pushed' = pushed /\ order' = order /\ swaps' = swaps
  BY DEF Remote!LoadNext
<1>5. CASE tail_ # Dummy /\ popping' = "look" /\ tail' = tail_ /\ next' = remote_nxt_[tail_]
  <2>1. tail_ \in Fibers
    BY <1>2, <1>5 DEF Nodes
  <2>2. PopKnows(q, popping', tail', next', remote_nxt_)
    BY <1>2, <1>5, <2>1 DEF PopKnows
  <2>3. PopLooks(q)
    BY <1>2, <1>3, <1>4, <1>5, <2>2 DEF PopLooks
  <2> QED BY <1>1, <2>3, RemoteLooks
<1>6. CASE tail_ = Dummy /\ remote_nxt_[Dummy] # NoFiber
           /\ popping' = "skip" /\ tail' = tail_ /\ next' = remote_nxt_[Dummy]
  <2>2. PopKnows(q, popping', tail', next', remote_nxt_)
    BY <1>2, <1>6 DEF PopKnows
  <2>3. PopLooks(q)
    BY <1>2, <1>3, <1>4, <1>6, <2>2 DEF PopLooks
  <2> QED BY <1>1, <2>3, RemoteLooks
<1>7. CASE popping' = "out" /\ tail' = NoFiber /\ next' = NoFiber
  <2>2. PopKnows(q, popping', tail', next', remote_nxt_)
    BY <1>7 DEF PopKnows
  <2>3. PopLooks(q)
    BY <1>3, <1>4, <1>7, <2>2 DEF PopLooks
  <2> QED BY <1>1, <2>3, RemoteLooks
<1> QED BY <1>5, <1>6, <1>7 DEF Remote!LoadNext, Remote!Locals, Remote!ReturnsNothing

LEMMA RemoteSkipDummy ==
    ASSUME RemoteInv, Remote!SkipDummy
    PROVE  RemoteInv'
<1>1. PICK q : RemoteIs(q, head_, tail_, remote_nxt_, prev, pushed, popping, tail, next, order)
  BY DEF RemoteInv
<1>2. ListIs(q, head_, tail_, remote_nxt_, Pends(prev, pushed, popping, next)) /\ Matches(q, order)
      /\ PopKnows(q, popping, tail, next, remote_nxt_)
  BY <1>1 DEF RemoteIs
<1>3. /\ popping = "skip" /\ popping' = "look" /\ tail_' = next /\ tail' = next
      /\ next' = remote_nxt_[next]
      /\ head_' = head_ /\ remote_nxt_' = remote_nxt_ /\ prev' = prev
      /\ pushed' = pushed /\ order' = order /\ swaps' = swaps
  BY DEF Remote!SkipDummy, Remote!Locals
<1>4. q \in Seq(Nodes) /\ q # <<>> /\ q[1] = tail_ /\ Once(q)
  BY <1>2, FirstIsInList DEF ListIs
<1>5. q[1] = Dummy /\ tail_ = Dummy /\ next = remote_nxt_[tail_] /\ next # NoFiber
  BY <1>2, <1>3, <1>4 DEF PopKnows
<1>6. ListIs(Tail(q), head_, next, remote_nxt_, Pends(prev, pushed, popping, next)) /\ next \in Nodes
  <2>1. remote_nxt_[tail_] # NoFiber
    BY <1>5
  <2> QED BY <1>2, <1>5, <2>1, TakenOff
<1>7. Matches(Tail(q), order)
  BY <1>2, <1>4, <1>5, MatchesSkipped
<1>8. Tail(q)[1] = next /\ Elements(Tail(q)) = Elements(q) \ {Dummy}
  <2>1. Tail(q)[1] = next
    BY <1>6, FirstIsInList
  <2>2. Elements(Tail(q)) = Elements(q) \ {Head(q)} /\ Head(q) = q[1]
    BY <1>4, TailOnce
  <2> QED BY <1>5, <2>1, <2>2
<1>9. next \in Fibers
  <2>1. next \in Elements(Tail(q))
    BY <1>6, FirstIsInList
  <2> QED BY <1>6, <1>8, <2>1 DEF Nodes
<1>10. PopKnows(Tail(q), popping', tail', next', remote_nxt_)
  BY <1>3, <1>8, <1>9 DEF PopKnows
<1>11. Pends(prev, pushed, popping', next') = Pends(prev, pushed, popping, next)
  BY <1>3, PendsOfPushes
<1>12. RemoteIs(Tail(q), head_', tail_', remote_nxt_', prev', pushed', popping', tail', next', order')
  BY <1>3, <1>6, <1>7, <1>10, <1>11 DEF RemoteIs
<1>13. Remote!ContextQueueTypeOK' /\ PushersApart(pushed')
  <2>1. remote_nxt_[next] \in Nodes \cup {NoFiber}
    BY <1>6, RemoteTypes
  <2> QED BY <1>3, <1>6, <2>1, RemoteTypes DEF Remote!ContextQueueTypeOK, Remote!Nodes, Nodes
<1> QED BY <1>12, <1>13 DEF RemoteInv

\* A list of which the first is the last has no other node.
LEMMA FirstIsLast ==
    ASSUME NEW q, NEW hd, NEW nxt, NEW pending, ListIs(q, hd, hd, nxt, pending)
    PROVE  \A x \in Elements(q) : x = hd
<1>1. q \in Seq(Nodes) /\ q # <<>> /\ Once(q) /\ q[1] = hd /\ q[Len(q)] = hd
  BY DEF ListIs
<1>2. 1 \in DOMAIN q /\ Len(q) \in DOMAIN q
  BY <1>1
<1>3. Len(q) = 1
  BY <1>1, <1>2 DEF Once
<1>4. DOMAIN q = {1}
  <2>1. DOMAIN q = 1 .. 1
    BY <1>1, <1>3
  <2> QED BY <2>1
<1> QED BY <1>1, <1>4 DEF Elements

LEMMA RemoteLoadHead ==
    ASSUME RemoteInv, Remote!LoadHead
    PROVE  RemoteInv'
<1>1. PICK q : RemoteIs(q, head_, tail_, remote_nxt_, prev, pushed, popping, tail, next, order)
  BY DEF RemoteInv
<1>2. ListIs(q, head_, tail_, remote_nxt_, Pends(prev, pushed, popping, next))
      /\ PopKnows(q, popping, tail, next, remote_nxt_)
  BY <1>1 DEF RemoteIs
<1>3. /\ popping = "look" /\ next = NoFiber
      /\ head_' = head_ /\ tail_' = tail_ /\ remote_nxt_' = remote_nxt_ /\ prev' = prev
      /\ pushed' = pushed /\ order' = order /\ swaps' = swaps
  BY DEF Remote!LoadHead
<1>4. q[1] = tail_ /\ tail = tail_ /\ tail \in Fibers
  <2>1. q[1] = tail_
    BY <1>2, FirstIsInList
  <2> QED BY <1>2, <1>3, <2>1 DEF PopKnows
<1>5. CASE tail # head_
  <2>1. popping' = "out" /\ tail' = NoFiber /\ next' = NoFiber
    BY <1>5 DEF Remote!LoadHead, Remote!Locals, Remote!ReturnsNothing
  <2>2. PopKnows(q, popping', tail', next', remote_nxt_)
    BY <2>1 DEF PopKnows
  <2>3. PopLooks(q)
    BY <1>3, <2>1, <2>2 DEF PopLooks
  <2> QED BY <1>1, <2>3, RemoteLooks
<1>6. CASE tail = head_
  <2>1. popping' = "swap" /\ tail' = tail /\ next' = next
    BY <1>6 DEF Remote!LoadHead, Remote!Locals
  <2>2. Dummy \notin Elements(q)
    <3>1. ListIs(q, head_, head_, remote_nxt_, Pends(prev, pushed, popping, next))
      BY <1>2, <1>4, <1>6
    <3>2. \A x \in Elements(q) : x = head_
      BY <3>1, FirstIsLast
    <3> QED BY <1>4, <1>6, <3>2, NodesAreNodes
  <2>3. PopKnows(q, popping', tail', next', remote_nxt_)
    BY <1>3, <1>4, <2>1, <2>2 DEF PopKnows
  <2>4. PopLooks(q)
    BY <1>3, <2>1, <2>3, RemoteTypes DEF PopLooks
  <2> QED BY <1>1, <2>4, RemoteLooks
<1> QED BY <1>5, <1>6

LEMMA RemoteReload ==
    ASSUME RemoteInv, Remote!Reload
    PROVE  RemoteInv'
<1>1. PICK q : RemoteIs(q, head_, tail_, remote_nxt_, prev, pushed, popping, tail, next, order)
  BY DEF RemoteInv
<1>2. PopKnows(q, popping, tail, next, remote_nxt_)
  BY <1>1 DEF RemoteIs
<1>3. /\ popping = "reload"
      /\ head_' = head_ /\ tail_' = tail_ /\ remote_nxt_' = remote_nxt_ /\ prev' = prev
      /\ pushed' = pushed /\ order' = order /\ swaps' = swaps
  BY DEF Remote!Reload
<1>4. tail = q[1] /\ tail \in Fibers /\ tail \in Nodes
  BY <1>2, <1>3 DEF PopKnows, Nodes
<1>5. CASE remote_nxt_[tail] = NoFiber
  <2>1. popping' = "out" /\ tail' = NoFiber /\ next' = NoFiber
    BY <1>5 DEF Remote!Reload, Remote!Locals, Remote!ReturnsNothing
  <2>2. PopKnows(q, popping', tail', next', remote_nxt_)
    BY <2>1 DEF PopKnows
  <2>3. PopLooks(q)
    BY <1>3, <2>1, <2>2 DEF PopLooks
  <2> QED BY <1>1, <2>3, RemoteLooks
<1>6. CASE remote_nxt_[tail] # NoFiber
  <2>1. popping' = "take" /\ tail' = tail /\ next' = remote_nxt_[tail]
    BY <1>6 DEF Remote!Reload, Remote!Locals
  <2>2. next' \in Nodes \cup {NoFiber}
    BY <1>4, <2>1, RemoteTypes
  <2>3. PopKnows(q, popping', tail', next', remote_nxt_)
    BY <1>4, <1>6, <2>1 DEF PopKnows
  <2>4. PopLooks(q)
    BY <1>3, <1>4, <2>1, <2>2, <2>3 DEF PopLooks
  <2> QED BY <1>1, <2>4, RemoteLooks
<1> QED BY <1>5, <1>6

LEMMA RemoteSwapDummy ==
    ASSUME RemoteInv, Remote!SwapDummy
    PROVE  RemoteInv'
<1>1. PICK q : RemoteIs(q, head_, tail_, remote_nxt_, prev, pushed, popping, tail, next, order)
  BY DEF RemoteInv
<1> DEFINE P == Pends(prev, pushed, popping, next)
<1>2. ListIs(q, head_, tail_, remote_nxt_, P) /\ Matches(q, order)
      /\ PopKnows(q, popping, tail, next, remote_nxt_)
  BY <1>1 DEF RemoteIs
<1>3. /\ popping = "swap" /\ popping' = "link" /\ tail' = tail /\ next' = head_
      /\ remote_nxt_' = [remote_nxt_ EXCEPT ![Dummy] = NoFiber] /\ head_' = Dummy
      /\ tail_' = tail_ /\ prev' = prev /\ pushed' = pushed /\ order' = order /\ swaps' = swaps
  BY DEF Remote!SwapDummy, Remote!Locals
<1>4. Dummy \notin Elements(q) /\ tail = q[1] /\ tail \in Fibers
  BY <1>2, <1>3 DEF PopKnows
<1>5. Dummy \in Nodes
  BY DEF Nodes
<1>6. Pends(prev', pushed', popping', next') = P \cup {<<head_, Dummy>>}
  BY <1>3 DEF Pends
<1>7. SwapsIn(q, head_, tail_, remote_nxt_, P, Dummy, remote_nxt_', P \cup {<<head_, Dummy>>})
  BY <1>2, <1>3, <1>4, <1>5 DEF SwapsIn
<1>8. ListIs(Append(q, Dummy), Dummy, tail_, remote_nxt_', P \cup {<<head_, Dummy>>})
  BY <1>7, SwappedIn
<1>9. Matches(Append(q, Dummy), order)
  BY <1>2, <1>4, MatchesDummyAppended
<1>10. q \in Seq(Nodes) /\ q # <<>> /\ head_ \in Elements(q) /\ head_ \in Nodes /\ Once(q)
  BY <1>2, FirstIsInList DEF ListIs
<1>11. Append(q, Dummy)[1] = q[1] /\ head_ \in Elements(Append(q, Dummy))
  <2>1. Elements(Append(q, Dummy)) = Elements(q) \cup {Dummy}
    BY <1>4, <1>5, <1>10, AppendOnce
  <2>2. Append(q, Dummy)[1] = q[1]
    BY <1>10
  <2> QED BY <1>10, <2>1, <2>2
<1>12. PopKnows(Append(q, Dummy), popping', tail', next', remote_nxt_')
  BY <1>3, <1>4, <1>11 DEF PopKnows
<1> HIDE DEF P
<1>13. RemoteIs(Append(q, Dummy), head_', tail_', remote_nxt_', prev', pushed', popping', tail', next', order')
  BY <1>3, <1>6, <1>8, <1>9, <1>12 DEF RemoteIs
<1>14. Remote!ContextQueueTypeOK' /\ PushersApart(pushed')
  <2>1. remote_nxt_' \in [Nodes -> Nodes \cup {NoFiber}]
    BY <1>3, RemoteTypes
  <2> QED BY <1>3, <1>5, <1>10, <2>1, RemoteTypes DEF Remote!ContextQueueTypeOK, Remote!Nodes, Nodes
<1> QED BY <1>13, <1>14 DEF RemoteInv

LEMMA RemoteLinkDummy ==
    ASSUME RemoteInv, Remote!LinkDummy
    PROVE  RemoteInv'
<1>1. PICK q : RemoteIs(q, head_, tail_, remote_nxt_, prev, pushed, popping, tail, next, order)
  BY DEF RemoteInv
<1> DEFINE P == Pends(prev, pushed, popping, next)
<1>2. ListIs(q, head_, tail_, remote_nxt_, P) /\ Matches(q, order)
      /\ PopKnows(q, popping, tail, next, remote_nxt_)
  BY <1>1 DEF RemoteIs
<1>3. /\ popping = "link" /\ popping' = "reload" /\ tail' = tail /\ next' = NoFiber
      /\ remote_nxt_' = [remote_nxt_ EXCEPT ![next] = Dummy] /\ head_' = head_
      /\ tail_' = tail_ /\ prev' = prev /\ pushed' = pushed /\ order' = order /\ swaps' = swaps
  BY DEF Remote!LinkDummy, Remote!Locals
<1>4. tail = q[1] /\ tail \in Fibers
  BY <1>2, <1>3 DEF PopKnows
<1>5. <<next, Dummy>> \in P
  BY <1>3 DEF Pends
<1>6. \A t \in Pushers : pushed[t] # Dummy
  <2>1. \A t \in Pushers : pushed[t] \in Fibers \cup {NoFiber}
    BY RemoteTypes
  <2> QED BY <2>1, NodesAreNodes DEF Nodes
<1>7. Pends(prev', pushed', popping', next') = P \ {<<next, Dummy>>}
  <2>1. \A p : p \in Pends(prev', pushed', popping', next') <=> p \in P \ {<<next, Dummy>>}
    BY <1>3, <1>6 DEF Pends
  <2> QED BY <2>1
<1>8. LinksUp(q, head_, tail_, remote_nxt_, P, next, Dummy, remote_nxt_', P \ {<<next, Dummy>>})
  BY <1>2, <1>3, <1>5 DEF LinksUp
<1> HIDE DEF P
<1>9. ListIs(q, head_, tail_, remote_nxt_', P \ {<<next, Dummy>>})
  BY <1>8, LinkedUp
<1>10. PopKnows(q, popping', tail', next', remote_nxt_')
  BY <1>3, <1>4 DEF PopKnows
<1>11. RemoteIs(q, head_', tail_', remote_nxt_', prev', pushed', popping', tail', next', order')
  BY <1>2, <1>3, <1>7, <1>9, <1>10 DEF RemoteIs
<1>12. Remote!ContextQueueTypeOK' /\ PushersApart(pushed')
  <2>1. remote_nxt_' \in [Nodes -> Nodes \cup {NoFiber}]
    BY <1>9 DEF ListIs
  <2> QED BY <1>3, <2>1, RemoteTypes DEF Remote!ContextQueueTypeOK, Remote!Nodes, Nodes
<1> QED BY <1>11, <1>12 DEF RemoteInv

\* What pop() is about to return is the first.
LEMMA FirstIsTaken ==
    ASSUME RemoteInv, popping = "take" \/ (popping = "look" /\ next # NoFiber)
    PROVE  /\ order # <<>> /\ tail = Head(order)
           /\ \E q : /\ RemoteIs(q, head_, tail_, remote_nxt_, prev, pushed, popping, tail, next, order)
                     /\ q[1] = tail /\ tail # Dummy /\ next = remote_nxt_[tail_] /\ next # NoFiber
<1>1. PICK q : RemoteIs(q, head_, tail_, remote_nxt_, prev, pushed, popping, tail, next, order)
  BY DEF RemoteInv
<1>2. ListIs(q, head_, tail_, remote_nxt_, Pends(prev, pushed, popping, next)) /\ Matches(q, order)
      /\ PopKnows(q, popping, tail, next, remote_nxt_)
  BY <1>1 DEF RemoteIs
<1>3. q # <<>> /\ q[1] = tail_
  BY <1>2, FirstIsInList
<1>4. tail = q[1] /\ tail \in Fibers /\ next = remote_nxt_[tail] /\ next # NoFiber
  BY <1>2 DEF PopKnows
<1>5. tail # Dummy
  BY <1>4, NodesAreNodes
<1>6. order # <<>> /\ Head(order) = q[1]
  BY <1>2, <1>3, <1>4, <1>5, MatchesTaken
<1> QED BY <1>1, <1>3, <1>4, <1>5, <1>6

LEMMA RemoteTake ==
    ASSUME RemoteInv, Remote!Take
    PROVE  RemoteInv'
<1>1. /\ popping = "take" \/ (popping = "look" /\ next # NoFiber)
      /\ popping' = "out" /\ tail' = NoFiber /\ next' = NoFiber /\ tail_' = next /\ order' = Tail(order)
      /\ head_' = head_ /\ remote_nxt_' = remote_nxt_ /\ prev' = prev
      /\ pushed' = pushed /\ swaps' = swaps
  BY DEF Remote!Take, Remote!ReturnsNothing, Remote!Locals
<1>2. PICK q : /\ RemoteIs(q, head_, tail_, remote_nxt_, prev, pushed, popping, tail, next, order)
               /\ q[1] = tail /\ tail # Dummy /\ next = remote_nxt_[tail_] /\ next # NoFiber
  BY <1>1, FirstIsTaken
<1>3. ListIs(q, head_, tail_, remote_nxt_, Pends(prev, pushed, popping, next)) /\ Matches(q, order)
  BY <1>2 DEF RemoteIs
<1>4. q # <<>> /\ q[1] # Dummy
  BY <1>2, <1>3, FirstIsInList
<1>5. ListIs(Tail(q), head_, next, remote_nxt_, Pends(prev, pushed, popping, next)) /\ next \in Nodes
  <2>1. remote_nxt_[tail_] # NoFiber
    BY <1>2
  <2> QED BY <1>2, <1>3, <2>1, TakenOff
<1>6. Matches(Tail(q), Tail(order)) /\ order # <<>>
  BY <1>3, <1>4, MatchesTaken
<1>7. PopKnows(Tail(q), popping', tail', next', remote_nxt_)
  BY <1>1 DEF PopKnows
<1>8. Pends(prev, pushed, popping', next') = Pends(prev, pushed, popping, next)
  <2>1. popping # "link" /\ popping' # "link"
    BY <1>1
  <2> QED BY <2>1, PendsOfPushes
<1>9. RemoteIs(Tail(q), head_', tail_', remote_nxt_', prev', pushed', popping', tail', next', order')
  BY <1>1, <1>5, <1>6, <1>7, <1>8 DEF RemoteIs
<1>10. Remote!ContextQueueTypeOK' /\ PushersApart(pushed')
  <2>1. Tail(order) \in Seq(Fibers)
    BY <1>6, RemoteTypes
  <2> QED BY <1>1, <1>5, <2>1, RemoteTypes DEF Remote!ContextQueueTypeOK, Remote!Nodes, Nodes
<1> QED BY <1>9, <1>10 DEF RemoteInv

LEMMA RemoteStep ==
    ASSUME RemoteInv, Remote!ContextQueueNext
    PROVE  RemoteInv'
BY RemoteLink, RemoteSwap, RemoteLoadNext, RemoteSkipDummy, RemoteLoadHead, RemoteSwapDummy,
   RemoteLinkDummy, RemoteReload, RemoteTake DEF Remote!ContextQueueNext

LEMMA RemotePopsInOrder == RemoteInv => Remote!PopsInOrder
<1> SUFFICES ASSUME RemoteInv PROVE Remote!PopsInOrder
  OBVIOUS
<1>1. popping = "take" \/ (popping = "look" /\ next # NoFiber) => order # <<>> /\ tail = Head(order)
  BY FirstIsTaken
<1>2. ASSUME popping = "out", \A t \in Pushers : pushed[t] = NoFiber PROVE Remote!IsLinkedInOrder
  <2>1. PICK q : RemoteIs(q, head_, tail_, remote_nxt_, prev, pushed, popping, tail, next, order)
    BY DEF RemoteInv
  <2>2. Pends(prev, pushed, popping, next) = {}
    BY <1>2 DEF Pends
  <2>3. ListIs(q, head_, tail_, remote_nxt_, {}) /\ Matches(q, order)
    BY <2>1, <2>2 DEF RemoteIs
  <2>4. IF order = <<>> THEN Past(remote_nxt_, tail_) = NoFiber
        ELSE /\ Past(remote_nxt_, tail_) = Head(order)
             /\ \A i \in 1 .. Len(order) - 1 :
                   Past(remote_nxt_, remote_nxt_[order[i]]) = order[i + 1]
             /\ Past(remote_nxt_, remote_nxt_[order[Len(order)]]) = NoFiber
    BY <2>3, ListReachesAll
  <2> QED BY <2>4 DEF Remote!IsLinkedInOrder, Remote!Following, Past
<1>3. Remote!ContextQueueTypeOK
  BY DEF RemoteInv
<1> QED BY <1>1, <1>2, <1>3 DEF Remote!PopsInOrder

LEMMA RemoteHolds ==
    /\ ThreadsInit => RemoteInv
    /\ RemoteInv /\ [ThreadsNext]_threadVars => RemoteInv'
<1>1. ThreadsInit => RemoteInv
  BY RemoteStarts DEF ThreadsInit
<1>2. ASSUME RemoteInv, [ThreadsNext]_threadVars PROVE RemoteInv'
  <2>1. CASE Remote!ContextQueueNext
    BY <1>2, <2>1, RemoteStep
  <2>2. CASE UNCHANGED remoteVars
    <3>1. /\ head_' = head_ /\ tail_' = tail_ /\ remote_nxt_' = remote_nxt_ /\ prev' = prev
          /\ pushed' = pushed /\ popping' = popping /\ tail' = tail /\ next' = next
          /\ order' = order /\ swaps' = swaps
      BY <2>2 DEF remoteVars
    <3>2. PICK q : RemoteIs(q, head_, tail_, remote_nxt_, prev, pushed, popping, tail, next, order)
      BY <1>2 DEF RemoteInv
    <3>3. RemoteIs(q, head_', tail_', remote_nxt_', prev', pushed', popping', tail', next', order')
      BY <3>1, <3>2
    <3>4. Remote!ContextQueueTypeOK' /\ PushersApart(pushed')
      BY <1>2, <3>1 DEF RemoteInv, Remote!ContextQueueTypeOK
    <3> QED BY <3>3, <3>4 DEF RemoteInv
  <2> QED BY <1>2, <2>1, <2>2 DEF ThreadsNext, Of, threadVars
<1> QED BY <1>1, <1>2

\* What is pushed into the deque or into the queue of remotely readied fibers is
\* taken once, and from the latter in order.  The deque is an array of which the
\* owner and the thieves claim the two ends; the queue is a list with gaps, at
\* exactly the pairs that somebody has swapped in and has yet to link.
THEOREM ReadyFibersAreHandedOutOnce == ThreadsSpec => []HandedOutOnce
<1> DEFINE I == (part = "deque" => DequeInv) /\ RemoteInv
<1>1. ThreadsInit => I
  BY DequeHolds, RemoteHolds
<1>2. I /\ [ThreadsNext]_threadVars => I'
  BY DequeHolds, RemoteHolds
<1>3. I => HandedOutOnce
  BY DequeHandsOutOnce, RemotePopsInOrder DEF HandedOutOnce
<1> QED BY <1>1, <1>2, <1>3, PTL DEF ThreadsSpec

(***************************************************************************)
(* A ready queue sorted by a property: highest priority first.             *)
(***************************************************************************)

ByPriority(q, prio) ==
    /\ q \in Seq(Ordered) /\ Once(q)
    /\ \A i, j \in DOMAIN q : i < j => prio[q[i]] >= prio[q[j]]

SortsIn(q, prio, f) ==
    /\ ByPriority(q, prio) /\ prio \in [Ordered -> Nat]
    /\ f \in Ordered /\ f \notin Elements(q)

InOrdered(r, q, k, e) == k \in 1 .. Len(q) + 1 /\ r \in Seq(Ordered) /\ Inserted(r, q, k, e)

\* Where the client's algorithm puts f: behind all that are as important.
LEMMA SortedInAt ==
    ASSUME NEW q, NEW prio, NEW f, SortsIn(q, prio, f)
    PROVE  \E k : /\ InOrdered(Props!Inserted(q, f, prio), q, k, f)
                  /\ \A i \in DOMAIN q : prio[q[i]] >= prio[f] <=> i < k
<1>1. /\ q \in Seq(Ordered) /\ prio \in [Ordered -> Nat] /\ f \in Ordered
      /\ \A i, j \in DOMAIN q : i < j => prio[q[i]] >= prio[q[j]]
  BY DEF SortsIn, ByPriority
<1> DEFINE P == {i \in DOMAIN q : prio[q[i]] >= prio[f]}
           n == Cardinality(P)
<1>2. DOMAIN q = 1 .. Len(q) /\ Len(q) \in Nat /\ prio[f] \in Nat
      /\ \A i \in DOMAIN q : q[i] \in Ordered /\ prio[q[i]] \in Nat
  BY <1>1
<1>3. n \in 0 .. Len(q) /\ P = 1 .. n
  <2>1. P \subseteq 1 .. Len(q)
    BY <1>2
  <2>2. ASSUME NEW i \in P, NEW j \in 1 .. i PROVE j \in P
    <3>1. j \in DOMAIN q /\ i \in DOMAIN q /\ (j = i \/ j < i)
      BY <1>2
    <3>2. prio[q[j]] >= prio[q[i]]
      BY <1>1, <1>2, <3>1
    <3> QED BY <1>2, <3>1, <3>2
  <2> HIDE DEF P
  <2>3. \A i \in P : 1 .. i \subseteq P
    BY <2>2
  <2> QED BY <1>2, <2>1, <2>3, PrefixIsCounted
<1> HIDE DEF n
<1>4. PICK k \in 1 .. Len(q) + 1 : k = n + 1
  BY <1>2, <1>3
<1>5. PICK r : r = Props!Inserted(q, f, prio)
  OBVIOUS
<1>6. r = Scheduler!InsertAt(q, k, f)
  <2>1. Props!Cardinality(P) = n
    BY DEF n, Props!Cardinality, Cardinality
  <2>2. 1 + n = k
    BY <1>3, <1>4
  <2>3. r = Props!InsertAt(q, 1 + Props!Cardinality(P), f)
    BY <1>5 DEF Props!Inserted
  <2>4. r = Props!InsertAt(q, k, f)
    BY <2>1, <2>2, <2>3
  <2>5. Props!InsertAt(q, k, f) = SubSeq(q, 1, k - 1) \o <<f>> \o SubSeq(q, k, Len(q))
    BY DEF Props!InsertAt
  <2> QED BY <2>4, <2>5, InsertAtIs
<1>7. r \in Seq(Ordered) /\ Inserted(r, q, k, f)
  BY <1>1, <1>6, InsertedAt
<1>8. \A i \in DOMAIN q : i \in P <=> i < k
  <2> HIDE DEF P
  <2> QED BY <1>2, <1>3, <1>4
<1>9. InOrdered(r, q, k, f)
  BY <1>7 DEF InOrdered
<1> QED BY <1>5, <1>8, <1>9

LEMMA InsertedPlaces ==
    ASSUME NEW r, NEW q, NEW k, NEW e, InOrdered(r, q, k, e), q \in Seq(Ordered)
    PROVE  /\ DOMAIN r = 1 .. Len(q) + 1 /\ k \in DOMAIN r /\ r[k] = e
           /\ \A i \in DOMAIN r :
                 \/ i < k /\ i \in DOMAIN q /\ r[i] = q[i]
                 \/ i = k
                 \/ i > k /\ i - 1 \in DOMAIN q /\ ~ (i - 1 < k) /\ r[i] = q[i - 1]
           /\ \A i \in DOMAIN q : q[i] \in Elements(r)
<1>1. /\ k \in 1 .. Len(q) + 1 /\ r \in Seq(Ordered) /\ Len(r) = Len(q) + 1
      /\ \A i \in 1 .. (k - 1) : r[i] = q[i]
      /\ r[k] = e
      /\ \A i \in k .. Len(q) : r[i + 1] = q[i]
  BY DEF InOrdered, Inserted
<1>2. DOMAIN r = 1 .. Len(q) + 1 /\ DOMAIN q = 1 .. Len(q) /\ Len(q) \in Nat
  BY <1>1
<1>3. ASSUME NEW i \in DOMAIN r
      PROVE  \/ i < k /\ i \in DOMAIN q /\ r[i] = q[i]
             \/ i = k
             \/ i > k /\ i - 1 \in DOMAIN q /\ ~ (i - 1 < k) /\ r[i] = q[i - 1]
  <2>1. CASE i < k
    BY <1>1, <1>2, <2>1
  <2>2. CASE i > k
    <3>1. i - 1 \in k .. Len(q) /\ (i - 1) + 1 = i
      BY <1>1, <1>2, <2>2
    <3>2. r[(i - 1) + 1] = q[i - 1]
      BY <1>1, <3>1
    <3> QED BY <1>1, <1>2, <2>2, <3>1, <3>2
  <2> QED BY <1>1, <1>2, <2>1, <2>2
<1>4. ASSUME NEW i \in DOMAIN q PROVE q[i] \in Elements(r)
  <2>1. CASE i < k
    <3>1. i \in DOMAIN r /\ r[i] = q[i]
      BY <1>1, <1>2, <2>1
    <3> QED BY <3>1 DEF Elements
  <2>2. CASE ~ (i < k)
    <3>1. i \in k .. Len(q) /\ i + 1 \in DOMAIN r
      BY <1>1, <1>2, <2>2
    <3>2. r[i + 1] = q[i]
      BY <1>1, <3>1
    <3> QED BY <3>1, <3>2 DEF Elements
  <2> QED BY <2>1, <2>2
<1> QED BY <1>1, <1>2, <1>3, <1>4

LEMMA SortedIn ==
    ASSUME NEW q, NEW prio, NEW f, SortsIn(q, prio, f)
    PROVE  /\ ByPriority(Props!Inserted(q, f, prio), prio)
           /\ \A x : x \in Elements(Props!Inserted(q, f, prio)) <=> x \in Elements(q) \/ x = f
<1>1. PICK r : r = Props!Inserted(q, f, prio)
  OBVIOUS
<1>2. PICK k : InOrdered(r, q, k, f) /\ \A i \in DOMAIN q : prio[q[i]] >= prio[f] <=> i < k
  BY <1>1, SortedInAt
<1>3. /\ q \in Seq(Ordered) /\ Once(q) /\ prio \in [Ordered -> Nat] /\ f \in Ordered
      /\ \A i, j \in DOMAIN q : i < j => prio[q[i]] >= prio[q[j]]
      /\ f \notin Elements(q)
  BY DEF SortsIn, ByPriority
<1>4. /\ DOMAIN r = 1 .. Len(q) + 1 /\ k \in DOMAIN r /\ r[k] = f
      /\ \A i \in DOMAIN r :
            \/ i < k /\ i \in DOMAIN q /\ r[i] = q[i]
            \/ i = k
            \/ i > k /\ i - 1 \in DOMAIN q /\ ~ (i - 1 < k) /\ r[i] = q[i - 1]
      /\ \A i \in DOMAIN q : q[i] \in Elements(r)
  BY <1>2, <1>3, InsertedPlaces
<1>5. r \in Seq(Ordered)
  BY <1>2 DEF InOrdered
<1>6. \A i \in DOMAIN q : q[i] # f /\ q[i] \in Ordered /\ prio[q[i]] \in Nat /\ prio[f] \in Nat
  <2>1. \A i \in DOMAIN q : q[i] # f
    BY <1>3 DEF Elements
  <2> QED BY <1>3, <2>1
<1>7. ASSUME NEW i \in DOMAIN r, NEW j \in DOMAIN r
      PROVE  /\ r[i] = r[j] => i = j
             /\ i < j => prio[r[i]] >= prio[r[j]]
  <2>1. i \in Int /\ j \in Int /\ k \in Int
    BY <1>3, <1>4
  <2>2. CASE i = k
    <3>1. j # k => r[j] # f
      BY <1>4, <1>6
    <3>2. j > k => prio[f] >= prio[r[j]]
      <4>1. j > k => j - 1 \in DOMAIN q /\ r[j] = q[j - 1] /\ ~ (j - 1 < k)
        BY <1>4, <2>1
      <4>2. j > k => ~ (prio[q[j - 1]] >= prio[f])
        BY <1>2, <4>1
      <4> QED BY <1>6, <4>1, <4>2
    <3> QED BY <1>4, <2>2, <3>1, <3>2
  <2>3. CASE i # k /\ j = k
    <3>1. r[i] # f
      BY <1>4, <1>6, <2>3
    <3>2. i < k => prio[r[i]] >= prio[f]
      BY <1>2, <1>4, <2>1
    <3> QED BY <1>4, <2>3, <3>1, <3>2
  <2>4. CASE i # k /\ j # k
    <3> DEFINE m(h) == IF h < k THEN h ELSE h - 1
    <3>1. m(i) \in DOMAIN q /\ r[i] = q[m(i)]
      BY <1>4, <2>1, <2>4
    <3>2. m(j) \in DOMAIN q /\ r[j] = q[m(j)]
      BY <1>4, <2>1, <2>4
    <3>3. (m(i) = m(j) => i = j) /\ (i < j => m(i) < m(j))
      BY <2>1, <2>4
    <3> HIDE DEF m
    <3> QED BY <1>3, <3>1, <3>2, <3>3 DEF Once
  <2> QED BY <2>2, <2>3, <2>4
<1>8. ByPriority(r, prio)
  BY <1>5, <1>7 DEF ByPriority, Once
<1>9. ASSUME NEW x PROVE x \in Elements(r) <=> x \in Elements(q) \/ x = f
  <2>1. ASSUME x \in Elements(r) PROVE x \in Elements(q) \/ x = f
    BY <1>4, <2>1 DEF Elements
  <2>2. f \in Elements(r)
    BY <1>4 DEF Elements
  <2>3. x \in Elements(q) => x \in Elements(r)
    BY <1>4 DEF Elements
  <2> QED BY <2>1, <2>2, <2>3
<1> QED BY <1>1, <1>8, <1>9

\* What is no more important than any comes last.
LEMMA SortedInLast ==
    ASSUME NEW q, NEW prio, NEW f, SortsIn(q, prio, f),
           \A i \in DOMAIN q : prio[q[i]] >= prio[f]
    PROVE  Props!Inserted(q, f, prio) = Append(q, f)
<1>1. PICK r : r = Props!Inserted(q, f, prio)
  OBVIOUS
<1>2. PICK k : InOrdered(r, q, k, f) /\ \A i \in DOMAIN q : prio[q[i]] >= prio[f] <=> i < k
  BY <1>1, SortedInAt
<1>3. /\ k \in 1 .. Len(q) + 1 /\ r \in Seq(Ordered) /\ Len(r) = Len(q) + 1
      /\ \A i \in 1 .. (k - 1) : r[i] = q[i]
      /\ r[k] = f
  BY <1>2 DEF InOrdered, Inserted
<1>4. q \in Seq(Ordered) /\ f \in Ordered /\ Len(q) \in Nat /\ DOMAIN q = 1 .. Len(q)
  BY DEF SortsIn, ByPriority
<1>5. k = Len(q) + 1
  <2> SUFFICES ASSUME k # Len(q) + 1 PROVE FALSE
    OBVIOUS
  <2>1. k \in DOMAIN q
    BY <1>3, <1>4
  <2>2. k < k
    BY <1>2, <2>1
  <2> QED BY <1>3, <2>2
<1>6. \A i \in 1 .. Len(q) : r[i] = q[i]
  BY <1>3, <1>4, <1>5
<1>7. r = Append(q, f)
  BY <1>3, <1>4, <1>5, <1>6
<1> QED BY <1>1, <1>7

LEMMA Joined ==
    ASSUME NEW S, NEW a \in Seq(S), NEW b \in Seq(S)
    PROVE  /\ a \o b \in Seq(S) /\ Len(a \o b) = Len(a) + Len(b)
           /\ \A i \in 1 .. Len(a) : (a \o b)[i] = a[i]
           /\ \A i \in 1 .. Len(b) : (a \o b)[Len(a) + i] = b[i]
OBVIOUS

\* ready_unlink() closes the gap.
LEMMA UnlinkedAt ==
    ASSUME NEW q \in Seq(Ordered), NEW f, f \in Elements(q)
    PROVE  \E k \in DOMAIN q :
              /\ q[k] = f /\ Props!Without(q, f) \in Seq(Ordered)
              /\ Len(Props!Without(q, f)) = Len(q) - 1
              /\ \A i \in 1 .. Len(q) - 1 :
                    Props!Without(q, f)[i] = IF i < k THEN q[i] ELSE q[i + 1]
<1>1. f \in Props!ToSet(q)
  BY DEF Elements, Props!ToSet
<1>2. PICK k : k = CHOOSE i \in DOMAIN q : q[i] = f
  OBVIOUS
<1>3. k \in DOMAIN q /\ q[k] = f
  BY <1>2 DEF Elements
<1>4. Props!Without(q, f) = SubSeq(q, 1, k - 1) \o SubSeq(q, k + 1, Len(q))
  BY <1>1, <1>2 DEF Props!Without, Props!RemoveAt
<1>5. k \in 1 .. Len(q) /\ Len(q) \in Nat
  BY <1>3
<1>6. PICK a, b : a = SubSeq(q, 1, k - 1) /\ b = SubSeq(q, k + 1, Len(q))
  OBVIOUS
<1>7. /\ a \in Seq(Ordered) /\ Len(a) = k - 1 /\ \A i \in 1 .. k - 1 : a[i] = q[i]
      /\ b \in Seq(Ordered) /\ Len(b) = Len(q) - k
      /\ \A i \in 1 .. Len(q) - k : b[i] = q[k + i]
  BY <1>5, <1>6
<1>8. PICK r : r = a \o b
  OBVIOUS
<1>9. /\ r \in Seq(Ordered) /\ Len(r) = Len(a) + Len(b)
      /\ \A i \in 1 .. Len(a) : r[i] = a[i]
      /\ \A i \in 1 .. Len(b) : r[Len(a) + i] = b[i]
  <2>1. a \in Seq(Ordered) /\ b \in Seq(Ordered)
    BY <1>7
  <2>2. /\ a \o b \in Seq(Ordered) /\ Len(a \o b) = Len(a) + Len(b)
        /\ \A i \in 1 .. Len(a) : (a \o b)[i] = a[i]
        /\ \A i \in 1 .. Len(b) : (a \o b)[Len(a) + i] = b[i]
    BY <2>1, Joined
  <2> QED BY <1>8, <2>2
<1>10. Len(r) = Len(q) - 1
  BY <1>5, <1>7, <1>9
<1>11. ASSUME NEW i \in 1 .. Len(q) - 1 PROVE r[i] = IF i < k THEN q[i] ELSE q[i + 1]
  <2>1. CASE i < k
    <3>1. i \in 1 .. k - 1 /\ i \in 1 .. Len(a)
      BY <1>5, <1>7, <2>1
    <3> QED BY <1>7, <1>9, <2>1, <3>1
  <2>2. CASE ~ (i < k)
    <3>1. /\ i - (k - 1) \in 1 .. Len(b) /\ i - (k - 1) \in 1 .. Len(q) - k
          /\ Len(a) + (i - (k - 1)) = i /\ k + (i - (k - 1)) = i + 1
      BY <1>5, <1>7, <2>2
    <3>2. r[i] = b[i - (k - 1)]
      BY <1>9, <3>1
    <3>3. b[i - (k - 1)] = q[i + 1]
      BY <1>7, <3>1
    <3> QED BY <2>2, <3>2, <3>3
  <2> QED BY <2>1, <2>2
<1>12. r = Props!Without(q, f)
  BY <1>4, <1>6, <1>8
<1> QED BY <1>3, <1>9, <1>10, <1>11, <1>12

LEMMA Unlinked ==
    ASSUME NEW q, NEW prio, NEW f, ByPriority(q, prio), f \in Elements(q)
    PROVE  /\ ByPriority(Props!Without(q, f), prio)
           /\ \A x : x \in Elements(Props!Without(q, f)) <=> x \in Elements(q) /\ x # f
<1>1. q \in Seq(Ordered) /\ Once(q) /\ \A i, j \in DOMAIN q : i < j => prio[q[i]] >= prio[q[j]]
  BY DEF ByPriority
<1>2. PICK r : r = Props!Without(q, f)
  OBVIOUS
<1>3. PICK k \in DOMAIN q :
        /\ q[k] = f /\ r \in Seq(Ordered) /\ Len(r) = Len(q) - 1
        /\ \A i \in 1 .. Len(q) - 1 : r[i] = IF i < k THEN q[i] ELSE q[i + 1]
  BY <1>1, <1>2, UnlinkedAt
<1>4. DOMAIN q = 1 .. Len(q) /\ DOMAIN r = 1 .. Len(q) - 1 /\ Len(q) \in Nat /\ k \in Nat
  BY <1>1, <1>3
<1> DEFINE m(i) == IF i < k THEN i ELSE i + 1
<1>5. \A i \in DOMAIN r : m(i) \in DOMAIN q /\ m(i) # k
  BY <1>3, <1>4
<1>6. \A i \in DOMAIN r : r[i] = q[m(i)]
  BY <1>3, <1>4
<1>7. \A i, j \in DOMAIN r : (m(i) = m(j) => i = j) /\ (i < j => m(i) < m(j))
  BY <1>4
<1>8. ASSUME NEW i \in DOMAIN q, i # k PROVE q[i] \in Elements(r)
  <2>1. CASE i < k
    <3>1. i \in DOMAIN r /\ m(i) = i
      BY <1>3, <1>4, <2>1
    <3> QED BY <1>6, <3>1 DEF Elements
  <2>2. CASE i > k
    <3>1. i - 1 \in DOMAIN r /\ m(i - 1) = i
      BY <1>3, <1>4, <2>2
    <3> QED BY <1>6, <3>1 DEF Elements
  <2> QED BY <1>4, <1>8, <2>1, <2>2
<1> HIDE DEF m
<1>9. ByPriority(r, prio)
  BY <1>1, <1>3, <1>5, <1>6, <1>7 DEF ByPriority, Once
<1>10. ASSUME NEW x PROVE x \in Elements(r) <=> x \in Elements(q) /\ x # f
  <2>1. ASSUME x \in Elements(r) PROVE x \in Elements(q) /\ x # f
    <3>1. PICK i \in DOMAIN r : x = q[m(i)]
      BY <1>6, <2>1 DEF Elements
    <3> QED BY <1>1, <1>3, <1>5, <3>1 DEF Elements, Once
  <2>2. ASSUME x \in Elements(q), x # f PROVE x \in Elements(r)
    <3>1. PICK i \in DOMAIN q : x = q[i]
      BY <2>2 DEF Elements
    <3> QED BY <1>3, <1>8, <2>2, <3>1
  <2> QED BY <2>1, <2>2
<1> QED BY <1>2, <1>9, <1>10

LEMMA NothingToUnlink ==
    ASSUME NEW f
    PROVE  Props!Without(<<>>, f) = <<>>
<1>1. f \notin Props!ToSet(<<>>)
  BY DEF Props!ToSet
<1> QED BY <1>1 DEF Props!Without

\* A front of the queue, and the fiber behind it.
LEMMA FrontByPriority ==
    ASSUME NEW q, NEW prio \in [Ordered -> Nat], ByPriority(q, prio), NEW n \in 1 .. Len(q)
    PROVE  Props!Inserted(SubSeq(q, 1, n - 1), q[n], prio) = SubSeq(q, 1, n)
<1>1. /\ q \in Seq(Ordered) /\ Len(q) \in Nat /\ DOMAIN q = 1 .. Len(q) /\ q[n] \in Ordered
      /\ \A i, j \in DOMAIN q : q[i] = q[j] => i = j
      /\ \A i, j \in DOMAIN q : i < j => prio[q[i]] >= prio[q[j]]
  BY DEF ByPriority, Once
<1>2. PICK p : p = SubSeq(q, 1, n - 1)
  OBVIOUS
<1>3. p \in Seq(Ordered) /\ Len(p) = n - 1 /\ DOMAIN p = 1 .. n - 1 /\ \A i \in 1 .. n - 1 : p[i] = q[i]
  BY <1>1, <1>2
<1>4. \A i \in DOMAIN p : i \in DOMAIN q /\ n \in DOMAIN q /\ i < n /\ i # n /\ p[i] = q[i]
  BY <1>1, <1>3
<1>5. SortsIn(p, prio, q[n])
  <2>1. q[n] \notin Elements(p)
    BY <1>1, <1>4 DEF Elements
  <2>2. Once(p)
    BY <1>1, <1>4 DEF Once
  <2>3. \A i, j \in DOMAIN p : i < j => prio[p[i]] >= prio[p[j]]
    BY <1>1, <1>4
  <2> QED BY <1>1, <1>3, <2>1, <2>2, <2>3 DEF SortsIn, ByPriority
<1>6. \A i \in DOMAIN p : prio[p[i]] >= prio[q[n]]
  BY <1>1, <1>4
<1>7. Props!Inserted(p, q[n], prio) = Append(p, q[n])
  BY <1>5, <1>6, SortedInLast
<1>8. Append(p, q[n]) = SubSeq(q, 1, n)
  BY <1>1, <1>2, <1>3
<1> QED BY <1>2, <1>7, <1>8

MovesAll(g, q, prio) ==
    g = [n \in 0 .. Len(q) |-> IF n = 0 THEN <<>> ELSE Props!Inserted(g[n - 1], q[n], prio)]

\* Passing a sorted queue on, fiber by fiber, keeps it as it is.
LEMMA MovedAsItIs ==
    ASSUME NEW q, NEW prio \in [Ordered -> Nat], ByPriority(q, prio)
    PROVE  Props!Moved(q, prio) = q
<1>1. PICK g : g = CHOOSE h : MovesAll(h, q, prio)
  OBVIOUS
<1>2. Props!Moved(q, prio) = g[Len(q)]
  BY <1>1 DEF Props!Moved, MovesAll
<1>3. q \in Seq(Ordered) /\ Len(q) \in Nat
  BY DEF ByPriority
<1> DEFINE w == [n \in 0 .. Len(q) |-> SubSeq(q, 1, n)]
<1>4. \A n \in 0 .. Len(q) : w[n] = IF n = 0 THEN <<>> ELSE Props!Inserted(w[n - 1], q[n], prio)
  <2> SUFFICES ASSUME NEW n \in 0 .. Len(q)
               PROVE  w[n] = IF n = 0 THEN <<>> ELSE Props!Inserted(w[n - 1], q[n], prio)
    OBVIOUS
  <2>1. CASE n = 0
    BY <1>3, <2>1
  <2>2. CASE n # 0
    <3>1. n \in 1 .. Len(q) /\ w[n] = SubSeq(q, 1, n) /\ w[n - 1] = SubSeq(q, 1, n - 1)
      BY <1>3, <2>2
    <3>2. Props!Inserted(SubSeq(q, 1, n - 1), q[n], prio) = SubSeq(q, 1, n)
      BY <3>1, FrontByPriority
    <3> HIDE DEF w
    <3> QED BY <2>2, <3>1, <3>2
  <2> QED BY <2>1, <2>2
<1>5. MovesAll(w, q, prio)
  <2>1. w = [n \in 0 .. Len(q) |-> w[n]]
    OBVIOUS
  <2> HIDE DEF w
  <2> QED BY <1>4, <2>1 DEF MovesAll
<1> HIDE DEF w
<1>6. MovesAll(g, q, prio)
  BY <1>1, <1>5
<1>7. \A n \in 0 .. Len(q) : g[n] = IF n = 0 THEN <<>> ELSE Props!Inserted(g[n - 1], q[n], prio)
  BY <1>6 DEF MovesAll
<1> DEFINE T == {n \in 0 .. Len(q) : g[n] # SubSeq(q, 1, n)}
<1>8. T = {}
  <2> SUFFICES ASSUME T # {} PROVE FALSE
    OBVIOUS
  <2>1. T \subseteq Nat
    OBVIOUS
  <2>2. PICK n \in T : \A m \in T : n <= m
    <3> HIDE DEF T
    <3> QED BY <2>1, LeastNatural
  <2>3. n # 0
    <3>1. SubSeq(q, 1, 0) = <<>> /\ 0 \in 0 .. Len(q)
      BY <1>3
    <3> QED BY <1>7, <3>1
  <2>4. n \in 1 .. Len(q) /\ n - 1 \in 0 .. Len(q) /\ ~ (n <= n - 1)
    BY <1>3, <2>3
  <2>5. g[n - 1] = SubSeq(q, 1, n - 1)
    BY <2>2, <2>4
  <2>6. g[n] = Props!Inserted(SubSeq(q, 1, n - 1), q[n], prio)
    BY <1>7, <2>3, <2>5
  <2>7. g[n] = SubSeq(q, 1, n)
    BY <2>4, <2>6, FrontByPriority
  <2> QED BY <2>7
<1>9. g[Len(q)] = SubSeq(q, 1, Len(q))
  <2>1. Len(q) \in 0 .. Len(q)
    BY <1>3
  <2> QED BY <1>8, <2>1
<1> QED BY <1>2, <1>3, <1>9

\* What is true of the ready queue q when act runs: besides being sorted, it holds
\* only fibers that were launched and were told of the algorithm al.
ReadyIs(q, prio, act, begun, told, al) ==
    /\ ByPriority(q, prio)
    /\ act \in begun /\ act \notin Elements(q)
    /\ \A f \in Elements(q) : f \in begun /\ told[f] = al

\* No algorithm but the present one has a fiber.
PropsInv ==
    /\ Props!PropertiesTypeOK
    /\ \A a \in Props!Algos : a # algo_ => queues[a] = <<>>
    /\ ReadyIs(Props!Ready, priority, running, launched, properties_, algo_)

LEMMA PropsTypes ==
    ASSUME PropsInv
    PROVE  /\ algo_ \in 1 .. MaxAlgos /\ MaxAlgos \in Nat
           /\ queues \in [1 .. MaxAlgos -> Seq(Ordered)]
           /\ running \in Ordered /\ launched \subseteq Ordered
           /\ properties_ \in [Ordered -> 1 .. MaxAlgos \cup {0}]
           /\ priority \in [Ordered -> Priorities] /\ priority \in [Ordered -> Nat]
           /\ Props!Ready = queues[algo_] /\ queues[algo_] \in Seq(Ordered)
           /\ \A f : Props!IsLinked(f) <=> f \in Elements(Props!Ready)
<1>1. /\ algo_ \in 1 .. MaxAlgos /\ queues \in [1 .. MaxAlgos -> Seq(Ordered)]
      /\ running \in Ordered /\ launched \subseteq Ordered
      /\ properties_ \in [Ordered -> 1 .. MaxAlgos \cup {0}]
      /\ priority \in [Ordered -> Priorities]
  BY DEF PropsInv, Props!PropertiesTypeOK, Props!Algos, Props!NoProperties
<1>2. MaxAlgos \in Nat /\ Priorities \subseteq Nat
  BY ThreadsAssumption DEF Props!PropertiesAssumption
<1>3. Props!Ready = queues[algo_] /\ queues[algo_] \in Seq(Ordered)
  BY <1>1 DEF Props!Ready
<1>4. ASSUME NEW f PROVE Props!IsLinked(f) <=> f \in Elements(Props!Ready)
  <2>1. \A a \in 1 .. MaxAlgos : a # algo_ => f \notin Props!ToSet(queues[a])
    <3>1. \A a \in 1 .. MaxAlgos : a # algo_ => queues[a] = <<>>
      BY DEF PropsInv, Props!Algos
    <3> QED BY <3>1 DEF Props!ToSet
  <2>2. Props!ToSet(queues[algo_]) = Elements(queues[algo_])
    BY DEF Props!ToSet, Elements
  <2> QED BY <1>1, <1>3, <2>1, <2>2 DEF Props!IsLinked, Props!Algos
<1> QED BY <1>1, <1>2, <1>3, <1>4

LEMMA PropsStart == Props!Init => PropsInv
<1> SUFFICES ASSUME Props!Init PROVE PropsInv
  OBVIOUS
<1>1. /\ algo_ = 1 /\ queues = [a \in 1 .. MaxAlgos |-> <<>>] /\ running = Main /\ launched = {Main}
      /\ properties_ = [f \in Ordered |-> 0] /\ priority = [f \in Ordered |-> 0]
  BY DEF Props!Init, Props!Algos, Props!NoProperties
<1>2. MaxAlgos \in Nat \ {0} /\ Main \in Ordered /\ 0 \in Priorities
  BY ThreadsAssumption DEF Props!PropertiesAssumption
<1>3. queues \in [1 .. MaxAlgos -> Seq(Ordered)] /\ 1 \in 1 .. MaxAlgos
  <2>1. <<>> \in Seq(Ordered)
    OBVIOUS
  <2> QED BY <1>1, <1>2, <2>1
<1>4. Props!PropertiesTypeOK
  BY <1>1, <1>2, <1>3 DEF Props!PropertiesTypeOK, Props!Algos, Props!NoProperties
<1>5. Props!Ready = <<>>
  BY <1>1, <1>3 DEF Props!Ready
<1>6. ReadyIs(<<>>, priority, running, launched, properties_, algo_)
  <2>1. DOMAIN <<>> = {}
    OBVIOUS
  <2>2. <<>> \in Seq(Ordered)
    OBVIOUS
  <2> QED BY <1>1, <2>1, <2>2 DEF ReadyIs, ByPriority, Once, Elements
<1>7. \A a \in Props!Algos : a # algo_ => queues[a] = <<>>
  BY <1>1 DEF Props!Algos
<1> QED BY <1>4, <1>5, <1>6, <1>7 DEF PropsInv

\* A step that replaces the ready queue by r.
Replaces(r) ==
    /\ PropsInv /\ queues' = [queues EXCEPT ![algo_] = r] /\ algo_' = algo_
    /\ launched' \subseteq Ordered /\ properties_' \in [Ordered -> 1 .. MaxAlgos \cup {0}]
    /\ priority' \in [Ordered -> Priorities]
    /\ ReadyIs(r, priority', running', launched', properties_', algo_)

LEMMA ReplacedReady ==
    ASSUME NEW r, Replaces(r)
    PROVE  PropsInv'
<1>1. /\ queues' = [queues EXCEPT ![algo_] = r] /\ algo_' = algo_
      /\ launched' \subseteq Ordered /\ properties_' \in [Ordered -> 1 .. MaxAlgos \cup {0}]
      /\ priority' \in [Ordered -> Priorities]
      /\ ReadyIs(r, priority', running', launched', properties_', algo_)
      /\ PropsInv
  BY DEF Replaces
<1>2. r \in Seq(Ordered) /\ running' \in launched' /\ running' \in Ordered
  BY <1>1 DEF ReadyIs, ByPriority
<1>3. algo_ \in 1 .. MaxAlgos /\ queues \in [1 .. MaxAlgos -> Seq(Ordered)]
  BY <1>1, PropsTypes
<1>4. queues' \in [1 .. MaxAlgos -> Seq(Ordered)] /\ queues'[algo_] = r
      /\ \A a \in 1 .. MaxAlgos : a # algo_ => queues'[a] = queues[a]
  BY <1>1, <1>2, <1>3
<1>5. Props!PropertiesTypeOK'
  BY <1>1, <1>2, <1>3, <1>4 DEF Props!PropertiesTypeOK, Props!Algos, Props!NoProperties
<1>6. Props!Ready' = r
  BY <1>1, <1>4 DEF Props!Ready
<1>7. \A a \in Props!Algos : a # algo_' => queues'[a] = <<>>
  BY <1>1, <1>4 DEF PropsInv, Props!Algos
<1> QED BY <1>1, <1>5, <1>6, <1>7 DEF PropsInv, Props!Algos

\* A fiber is made ready, behind what q has kept of the ready queue.
Awakens(f, q) ==
    /\ PropsInv /\ Props!Awakened(f, q) /\ algo_' = algo_ /\ priority' = priority
    /\ ByPriority(q, priority) /\ \A x \in Elements(q) : x \in Elements(Props!Ready)
    /\ f \in launched' /\ f \notin Elements(q)
    /\ launched \subseteq launched' /\ launched' \subseteq Ordered
    /\ running' \in launched' /\ running' \notin Elements(q) /\ running' # f

LEMMA AwakenedIsSortedIn ==
    ASSUME NEW f, NEW q, Awakens(f, q)
    PROVE  PropsInv'
<1>1. /\ PropsInv /\ algo_' = algo_ /\ priority' = priority
      /\ ByPriority(q, priority) /\ \A x \in Elements(q) : x \in Elements(Props!Ready)
      /\ f \in launched' /\ f \notin Elements(q) /\ f \in Ordered
      /\ launched \subseteq launched' /\ launched' \subseteq Ordered
      /\ running' \in launched' /\ running' \notin Elements(q) /\ running' # f
  BY DEF Awakens
<1>2. PICK r : r = Props!Inserted(q, f, priority)
  OBVIOUS
<1>3. queues' = [queues EXCEPT ![algo_] = r] /\ properties_' = [properties_ EXCEPT ![f] = algo_]
  BY <1>2 DEF Awakens, Props!Awakened, Props!SetAlgorithm
<1>4. SortsIn(q, priority, f)
  BY <1>1, PropsTypes DEF SortsIn
<1>5. ByPriority(r, priority) /\ \A x : x \in Elements(r) <=> x \in Elements(q) \/ x = f
  BY <1>2, <1>4, SortedIn
<1>6. properties_' \in [Ordered -> 1 .. MaxAlgos \cup {0}]
      /\ \A x \in Ordered : properties_'[x] = IF x = f THEN algo_ ELSE properties_[x]
  BY <1>1, <1>3, PropsTypes
<1>7. \A x \in Elements(q) : x \in launched /\ x \in Ordered /\ properties_[x] = algo_
  BY <1>1, PropsTypes DEF PropsInv, ReadyIs
<1>8. ReadyIs(r, priority', running', launched', properties_', algo_)
  BY <1>1, <1>5, <1>6, <1>7 DEF ReadyIs
<1>9. priority' \in [Ordered -> Priorities]
  BY <1>1, PropsTypes
<1>10. Replaces(r)
  BY <1>1, <1>3, <1>6, <1>8, <1>9 DEF Replaces
<1> QED BY <1>10, ReplacedReady

\* The fiber that was the first may run next: it is no longer queued.
LEMMA FirstRunsNext ==
    ASSUME PropsInv, Props!Ready # <<>>
    PROVE  /\ ByPriority(Tail(Props!Ready), priority)
           /\ Head(Props!Ready) \in Elements(Props!Ready) /\ Head(Props!Ready) \in launched
           /\ \A x : x \in Elements(Tail(Props!Ready)) <=>
                        x \in Elements(Props!Ready) /\ x # Head(Props!Ready)
<1>1. PICK q : q = Props!Ready
  OBVIOUS
<1>2. q \in Seq(Ordered) /\ q # <<>> /\ Once(q) /\ \A i, j \in DOMAIN q : i < j => priority[q[i]] >= priority[q[j]]
  BY <1>1 DEF PropsInv, ReadyIs, ByPriority
<1>3. Head(q) \in Elements(q) /\ Tail(q) \in Seq(Ordered) /\ Once(Tail(q))
      /\ Elements(Tail(q)) = Elements(q) \ {Head(q)}
  BY <1>2, TailOnce
<1>4. PICK r : r = Tail(q)
  OBVIOUS
<1>5. \A i \in DOMAIN r : i + 1 \in DOMAIN q /\ r[i] = q[i + 1] /\ i \in Nat
  BY <1>2, <1>4
<1>6. ASSUME NEW i \in DOMAIN r, NEW j \in DOMAIN r, i < j PROVE priority[r[i]] >= priority[r[j]]
  <2>1. i + 1 < j + 1
    BY <1>5, <1>6
  <2> QED BY <1>2, <1>5, <2>1
<1>7. ByPriority(r, priority)
  BY <1>3, <1>4, <1>6 DEF ByPriority
<1>8. Head(q) \in launched
  BY <1>1, <1>3 DEF PropsInv, ReadyIs
<1> QED BY <1>1, <1>3, <1>4, <1>7, <1>8

LEMMA PropsReady ==
    ASSUME PropsInv
    PROVE  /\ ByPriority(Props!Ready, priority)
           /\ running \in launched /\ running \notin Elements(Props!Ready)
           /\ \A f \in Elements(Props!Ready) : f \in launched /\ properties_[f] = algo_
BY DEF PropsInv, ReadyIs

LEMMA PropsLaunch ==
    ASSUME PropsInv, NEW f \in Ordered, Props!LaunchPost(f) \/ Props!LaunchDispatch(f)
    PROVE  PropsInv'
<1>1. /\ f \notin launched /\ launched' = launched \cup {f}
      /\ algo_' = algo_ /\ priority' = priority
  BY DEF Props!LaunchPost, Props!LaunchDispatch
<1>2. f \notin Elements(Props!Ready) /\ f # running
  BY <1>1, PropsReady
<1>3. launched \subseteq Ordered
  BY PropsTypes
<1>4. CASE running' = running /\ Props!Awakened(f, Props!Ready)
  <2>1. Awakens(f, Props!Ready)
    BY <1>1, <1>2, <1>3, <1>4, PropsReady DEF Awakens
  <2> QED BY <2>1, AwakenedIsSortedIn
<1>5. CASE running' = f /\ Props!Awakened(running, Props!Ready)
  <2>1. Awakens(running, Props!Ready)
    BY <1>1, <1>2, <1>3, <1>5, PropsReady DEF Awakens
  <2> QED BY <2>1, AwakenedIsSortedIn
<1> QED BY <1>4, <1>5 DEF Props!LaunchPost, Props!LaunchDispatch

LEMMA PropsWakeUp ==
    ASSUME PropsInv, NEW f \in Ordered, Props!WakeUp(f)
    PROVE  PropsInv'
<1>1. /\ f \in launched /\ f # running /\ ~ Props!IsLinked(f) /\ Props!Awakened(f, Props!Ready)
      /\ algo_' = algo_ /\ priority' = priority /\ running' = running /\ launched' = launched
  BY DEF Props!WakeUp
<1>2. f \notin Elements(Props!Ready) /\ launched \subseteq Ordered
  BY <1>1, PropsTypes
<1>3. Awakens(f, Props!Ready)
  BY <1>1, <1>2, PropsReady DEF Awakens
<1> QED BY <1>3, AwakenedIsSortedIn

LEMMA PropsYield ==
    ASSUME PropsInv, Props!Yield
    PROVE  PropsInv'
<1>1. algo_' = algo_ /\ priority' = priority /\ launched' = launched
  BY DEF Props!Yield
<1>2. CASE /\ Props!Ready # <<>> /\ running' = Head(Props!Ready)
           /\ Props!Awakened(running, Tail(Props!Ready))
  <2>1. /\ ByPriority(Tail(Props!Ready), priority)
        /\ Head(Props!Ready) \in Elements(Props!Ready) /\ Head(Props!Ready) \in launched
        /\ \A x : x \in Elements(Tail(Props!Ready)) <=>
                     x \in Elements(Props!Ready) /\ x # Head(Props!Ready)
    BY <1>2, FirstRunsNext
  <2>2. launched \subseteq Ordered
    BY PropsTypes
  <2>3. Awakens(running, Tail(Props!Ready))
    BY <1>1, <1>2, <2>1, <2>2, PropsReady DEF Awakens
  <2> QED BY <2>3, AwakenedIsSortedIn
<1>3. CASE /\ running' = running /\ queues' = queues
           /\ properties_' = [properties_ EXCEPT ![running] = Props!SetAlgorithm(running, algo_)]
  <2>1. properties_' = [properties_ EXCEPT ![running] = algo_]
    BY <1>3 DEF Props!SetAlgorithm
  <2>2. queues' = [queues EXCEPT ![algo_] = Props!Ready]
    BY <1>3, PropsTypes
  <2>3. properties_' \in [Ordered -> 1 .. MaxAlgos \cup {0}]
        /\ \A x \in Ordered : x # running => properties_'[x] = properties_[x]
    BY <2>1, PropsTypes
  <2>4. launched' \subseteq Ordered /\ priority' \in [Ordered -> Priorities]
    BY <1>1, PropsTypes
  <2>5. \A x \in Elements(Props!Ready) : x \in Ordered /\ x # running
    BY <2>4, <1>1, PropsReady
  <2>6. ReadyIs(Props!Ready, priority', running', launched', properties_', algo_)
    BY <1>1, <1>3, <2>3, <2>5, PropsReady DEF ReadyIs
  <2>7. Replaces(Props!Ready)
    BY <1>1, <2>2, <2>3, <2>4, <2>6 DEF Replaces
  <2> QED BY <2>7, ReplacedReady
<1> QED BY <1>2, <1>3 DEF Props!Yield

LEMMA PropsSuspend ==
    ASSUME PropsInv, Props!Suspend
    PROVE  PropsInv'
<1>1. /\ Props!Ready # <<>> /\ running' = Head(Props!Ready)
      /\ queues' = [queues EXCEPT ![algo_] = Tail(Props!Ready)]
      /\ algo_' = algo_ /\ launched' = launched /\ properties_' = properties_ /\ priority' = priority
  BY DEF Props!Suspend
<1>2. /\ ByPriority(Tail(Props!Ready), priority)
      /\ Head(Props!Ready) \in Elements(Props!Ready) /\ Head(Props!Ready) \in launched
      /\ \A x : x \in Elements(Tail(Props!Ready)) <=>
                   x \in Elements(Props!Ready) /\ x # Head(Props!Ready)
  BY <1>1, FirstRunsNext
<1>3. ReadyIs(Tail(Props!Ready), priority', running', launched', properties_', algo_)
  BY <1>1, <1>2, PropsReady DEF ReadyIs
<1>4. /\ launched' \subseteq Ordered /\ priority' \in [Ordered -> Priorities]
      /\ properties_' \in [Ordered -> 1 .. MaxAlgos \cup {0}]
  BY <1>1, PropsTypes
<1>5. Replaces(Tail(Props!Ready))
  BY <1>1, <1>3, <1>4 DEF Replaces
<1> QED BY <1>5, ReplacedReady

\* The property of a fiber that is not in the queue does not matter to it.
LEMMA OthersPriority ==
    ASSUME NEW q, NEW prio \in [Ordered -> Nat], NEW f \in Ordered, NEW p \in Nat, NEW prio2,
           ByPriority(q, prio), f \notin Elements(q), prio2 = [prio EXCEPT ![f] = p]
    PROVE  ByPriority(q, prio2) /\ prio2 \in [Ordered -> Nat]
<1>1. q \in Seq(Ordered) /\ Once(q) /\ \A i, j \in DOMAIN q : i < j => prio[q[i]] >= prio[q[j]]
  BY DEF ByPriority
<1>2. \A i \in DOMAIN q : prio2[q[i]] = prio[q[i]]
  <2>1. \A i \in DOMAIN q : q[i] # f /\ q[i] \in Ordered
    BY <1>1 DEF Elements
  <2> QED BY <2>1
<1> QED BY <1>1, <1>2 DEF ByPriority

LEMMA PropsSetProperty ==
    ASSUME PropsInv, NEW f \in Ordered, NEW p \in Priorities, Props!SetProperty(f, p)
    PROVE  PropsInv'
<1>1. PICK prio : prio = [priority EXCEPT ![f] = p]
  OBVIOUS
<1>2. /\ priority' = prio
      /\ algo_' = algo_ /\ running' = running /\ launched' = launched /\ properties_' = properties_
  BY <1>1 DEF Props!SetProperty
<1>3. p \in Nat /\ priority \in [Ordered -> Nat]
  BY PropsTypes, ThreadsAssumption DEF Props!PropertiesAssumption
<1>4. /\ launched' \subseteq Ordered /\ priority' \in [Ordered -> Priorities]
      /\ properties_' \in [Ordered -> 1 .. MaxAlgos \cup {0}]
  BY <1>1, <1>2, PropsTypes
<1>5. CASE ~ Props!IsLinked(f)
  <2>1. queues' = queues
    BY <1>5 DEF Props!SetProperty
  <2>2. queues' = [queues EXCEPT ![algo_] = Props!Ready]
    BY <2>1, PropsTypes
  <2>3. f \notin Elements(Props!Ready)
    BY <1>5, PropsTypes
  <2>4. ByPriority(Props!Ready, prio)
    BY <1>1, <1>3, <2>3, PropsReady, OthersPriority
  <2>5. ReadyIs(Props!Ready, priority', running', launched', properties_', algo_)
    BY <1>2, <2>4, PropsReady DEF ReadyIs
  <2>6. Replaces(Props!Ready)
    BY <1>2, <1>4, <2>2, <2>5 DEF Replaces
  <2> QED BY <2>6, ReplacedReady
<1>6. CASE Props!IsLinked(f)
  <2>1. f \in Elements(Props!Ready) /\ properties_[f] = algo_
    BY <1>6, PropsTypes, PropsReady
  <2>2. PICK q : q = Props!Without(Props!Ready, f)
    OBVIOUS
  <2>3. PICK r : r = Props!Inserted(q, f, prio)
    OBVIOUS
  <2>4. ByPriority(q, priority) /\ \A x : x \in Elements(q) <=> x \in Elements(Props!Ready) /\ x # f
    BY <2>1, <2>2, PropsReady, Unlinked
  <2>5. ByPriority(q, prio) /\ prio \in [Ordered -> Nat] /\ f \notin Elements(q)
    BY <1>1, <1>3, <2>4, OthersPriority
  <2>6. SortsIn(q, prio, f)
    BY <2>5 DEF SortsIn
  <2>7. ByPriority(r, prio) /\ \A x : x \in Elements(r) <=> x \in Elements(q) \/ x = f
    BY <2>3, <2>6, SortedIn
  <2>8. queues' = [b \in Props!Algos |->
                      IF b = algo_ THEN Props!Inserted(Props!Without(queues[b], f), f, prio)
                      ELSE Props!Without(queues[b], f)]
    BY <1>1, <1>6, <2>1 DEF Props!SetProperty
  <2>9. Props!Ready = queues[algo_]
    BY PropsTypes
  <2>10. \A b \in 1 .. MaxAlgos : queues'[b] = IF b = algo_ THEN r ELSE queues[b]
    <3>1. ASSUME NEW b \in 1 .. MaxAlgos, b # algo_ PROVE Props!Without(queues[b], f) = queues[b]
      <4>1. queues[b] = <<>>
        BY <3>1 DEF PropsInv, Props!Algos
      <4> QED BY <4>1, NothingToUnlink
    <3>2. Props!Inserted(Props!Without(queues[algo_], f), f, prio) = r
      BY <2>2, <2>3, <2>9
    <3> QED BY <2>8, <3>1, <3>2 DEF Props!Algos
  <2>11. queues' = [queues EXCEPT ![algo_] = r]
    <3>1. DOMAIN queues' = 1 .. MaxAlgos /\ queues' = [b \in 1 .. MaxAlgos |-> queues'[b]]
      BY <2>8 DEF Props!Algos
    <3>2. queues \in [1 .. MaxAlgos -> Seq(Ordered)] /\ algo_ \in 1 .. MaxAlgos
      BY PropsTypes
    <3>3. PICK new : new = queues'
      OBVIOUS
    <3>4. new = [queues EXCEPT ![algo_] = r]
      BY <2>10, <3>1, <3>2, <3>3
    <3> QED BY <3>3, <3>4
  <2>12. \A x : x \in Elements(r) <=> x \in Elements(Props!Ready)
    BY <2>1, <2>4, <2>7
  <2>13. ReadyIs(r, priority', running', launched', properties_', algo_)
    BY <1>2, <2>7, <2>12, PropsReady DEF ReadyIs
  <2>14. Replaces(r)
    BY <1>2, <1>4, <2>11, <2>13 DEF Replaces
  <2> QED BY <2>14, ReplacedReady
<1> QED BY <1>5, <1>6

LEMMA PropsSetAlgo ==
    ASSUME PropsInv, Props!SetAlgo
    PROVE  PropsInv'
<1>1. /\ algo_ < MaxAlgos /\ algo_' = algo_ + 1
      /\ queues' = [queues EXCEPT ![algo_] = <<>>, ![algo_ + 1] = Props!Moved(Props!Ready, priority)]
      /\ properties_' = [f \in Ordered |-> IF Props!IsLinked(f) THEN algo_ + 1 ELSE properties_[f]]
      /\ running' = running /\ launched' = launched /\ priority' = priority
  BY DEF Props!SetAlgo, Props!SetAlgorithm
<1>2. PICK q : q = Props!Ready
  OBVIOUS
<1>3. Props!Moved(Props!Ready, priority) = q
  BY <1>2, PropsTypes, PropsReady, MovedAsItIs
<1>4. /\ algo_ \in 1 .. MaxAlgos /\ MaxAlgos \in Nat /\ queues \in [1 .. MaxAlgos -> Seq(Ordered)]
      /\ q \in Seq(Ordered) /\ properties_ \in [Ordered -> 1 .. MaxAlgos \cup {0}]
  BY <1>2, PropsTypes
<1>5. algo_ + 1 \in 1 .. MaxAlgos /\ algo_ + 1 # algo_
  BY <1>1, <1>4
<1>6. queues' = [queues EXCEPT ![algo_] = <<>>, ![algo_ + 1] = q]
  BY <1>1, <1>3
<1>7. \A a \in 1 .. MaxAlgos :
         queues'[a] = IF a = algo_ + 1 THEN q ELSE IF a = algo_ THEN <<>> ELSE queues[a]
  <2>1. PICK m : m = algo_ + 1
    OBVIOUS
  <2>2. m \in 1 .. MaxAlgos /\ m # algo_
    BY <1>5, <2>1
  <2>3. queues' = [queues EXCEPT ![algo_] = <<>>, ![m] = q]
    BY <1>6, <2>1
  <2>4. \A a \in 1 .. MaxAlgos : queues'[a] = IF a = m THEN q ELSE IF a = algo_ THEN <<>> ELSE queues[a]
    BY <1>4, <2>2, <2>3
  <2> QED BY <2>1, <2>4
<1>8. queues' \in [1 .. MaxAlgos -> Seq(Ordered)]
  <2>1. queues' = [a \in 1 .. MaxAlgos |-> queues'[a]]
    BY <1>4, <1>6
  <2>2. \A a \in 1 .. MaxAlgos : queues'[a] \in Seq(Ordered)
    <3>1. <<>> \in Seq(Ordered)
      OBVIOUS
    <3>2. \A a \in 1 .. MaxAlgos : queues[a] \in Seq(Ordered)
      BY <1>4
    <3> QED BY <1>4, <1>7, <3>1, <3>2
  <2> QED BY <2>1, <2>2
<1>9. properties_' \in [Ordered -> 1 .. MaxAlgos \cup {0}]
  BY <1>1, <1>4, <1>5
<1>10. Props!PropertiesTypeOK'
  BY <1>1, <1>5, <1>8, <1>9, PropsTypes DEF Props!PropertiesTypeOK, Props!Algos, Props!NoProperties
<1>11. Props!Ready' = q
  BY <1>1, <1>5, <1>7 DEF Props!Ready
<1>12. \A a \in Props!Algos : a # algo_' => queues'[a] = <<>>
  <2>1. \A a \in 1 .. MaxAlgos : a # algo_ => queues[a] = <<>>
    BY DEF PropsInv, Props!Algos
  <2> QED BY <1>1, <1>7, <2>1 DEF Props!Algos
<1>13. \A x \in Elements(q) : x \in launched /\ x \in Ordered /\ Props!IsLinked(x)
  <2>1. launched \subseteq Ordered
    BY PropsTypes
  <2> QED BY <1>2, <2>1, PropsReady, PropsTypes
<1>14. ReadyIs(q, priority', running', launched', properties_', algo_')
  <2>1. \A x \in Elements(q) : properties_'[x] = algo_'
    BY <1>1, <1>13
  <2> QED BY <1>1, <1>2, <1>13, <2>1, PropsReady DEF ReadyIs
<1> QED BY <1>10, <1>11, <1>12, <1>14 DEF PropsInv, Props!Algos

LEMMA PropsStep ==
    ASSUME PropsInv, Props!PropertiesNext
    PROVE  PropsInv'
BY PropsLaunch, PropsWakeUp, PropsYield, PropsSuspend, PropsSetProperty, PropsSetAlgo
   DEF Props!PropertiesNext

LEMMA PropsSorted == PropsInv => Props!ReadyQueueIsSorted
<1> SUFFICES ASSUME PropsInv PROVE Props!ReadyQueueIsSorted
  OBVIOUS
<1>1. ByPriority(Props!Ready, priority)
  BY PropsReady
<1>2. Props!IsInjective(Props!Ready)
  BY <1>1 DEF ByPriority, Once, Props!IsInjective
<1>3. Props!ToSet(Props!Ready) = Elements(Props!Ready)
  BY DEF Props!ToSet, Elements
<1>4. running \notin Props!ToSet(Props!Ready)
  BY <1>3, PropsReady
<1>5. \A f \in Ordered : Props!IsLinked(f) => f \in Props!ToSet(Props!Ready) /\ properties_[f] = algo_
  BY <1>3, PropsReady, PropsTypes
<1>6. Props!PropertiesTypeOK
  BY DEF PropsInv
<1> QED BY <1>1, <1>2, <1>4, <1>5, <1>6 DEF Props!ReadyQueueIsSorted, ByPriority

\* Whatever happens to a fiber's property, and whenever the algorithm is replaced,
\* the ready queue stays in order.  Only the present algorithm's queue has fibers,
\* and each of them was told of it; so notify() finds a fiber where it is queued,
\* and a sorted queue is handed to the next algorithm as it is.
THEOREM ReadyFibersAreInOrder == ThreadsSpec => []ReadyQueueIsSorted
<1>1. ThreadsInit => PropsInv
  BY PropsStart DEF ThreadsInit
<1>2. PropsInv /\ [ThreadsNext]_threadVars => PropsInv'
  <2> SUFFICES ASSUME PropsInv, [ThreadsNext]_threadVars PROVE PropsInv'
    OBVIOUS
  <2>1. CASE Props!PropertiesNext
    BY <2>1, PropsStep
  <2>2. CASE UNCHANGED propertyVars
    <3>1. /\ algo_' = algo_ /\ queues' = queues /\ running' = running /\ launched' = launched
          /\ properties_' = properties_ /\ priority' = priority
      BY <2>2 DEF propertyVars
    <3> QED BY <3>1 DEF PropsInv, Props!PropertiesTypeOK, Props!Ready, ReadyIs
  <2> QED BY <2>1, <2>2 DEF ThreadsNext, Of, threadVars
<1>3. PropsInv => ReadyQueueIsSorted
  BY PropsSorted DEF ReadyQueueIsSorted
<1> QED BY <1>1, <1>2, <1>3, PTL DEF ThreadsSpec

================================================================================
