----------------------------- MODULE ReactorProofs -----------------------------
(***************************************************************************)
(* Safety of the reactors, for any number of CPUs, any set of tasks and    *)
(* inboxes of any size: no fiber and no call is lost or run twice, answers *)
(* find their callers suspended, and an event loop that ends leaves        *)
(* nothing of its own behind.                                              *)
(***************************************************************************)
EXTENDS Reactor, FiniteSetTheorems, SequenceTheorems, TLAPS

\* No element occurs twice.
Once(s) == \A i, j \in 1 .. Len(s) : s[i] = s[j] => i = j

\* The contexts of r that run or are ready.
Scheduled(r) == Elements(ready[r]) \cup {active[r]}

\* A fiber in one of these is active: it cannot give way before it leaves them.
Busy == {"sending", "calling", "stopping", "finish"}

\* One in these is active or ready.
Runnable == Busy \cup {"body"}

\* What is left of a fiber once it has sent its reply.
Answered == {"dead", "gone"}

\* Each fiber is where its stage says, and only there.
SchedulerInv(r) ==
    /\ Once(ready[r]) /\ active[r] \notin Elements(ready[r])
    /\ Main \in Scheduled(r) /\ Dispatcher \in Scheduled(r)
    /\ \A t \in Tasks :
        /\ t \in Scheduled(r) <=> stage[t] \in Runnable /\ msg[t].to = r
        /\ t \in waiting[r] <=> stage[t] = "waiting" /\ msg[t].to = r
        /\ t \in terminated[r] <=> stage[t] = "dead" /\ msg[t].to = r
        /\ stage[t] \in Busy /\ msg[t].to = r => active[r] = t
    /\ exited[r] => active[r] = Main /\ Fibers(r) = {}

\* An inbox holds the requests sent to r, all of them, and answers to fibers of r.
InboxInv(r) ==
    /\ Once(inbox[r])
    /\ \A t \in Tasks :
        /\ stage[t] = "queued" /\ msg[t].to = r => t \in Elements(inbox[r])
        /\ t \in Elements(inbox[r]) =>
            \/ stage[t] = "queued" /\ msg[t].to = r
            \/ /\ stage[t] \in Answered
               /\ msg[t].kind = "call" /\ msg[msg[t].from].to = r

\* A message that was created is about to be sent by the fiber that created it.
MessagesInv ==
    /\ \A u \in Tasks :
        /\ stage[u] = "unsent" <=> msg[u].kind = "none"
        /\ msg[u].kind \in {"call", "async", "stop"} => msg[u].from \in Tasks
        /\ stage[u] = "finish" => msg[u].kind = "call"
        /\ stage[u] = "created" =>
            msg[u].kind # "app" /\ stage[msg[u].from] = "sending"
    /\ \A u, v \in Tasks :
        stage[u] = "created" /\ stage[v] = "created" /\ msg[u].from = msg[v].from => u = v

\* The call u is on its way, being processed, or on its way back.
Pending(u) ==
    /\ msg[u].kind = "call"
    /\ \/ stage[u] \in Runnable \cup {"queued", "waiting"}
       \/ stage[u] \in Answered /\ \E r \in Reactors : u \in Elements(inbox[r])

\* Calls are pending for callers that are suspended or about to be, one each.
CallsInv ==
    /\ \A u \in Tasks : Pending(u) => stage[msg[u].from] \in {"calling", "waiting"}
    /\ \A u, v \in Tasks : Pending(u) /\ Pending(v) /\ msg[u].from = msg[v].from => u = v
    /\ \A t \in Tasks : stage[t] \in {"calling", "waiting"} =>
        \E u \in Tasks : Pending(u) /\ msg[u].from = t

\* One fiber at a time sends stop messages, and has not sent all of them.
ShutdownInv ==
    /\ IsFiniteSet(Stops) /\ Cardinality(Stops) <= CPUs
    /\ \A t \in Tasks : stage[t] = "stopping" =>
        /\ Stops # {} /\ Cardinality(Stops) < CPUs
        /\ \A u \in Tasks : stage[u] = "stopping" => u = t
        /\ \A u \in Stops : stage[u] # "created"
    /\ \A u, v \in Stops : stage[u] = "created" /\ stage[v] = "created" => u = v

Inv ==
    /\ TypeOK
    /\ \A r \in Reactors : SchedulerInv(r) /\ InboxInv(r)
    /\ MessagesInv /\ CallsInv /\ ShutdownInv

--------------------------------------------------------------------------------
(* Sequences without repetitions *)

LEMMA Constants ==
    /\ Reactors \subseteq Int /\ 0 \in Reactors /\ CPUs \in Nat \ {0} /\ Capacity \in [Reactors -> Nat \ {0}]
    /\ App \in Tasks /\ Main \notin Tasks /\ Dispatcher \notin Tasks /\ NoTask \notin Tasks
    /\ Main # Dispatcher
BY ReactorAssumption DEF Reactors

LEMMA OnceTail ==
    ASSUME NEW S, NEW q \in Seq(S), Once(q), q # <<>>
    PROVE  /\ Head(q) \in S /\ Tail(q) \in Seq(S) /\ Once(Tail(q))
           /\ Head(q) \in Elements(q)
           /\ Elements(Tail(q)) = Elements(q) \ {Head(q)}
<1> DEFINE r == Tail(q)
<1>1. /\ Head(q) \in S /\ r \in Seq(S) /\ Len(r) = Len(q) - 1 /\ Head(q) = q[1]
      /\ \A i \in 1 .. Len(r) : r[i] = q[i + 1]
  BY HeadTailProperties
<1>2. Len(q) \in Nat \ {0}
  BY LenProperties, EmptySeq
<1> HIDE DEF r
<1>3. Once(r)
  BY <1>1, <1>2 DEF Once
<1>4. ASSUME NEW x \in Elements(q), x # Head(q) PROVE x \in Elements(r)
  <2>1. PICK i \in 1 .. Len(q) : q[i] = x
    BY <1>4 DEF Elements
  <2>2. i - 1 \in 1 .. Len(r) /\ r[i - 1] = x
    BY <1>1, <1>2, <1>4, <2>1
  <2> QED BY <2>2 DEF Elements
<1>5. ASSUME NEW x \in Elements(r) PROVE x \in Elements(q) /\ x # Head(q)
  <2>1. PICK i \in 1 .. Len(r) : r[i] = x
    BY <1>5 DEF Elements
  <2>2. i + 1 \in 1 .. Len(q) /\ q[i + 1] = x /\ i + 1 # 1
    BY <1>1, <1>2, <2>1
  <2> QED BY <1>1, <1>2, <2>2 DEF Elements, Once
<1>6. Head(q) \in Elements(q)
  BY <1>1, <1>2 DEF Elements
<1> QED BY <1>1, <1>3, <1>4, <1>5, <1>6 DEF r

LEMMA OnceConcat ==
    ASSUME NEW S, NEW p \in Seq(S), NEW q \in Seq(S), Once(p), Once(q),
           Elements(p) \cap Elements(q) = {}
    PROVE  /\ p \o q \in Seq(S) /\ Once(p \o q)
           /\ Elements(p \o q) = Elements(p) \cup Elements(q)
<1> DEFINE c == p \o q
<1>1. /\ c \in Seq(S) /\ Len(c) = Len(p) + Len(q)
      /\ \A i \in 1 .. Len(p) + Len(q) : c[i] = IF i <= Len(p) THEN p[i] ELSE q[i - Len(p)]
  BY ConcatProperties
<1>2. Len(p) \in Nat /\ Len(q) \in Nat
  BY LenProperties
<1> HIDE DEF c
<1>3. ASSUME NEW i \in 1 .. Len(c) PROVE
        \/ i \in 1 .. Len(p) /\ c[i] = p[i] /\ p[i] \in Elements(p)
        \/ i - Len(p) \in 1 .. Len(q) /\ c[i] = q[i - Len(p)] /\ q[i - Len(p)] \in Elements(q)
  BY <1>1, <1>2 DEF Elements
<1>4. Once(c)
  <2>1. ASSUME NEW i \in 1 .. Len(c), NEW j \in 1 .. Len(c), c[i] = c[j] PROVE i = j
    <3>1. CASE i \in 1 .. Len(p) /\ j \in 1 .. Len(p)
      BY <1>1, <1>2, <2>1, <3>1 DEF Once
    <3>2. CASE i \notin 1 .. Len(p) /\ j \notin 1 .. Len(p)
      <4>1. i - Len(p) \in 1 .. Len(q) /\ j - Len(p) \in 1 .. Len(q)
              /\ q[i - Len(p)] = q[j - Len(p)]
        BY <1>3, <2>1, <3>2
      <4>2. i - Len(p) = j - Len(p)
        BY <4>1 DEF Once
      <4> QED BY <1>1, <1>2, <4>2
    <3>0. \A x \in Elements(p) : x \notin Elements(q)
      OBVIOUS
    <3>3. CASE i \in 1 .. Len(p) /\ j \notin 1 .. Len(p)
      <4>1. c[i] \in Elements(p)
        BY <1>2, <1>3, <3>3
      <4>2. c[j] \in Elements(q)
        BY <1>2, <1>3, <3>3
      <4> QED BY <2>1, <3>0, <4>1, <4>2
    <3>4. CASE i \notin 1 .. Len(p) /\ j \in 1 .. Len(p)
      <4>1. c[j] \in Elements(p)
        BY <1>2, <1>3, <3>4
      <4>2. c[i] \in Elements(q)
        BY <1>2, <1>3, <3>4
      <4> QED BY <2>1, <3>0, <4>1, <4>2
    <3> QED BY <3>1, <3>2, <3>3, <3>4
  <2> QED BY <2>1 DEF Once
<1>5. Elements(p) \subseteq Elements(c)
  BY <1>1, <1>2 DEF Elements
<1>6. Elements(q) \subseteq Elements(c)
  <2>1. ASSUME NEW i \in 1 .. Len(q) PROVE i + Len(p) \in 1 .. Len(c) /\ c[i + Len(p)] = q[i]
    BY <1>1, <1>2, SMTT(30)
  <2> QED BY <2>1 DEF Elements
<1>7. Elements(c) \subseteq Elements(p) \cup Elements(q)
  BY <1>3 DEF Elements
<1> QED BY <1>1, <1>4, <1>5, <1>6, <1>7 DEF c

LEMMA OnceSingle ==
    ASSUME NEW S, NEW e \in S
    PROVE  <<e>> \in Seq(S) /\ Once(<<e>>) /\ Elements(<<e>>) = {e} /\ <<e>> # <<>>
BY DEF Once, Elements

LEMMA OnceEmpty ==
    ASSUME NEW S
    PROVE  <<>> \in Seq(S) /\ Once(<<>>) /\ Elements(<<>>) = {}
BY DEF Once, Elements

LEMMA OnceAppend ==
    ASSUME NEW S, NEW q \in Seq(S), NEW e \in S, Once(q), e \notin Elements(q)
    PROVE  /\ Append(q, e) \in Seq(S) /\ Once(Append(q, e))
           /\ Elements(Append(q, e)) = Elements(q) \cup {e}
           /\ Len(Append(q, e)) = Len(q) + 1
<1>1. /\ Append(q, e) \in Seq(S) /\ Len(Append(q, e)) = Len(q) + 1
      /\ \A i \in 1 .. Len(q) : Append(q, e)[i] = q[i]
      /\ Append(q, e)[Len(q) + 1] = e /\ Len(q) \in Nat
  BY AppendProperties, LenProperties
<1> QED BY <1>1 DEF Once, Elements

LEMMA ElementsOfSeq ==
    ASSUME NEW S, NEW q \in Seq(S)
    PROVE  /\ Elements(q) \subseteq S
           /\ q = <<>> <=> Elements(q) = {}
<1>1. Len(q) \in Nat /\ (q = <<>> <=> Len(q) = 0) /\ \A i \in 1 .. Len(q) : q[i] \in S
  BY LenProperties, ElementOfSeq, EmptySeq
<1> QED BY <1>1 DEF Elements

LEMMA CountOnce ==
    ASSUME NEW S, NEW q \in Seq(S), Once(q)
    PROVE  IsFiniteSet(Elements(q)) /\ Cardinality(Elements(q)) = Len(q)
<1>1. Len(q) \in Nat /\ DOMAIN q = 1 .. Len(q) /\ q \in [1 .. Len(q) -> S]
  BY LenProperties
<1>2. q \in [1 .. Len(q) -> Elements(q)]
  BY <1>1 DEF Elements
<1>3. q \in Bijection(1 .. Len(q), Elements(q))
  BY <1>1, <1>2 DEF Elements, Once, Bijection, Injection, Surjection, IsInjective
<1>4. IsFiniteSet(1 .. Len(q)) /\ Cardinality(1 .. Len(q)) = Len(q)
  BY <1>1, FS_Interval
<1> QED BY <1>3, <1>4, FS_Bijection DEF ExistsBijection

--------------------------------------------------------------------------------
(* Schedulers *)

\* Whatever is resumed, the contexts of the queue are those active or ready next.
LEMMA SwitchingTo ==
    ASSUME TypeOK, NEW r \in Reactors, NEW queue \in Seq(Contexts), Once(queue), queue # <<>>,
           Switch(r, queue)
    PROVE  /\ active' \in [Reactors -> Contexts] /\ ready' \in [Reactors -> Seq(Contexts)]
           /\ \A q \in Reactors : q # r => active'[q] = active[q] /\ ready'[q] = ready[q]
           /\ Once(ready'[r]) /\ active'[r] \notin Elements(ready'[r])
           /\ Elements(ready'[r]) \cup {active'[r]} = Elements(queue)
<1>1. /\ active' = [active EXCEPT ![r] = Head(queue)]
      /\ ready' = [ready EXCEPT ![r] = Tail(queue)]
  BY DEF Switch
<1>2. /\ Head(queue) \in Contexts /\ Tail(queue) \in Seq(Contexts) /\ Once(Tail(queue))
      /\ Head(queue) \in Elements(queue)
      /\ Elements(Tail(queue)) = Elements(queue) \ {Head(queue)}
  BY OnceTail
<1>3. active'[r] = Head(queue) /\ ready'[r] = Tail(queue)
  BY <1>1 DEF TypeOK
<1> QED BY <1>1, <1>2, <1>3 DEF TypeOK

LEMMA Switching ==
    ASSUME TypeOK, NEW r \in Reactors, SchedulerInv(r), NEW back \in Seq(Contexts), Once(back),
           Elements(back) \cap Elements(ready[r]) = {}, ready[r] \o back # <<>>,
           SwitchTo(r, back)
    PROVE  /\ active' \in [Reactors -> Contexts] /\ ready' \in [Reactors -> Seq(Contexts)]
           /\ \A q \in Reactors : q # r => active'[q] = active[q] /\ ready'[q] = ready[q]
           /\ Once(ready'[r]) /\ active'[r] \notin Elements(ready'[r])
           /\ Elements(ready'[r]) \cup {active'[r]} = Elements(ready[r]) \cup Elements(back)
<1> DEFINE queue == ready[r] \o back
<1>1. ready[r] \in Seq(Contexts) /\ Once(ready[r])
  BY DEF TypeOK, SchedulerInv
<1>2. /\ queue \in Seq(Contexts) /\ Once(queue) /\ queue # <<>>
      /\ Elements(queue) = Elements(ready[r]) \cup Elements(back)
  BY <1>1, OnceConcat
<1>3. Switch(r, queue)
  BY DEF SwitchTo
<1> HIDE DEF queue
<1> QED BY <1>2, <1>3, SwitchingTo

\* A scheduler no step has touched is right unless one of its fibers has changed.
LEMMA OtherScheduler ==
    ASSUME NEW q \in Reactors, SchedulerInv(q),
           active'[q] = active[q], ready'[q] = ready[q], waiting'[q] = waiting[q],
           terminated'[q] = terminated[q], exited'[q] = exited[q],
           \A t \in Tasks :
              \/ stage'[t] = stage[t] /\ msg'[t].to = msg[t].to
              \/ /\ stage[t] \in FiberStages => msg[t].to # q
                 /\ stage'[t] \in FiberStages => msg'[t].to # q
    PROVE  SchedulerInv(q)'
<1>1. Scheduled(q)' = Scheduled(q)
  BY DEF Scheduled
<1>2. Busy \subseteq FiberStages /\ Runnable \subseteq FiberStages
        /\ "waiting" \in FiberStages /\ "dead" \in FiberStages
  BY DEF Busy, Runnable, FiberStages
<1>3. Fibers(q)' = Fibers(q)
  BY DEF Fibers
<1> QED BY <1>1, <1>2, <1>3 DEF SchedulerInv

--------------------------------------------------------------------------------
(* Steps that send and deliver nothing *)

\* A step that moves no message and ends no call.
QuietChange(t) ==
    \/ stage'[t] = stage[t]
    \/ stage[t] = "dead" /\ stage'[t] = "gone"
    \/ stage[t] = "calling" /\ stage'[t] = "waiting"
    \/ stage[t] = "body" /\ stage'[t] = "finish" /\ msg[t].kind = "call"
    \/ stage[t] = "body" /\ stage'[t] = "dead" /\ msg[t].kind # "call"

\* The part of the invariant that is not about schedulers.
Rest == (\A r \in Reactors : InboxInv(r)) /\ MessagesInv /\ CallsInv /\ ShutdownInv

LEMMA QuietKeepsRest ==
    ASSUME TypeOK, Rest, UNCHANGED <<inbox, msg>>, \A t \in Tasks : QuietChange(t)
    PROVE  Rest'
<1>1. Stops' = Stops
  BY DEF Stops
<1>2. ASSUME NEW r \in Reactors PROVE InboxInv(r)'
  BY DEF Rest, InboxInv, QuietChange, Answered
<1>3. MessagesInv'
  <2>1. ASSUME NEW u \in Tasks
        PROVE  /\ stage'[u] \in {"unsent", "created", "sending"} \/ stage[u] \in {"unsent", "created", "sending"}
                    => stage'[u] = stage[u]
               /\ stage'[u] = "finish" => stage[u] = "finish" \/ msg[u].kind = "call"
    BY DEF QuietChange
  <2>2. ASSUME NEW u \in Tasks, stage[u] = "created" PROVE msg[u].from \in Tasks
    BY <2>2 DEF TypeOK, Rest, MessagesInv
  <2> QED BY <2>1, <2>2 DEF Rest, MessagesInv
<1>4. ASSUME NEW u \in Tasks
      PROVE  /\ Pending(u)' <=> Pending(u)
             /\ stage'[u] \in {"calling", "waiting"} <=> stage[u] \in {"calling", "waiting"}
  <2>1. stage[u] \in {"calling", "waiting"} <=> stage'[u] \in {"calling", "waiting"}
    BY DEF QuietChange
  <2>2. msg[u].kind = "call" =>
          /\ stage'[u] \in Answered <=> stage[u] \in Answered
          /\ stage'[u] \in Runnable \cup {"queued", "waiting"} <=> stage[u] \in Runnable \cup {"queued", "waiting"}
    BY DEF QuietChange, Runnable, Busy, Answered
  <2> QED BY <2>1, <2>2 DEF Pending
<1>5. CallsInv'
  <2>1. /\ \A u \in Tasks : (Pending(u)' <=> Pending(u))
        /\ \A u \in Tasks : msg'[u] = msg[u]
        /\ \A u \in Tasks : Pending(u) => msg[u].from \in Tasks
    BY <1>4 DEF Rest, MessagesInv, Pending
  <2> QED BY <1>4, <2>1 DEF Rest, CallsInv
<1>6. ShutdownInv'
  <2>1. \A u \in Tasks : /\ stage'[u] = "stopping" <=> stage[u] = "stopping"
                         /\ stage'[u] = "created" <=> stage[u] = "created"
    BY DEF QuietChange
  <2>2. Stops \subseteq Tasks
    BY DEF Stops
  <2> QED BY <1>1, <2>1, <2>2 DEF Rest, ShutdownInv
<1> QED BY <1>2, <1>3, <1>5, <1>6 DEF Rest

LEMMA LeaveLoopKeepsInv ==
    ASSUME Inv, NEW r \in Reactors, LeaveLoop(r)
    PROVE  Inv'
<1>1. TypeOK'
  BY DEF Inv, TypeOK, LeaveLoop
<1>2. ASSUME NEW q \in Reactors PROVE SchedulerInv(q)'
  <2>1. CASE q # r
    BY <2>1, OtherScheduler DEF Inv, LeaveLoop, TypeOK
  <2>2. CASE q = r
    <3>1. Scheduled(r)' = Scheduled(r) /\ Fibers(r)' = Fibers(r) /\ Fibers(r) = {}
      BY DEF LeaveLoop, Scheduled, Fibers, KeepsLooping
    <3> QED BY <2>2, <3>1 DEF Inv, LeaveLoop, SchedulerInv, TypeOK
  <2> QED BY <2>1, <2>2
<1>3. Rest'
  BY QuietKeepsRest DEF Inv, Rest, LeaveLoop, QuietChange
<1> QED BY <1>1, <1>2, <1>3 DEF Inv, Rest

LEMMA DispatchKeepsInv ==
    ASSUME Inv, NEW r \in Reactors, Dispatch(r)
    PROVE  Inv'
<1>1. /\ ready[r] \in Seq(Contexts) /\ SchedulerInv(r) /\ TypeOK /\ active[r] = Dispatcher
      /\ Elements(ready[r]) = Scheduled(r) \ {Dispatcher}
  BY DEF Inv, TypeOK, Dispatch, SchedulerInv, Scheduled
<1>2. ready[r] # <<>>
  BY <1>1, ElementsOfSeq, Constants DEF SchedulerInv, Scheduled
<1>3. /\ Requeued \in Seq(Contexts) /\ Once(Requeued) /\ Elements(Requeued) = {Dispatcher}
      /\ ready[r] \o Requeued # <<>>
  <2>1. Dispatcher \in Contexts
    BY DEF Contexts
  <2>2. Requeued \in Seq(Contexts) /\ Once(Requeued) /\ Elements(Requeued) = {Dispatcher}
    BY <2>1, OnceSingle DEF Requeued
  <2>3. Elements(ready[r] \o Requeued) # {} 
    BY <1>1, <2>2, OnceConcat DEF SchedulerInv
  <2> QED BY <1>1, <2>2, <2>3, OnceEmpty
<1>4. SwitchTo(r, Requeued)
  BY <1>2 DEF Dispatch
<1>5. /\ active' \in [Reactors -> Contexts] /\ ready' \in [Reactors -> Seq(Contexts)]
      /\ \A q \in Reactors : q # r => active'[q] = active[q] /\ ready'[q] = ready[q]
      /\ Once(ready'[r]) /\ active'[r] \notin Elements(ready'[r])
      /\ Scheduled(r)' = Scheduled(r)
  BY <1>1, <1>3, <1>4, Switching DEF Scheduled
<1>6. TypeOK'
  BY <1>5 DEF Inv, TypeOK, Dispatch, Stages
<1>7. \A t \in Tasks :
        /\ t \in terminated[r] <=> stage[t] = "dead" /\ msg[t].to = r
        /\ stage'[t] = IF t \in terminated[r] THEN "gone" ELSE stage[t]
        /\ msg'[t] = msg[t]
  BY <1>1 DEF SchedulerInv, Dispatch, Released
<1>8. ASSUME NEW q \in Reactors, q # r PROVE SchedulerInv(q)'
  <2>1. /\ active'[q] = active[q] /\ ready'[q] = ready[q] /\ waiting'[q] = waiting[q]
        /\ terminated'[q] = terminated[q] /\ exited'[q] = exited[q]
    BY <1>5, <1>8 DEF Dispatch, Inv, TypeOK
  <2>2. \A t \in Tasks :
              \/ stage'[t] = stage[t] /\ msg'[t].to = msg[t].to
              \/ /\ stage[t] \in FiberStages => msg[t].to # q
                 /\ stage'[t] \in FiberStages => msg'[t].to # q
    BY <1>7, <1>8 
  <2> QED BY <2>1, <2>2, OtherScheduler DEF Inv
<1>9. SchedulerInv(r)'
  <2>1. exited[r] = FALSE
    BY <1>1, Constants DEF Inv, TypeOK, SchedulerInv
  <2>2. waiting'[r] = waiting[r] /\ terminated'[r] = {} /\ exited'[r] = exited[r]
    BY DEF Dispatch, Released, Inv, TypeOK
  <2>3. ASSUME NEW t \in Tasks, stage'[t] \in Busy, msg'[t].to = r PROVE active'[r] = t
    BY <1>1, <1>7, <2>3, Constants DEF SchedulerInv, Busy
  <2> QED BY <1>1, <1>5, <1>7, <2>1, <2>2, <2>3 DEF SchedulerInv, Runnable, Busy
<1>10. Rest'
  BY <1>1, <1>7, QuietKeepsRest DEF Inv, Rest, Dispatch, QuietChange
<1> QED BY <1>6, <1>8, <1>9, <1>10 DEF Inv, Rest

--------------------------------------------------------------------------------
(* Steps of fibers *)

\* What is known of the fiber that runs.
LEMMA ActiveTask ==
    ASSUME Inv, NEW r \in Reactors, NEW t, Runs(r, t)
    PROVE  /\ t \in Tasks /\ msg[t].to = r /\ stage[t] \in Runnable
           /\ t # Main /\ t # Dispatcher /\ active[r] = t /\ exited[r] = FALSE
           /\ ready[r] # <<>> /\ ready[r] \in Seq(Contexts)
           /\ t \notin Elements(ready[r])
           /\ Elements(ready[r]) = Scheduled(r) \ {t}
           /\ \A u \in Tasks : msg[u].to = r /\ stage[u] \in Busy => u = t
<1>1. t \in Tasks /\ active[r] = t /\ t \in Scheduled(r)
  BY DEF Runs, Scheduled
<1>2. SchedulerInv(r) /\ ready[r] \in Seq(Contexts) /\ exited[r] \in BOOLEAN
  BY DEF Inv, TypeOK
<1>3. t # Main /\ t # Dispatcher
  BY <1>1, Constants
<1>4. Elements(ready[r]) = Scheduled(r) \ {t} /\ Dispatcher \in Elements(ready[r])
        /\ t \notin Elements(ready[r])
  BY <1>1, <1>2, <1>3 DEF SchedulerInv, Scheduled
<1>5. ready[r] # <<>>
  BY <1>2, <1>4, ElementsOfSeq
<1> QED BY <1>1, <1>2, <1>3, <1>4, <1>5 DEF SchedulerInv

\* The fiber that runs gives way, to come back if it is appended again.
LEMMA TaskSwitches ==
    ASSUME Inv, NEW r \in Reactors, NEW t, Runs(r, t), NEW back \in {<<>>, <<t>>},
           SwitchTo(r, back)
    PROVE  /\ active' \in [Reactors -> Contexts] /\ ready' \in [Reactors -> Seq(Contexts)]
           /\ \A q \in Reactors : q # r => active'[q] = active[q] /\ ready'[q] = ready[q]
           /\ Once(ready'[r]) /\ active'[r] \notin Elements(ready'[r])
           /\ back = <<>> => Scheduled(r)' = Scheduled(r) \ {t}
           /\ back = <<t>> => Scheduled(r)' = Scheduled(r)
<1>1. /\ t \in Contexts /\ t \in Scheduled(r) /\ ready[r] # <<>> /\ ready[r] \in Seq(Contexts)
      /\ Elements(ready[r]) = Scheduled(r) \ {t} /\ SchedulerInv(r) /\ TypeOK
  BY ActiveTask DEF Contexts, Scheduled, Inv
<1>2. /\ <<>> \in Seq(Contexts) /\ Once(<<>>) /\ Elements(<<>>) = {}
      /\ <<t>> \in Seq(Contexts) /\ Once(<<t>>) /\ Elements(<<t>>) = {t} /\ <<t>> # <<>>
  BY <1>1, OnceEmpty, OnceSingle
<1>3. /\ back \in Seq(Contexts) /\ Once(back)
      /\ back = <<>> => Elements(back) = {}
      /\ back = <<t>> => Elements(back) = {t}
      /\ Elements(back) \cap Elements(ready[r]) = {}
  BY <1>1, <1>2
<1>4. ready[r] \o back # <<>>
  <2>1. Elements(ready[r] \o back) = Elements(ready[r]) \cup Elements(back)
    BY <1>1, <1>3, OnceConcat DEF SchedulerInv
  <2>2. Elements(ready[r]) # {}
    BY <1>1, ElementsOfSeq
  <2> QED BY <1>2, <2>1, <2>2
<1>5. /\ active' \in [Reactors -> Contexts] /\ ready' \in [Reactors -> Seq(Contexts)]
      /\ \A q \in Reactors : q # r => active'[q] = active[q] /\ ready'[q] = ready[q]
      /\ Once(ready'[r]) /\ active'[r] \notin Elements(ready'[r])
      /\ Scheduled(r)' = (Scheduled(r) \ {t}) \cup Elements(back)
  BY <1>1, <1>3, <1>4, Switching DEF Scheduled
<1> QED BY <1>1, <1>2, <1>3, <1>5

\* What the fiber of one thread does leaves the other threads' schedulers alone.
LEMMA OthersUndisturbed ==
    ASSUME Inv, NEW r \in Reactors, NEW t, Runs(r, t),
           \A q \in Reactors : q # r =>
               /\ active'[q] = active[q] /\ ready'[q] = ready[q] /\ waiting'[q] = waiting[q]
               /\ terminated'[q] = terminated[q] /\ exited'[q] = exited[q],
           \A u \in Tasks :
               \/ stage'[u] = stage[u] /\ msg'[u].to = msg[u].to
               \/ u = t /\ msg'[u].to = msg[u].to
               \/ stage[u] \notin FiberStages /\ stage'[u] \notin FiberStages,
           NEW q \in Reactors, q # r
    PROVE  SchedulerInv(q)'
<1>1. t \in Tasks /\ msg[t].to = r
  BY ActiveTask
<1>2. \A u \in Tasks :
              \/ stage'[u] = stage[u] /\ msg'[u].to = msg[u].to
              \/ /\ stage[u] \in FiberStages => msg[u].to # q
                 /\ stage'[u] \in FiberStages => msg'[u].to # q
  BY <1>1
<1> QED BY <1>2, OtherScheduler DEF Inv

LEMMA YieldKeepsInv ==
    ASSUME Inv, NEW r \in Reactors, NEW t, Yield(r, t)
    PROVE  Inv'
<1>1. /\ t \in Tasks /\ msg[t].to = r /\ active[r] = t /\ exited[r] = FALSE
      /\ \A u \in Tasks : msg[u].to = r /\ stage[u] \in Busy => u = t
      /\ Runs(r, t) /\ stage[t] = "body"
  BY ActiveTask DEF Yield
<1>2. /\ active' \in [Reactors -> Contexts] /\ ready' \in [Reactors -> Seq(Contexts)]
      /\ \A q \in Reactors : q # r => active'[q] = active[q] /\ ready'[q] = ready[q]
      /\ Once(ready'[r]) /\ active'[r] \notin Elements(ready'[r])
      /\ Scheduled(r)' = Scheduled(r)
  <2>1. <<t>> \in {<<>>, <<t>>} /\ SwitchTo(r, <<t>>)
    BY DEF Yield
  <2> QED BY <1>1, <2>1, TaskSwitches
<1>3. TypeOK'
  BY <1>2 DEF Inv, TypeOK, Yield
<1>4. \A u \in Tasks : stage'[u] = stage[u] /\ msg'[u] = msg[u]
  BY DEF Yield
<1>5. ASSUME NEW q \in Reactors, q # r PROVE SchedulerInv(q)'
  BY <1>1, <1>2, <1>4, <1>5, OthersUndisturbed DEF Yield
<1>6. SchedulerInv(r)'
  <2>1. \A u \in Tasks : msg[u].to = r => stage[u] \notin Busy
    BY <1>1 DEF Busy
  <2>2. waiting' = waiting /\ terminated' = terminated /\ exited' = exited
    BY DEF Yield
  <2> QED BY <1>1, <1>2, <1>4, <2>1, <2>2 DEF SchedulerInv, Inv
<1>7. Rest'
  BY <1>4, QuietKeepsRest DEF Inv, Rest, Yield, QuietChange
<1> QED BY <1>3, <1>5, <1>6, <1>7 DEF Inv, Rest

LEMMA SuspendKeepsInv ==
    ASSUME Inv, NEW r \in Reactors, NEW t, Suspend(r, t)
    PROVE  Inv'
<1>1. /\ t \in Tasks /\ msg[t].to = r /\ active[r] = t /\ exited[r] = FALSE
      /\ \A u \in Tasks : msg[u].to = r /\ stage[u] \in Busy => u = t
      /\ Runs(r, t) /\ stage[t] = "calling" /\ t # Main /\ t # Dispatcher
  BY ActiveTask DEF Suspend
<1>2. /\ active' \in [Reactors -> Contexts] /\ ready' \in [Reactors -> Seq(Contexts)]
      /\ \A q \in Reactors : q # r => active'[q] = active[q] /\ ready'[q] = ready[q]
      /\ Once(ready'[r]) /\ active'[r] \notin Elements(ready'[r])
      /\ Scheduled(r)' = Scheduled(r) \ {t}
  <2>1. <<>> \in {<<>>, <<t>>} /\ SwitchTo(r, <<>>)
    BY DEF Suspend
  <2> QED BY <1>1, <2>1, TaskSwitches
<1>3. TypeOK'
  <2>1. TypeOK /\ UNCHANGED <<inbox, running, exited, terminated, msg, aborted>>
        /\ waiting' = [waiting EXCEPT ![r] = @ \cup {t}] /\ stage' = [stage EXCEPT ![t] = "waiting"]
    BY DEF Inv, Suspend
  <2>2. "waiting" \in Stages
    BY DEF Stages, FiberStages
  <2> QED BY <1>1, <1>2, <2>1, <2>2 DEF TypeOK
<1>4. /\ \A u \in Tasks : u # t => stage'[u] = stage[u]
      /\ stage'[t] = "waiting" /\ msg' = msg
      /\ waiting'[r] = waiting[r] \cup {t}
      /\ \A q \in Reactors : q # r => waiting'[q] = waiting[q]
      /\ terminated' = terminated /\ exited' = exited
  BY <1>1 DEF Suspend, Inv, TypeOK
<1>5. ASSUME NEW q \in Reactors, q # r PROVE SchedulerInv(q)'
  <2>1. \A u \in Tasks :
               \/ stage'[u] = stage[u] /\ msg'[u].to = msg[u].to
               \/ u = t /\ msg'[u].to = msg[u].to
               \/ stage[u] \notin FiberStages /\ stage'[u] \notin FiberStages
    BY <1>4
  <2>2. \A p \in Reactors : p # r =>
            /\ active'[p] = active[p] /\ ready'[p] = ready[p] /\ waiting'[p] = waiting[p]
            /\ terminated'[p] = terminated[p] /\ exited'[p] = exited[p]
    BY <1>2, <1>4
  <2> QED BY <1>1, <1>5, <2>1, <2>2, OthersUndisturbed
<1>6. SchedulerInv(r)'
  <2>1. \A u \in Tasks : msg'[u].to = r => stage'[u] \notin Busy
    BY <1>1, <1>4 DEF Busy
  <2> QED BY <1>1, <1>2, <1>4, <2>1 DEF SchedulerInv, Inv, Runnable, Busy
<1>7. Rest'
  BY <1>1, <1>4, QuietKeepsRest DEF Inv, Rest, Suspend, QuietChange
<1> QED BY <1>3, <1>5, <1>6, <1>7 DEF Inv, Rest

LEMMA EndCallKeepsInv ==
    ASSUME Inv, NEW r \in Reactors, NEW t, EndCall(r, t)
    PROVE  Inv'
<1>1. /\ t \in Tasks /\ msg[t].to = r /\ active[r] = t /\ exited[r] = FALSE
      /\ \A u \in Tasks : msg[u].to = r /\ stage[u] \in Busy => u = t
      /\ Runs(r, t) /\ stage[t] = "body" /\ msg[t].kind = "call"
  BY ActiveTask DEF EndCall
<1>2. TypeOK'
  BY <1>1 DEF Inv, TypeOK, EndCall, Stages, FiberStages
<1>3. /\ \A u \in Tasks : u # t => stage'[u] = stage[u]
      /\ stage'[t] = "finish"
      /\ UNCHANGED <<inbox, active, ready, waiting, terminated, exited, msg>>
  BY <1>1 DEF EndCall, Inv, TypeOK
<1>4. ASSUME NEW q \in Reactors, q # r PROVE SchedulerInv(q)'
  BY <1>1, <1>3, <1>4, OthersUndisturbed
<1>5. SchedulerInv(r)'
  BY <1>1, <1>3 DEF SchedulerInv, Scheduled, Inv, Runnable, Busy
<1>6. Rest'
  BY <1>1, <1>3, QuietKeepsRest DEF Inv, Rest, QuietChange
<1> QED BY <1>2, <1>4, <1>5, <1>6 DEF Inv, Rest

\* What the end of a fiber does to the schedulers.
LEMMA Terminates ==
    ASSUME Inv, NEW r \in Reactors, NEW t, Runs(r, t), Terminate(r, t)
    PROVE  /\ active' \in [Reactors -> Contexts] /\ ready' \in [Reactors -> Seq(Contexts)]
           /\ terminated' \in [Reactors -> SUBSET Tasks] /\ stage' \in [Tasks -> Stages]
           /\ \A q \in Reactors : SchedulerInv(q)'
<1>1. /\ t \in Tasks /\ msg[t].to = r /\ active[r] = t /\ exited[r] = FALSE
      /\ \A u \in Tasks : msg[u].to = r /\ stage[u] \in Busy => u = t
      /\ stage[t] \in Runnable /\ t # Main /\ t # Dispatcher
  BY ActiveTask
<1>2. /\ active' \in [Reactors -> Contexts] /\ ready' \in [Reactors -> Seq(Contexts)]
      /\ \A q \in Reactors : q # r => active'[q] = active[q] /\ ready'[q] = ready[q]
      /\ Once(ready'[r]) /\ active'[r] \notin Elements(ready'[r])
      /\ Scheduled(r)' = Scheduled(r) \ {t}
  <2>1. <<>> \in {<<>>, <<t>>} /\ SwitchTo(r, <<>>)
    BY DEF Terminate
  <2> QED BY <2>1, TaskSwitches
<1>3. /\ \A u \in Tasks : u # t => stage'[u] = stage[u]
      /\ stage'[t] = "dead" /\ msg' = msg
      /\ terminated'[r] = terminated[r] \cup {t}
      /\ \A q \in Reactors : q # r => terminated'[q] = terminated[q]
      /\ waiting' = waiting /\ exited' = exited
      /\ terminated' \in [Reactors -> SUBSET Tasks] /\ stage' \in [Tasks -> Stages]
  BY <1>1 DEF Terminate, Inv, TypeOK, Stages, FiberStages
<1>4. ASSUME NEW q \in Reactors, q # r PROVE SchedulerInv(q)'
  <2>1. Runs(r, t)
    OBVIOUS
  <2> QED BY Inv, <1>2, <1>3, <1>4, <2>1, OthersUndisturbed
<1>5. SchedulerInv(r)'
  <2>1. \A u \in Tasks : msg'[u].to = r => stage'[u] \notin Busy
    BY <1>1, <1>3 DEF Busy
  <2> QED BY <1>1, <1>2, <1>3, <2>1 DEF SchedulerInv, Inv, Runnable, Busy
<1> QED BY <1>2, <1>3, <1>4, <1>5

LEMMA EndOneWayKeepsInv ==
    ASSUME Inv, NEW r \in Reactors, NEW t, EndOneWay(r, t)
    PROVE  Inv'
<1>1. /\ Runs(r, t) /\ Terminate(r, t) /\ t \in Tasks /\ stage[t] = "body"
      /\ msg[t].kind # "call" /\ UNCHANGED <<inbox, msg, exited, waiting>>
  BY ActiveTask DEF EndOneWay, Terminate
<1>2. /\ active' \in [Reactors -> Contexts] /\ ready' \in [Reactors -> Seq(Contexts)]
      /\ terminated' \in [Reactors -> SUBSET Tasks] /\ stage' \in [Tasks -> Stages]
      /\ \A q \in Reactors : SchedulerInv(q)'
  BY <1>1, Terminates
<1>3. running' \in [Reactors -> BOOLEAN] /\ aborted' \in BOOLEAN
  BY DEF EndOneWay, Inv, TypeOK
<1>4. TypeOK'
  BY <1>1, <1>2, <1>3 DEF Inv, TypeOK
<1>5. \A u \in Tasks : QuietChange(u)
  BY <1>1 DEF Terminate, Inv, TypeOK, QuietChange
<1>6. Rest'
  BY <1>1, <1>5, QuietKeepsRest DEF Inv, Rest
<1> QED BY <1>2, <1>4, <1>6 DEF Inv, Rest

--------------------------------------------------------------------------------
(* Messages *)

\* A new message, which the fiber t is about to send.
LEMMA CreateKeepsInv ==
    ASSUME Inv, NEW r \in Reactors, NEW t, NEW to \in Reactors,
           NEW kind \in {"call", "async", "stop"}, Create(r, t, kind, to),
           stage[t] \in {"body", "stopping"},
           kind # "stop" => stage[t] = "body",
           kind = "stop" => stage[t] = "stopping" \/ Stops = {}
    PROVE  Inv'
<1>1. /\ t \in Tasks /\ msg[t].to = r /\ active[r] = t /\ exited[r] = FALSE
      /\ \A u \in Tasks : msg[u].to = r /\ stage[u] \in Busy => u = t
      /\ stage[t] \in Runnable /\ Runs(r, t)
  BY ActiveTask DEF Create
<1>2. PICK n \in Tasks : n = New /\ stage[n] = "unsent" /\ msg[n].kind = "none" /\ n # t
  <2>1. New \in Unsent
    BY DEF Create, New
  <2> QED BY <1>1, <2>1 DEF Unsent, Runnable, Busy, Inv, MessagesInv
<1>3. /\ msg' = [msg EXCEPT ![n] = [kind |-> kind, to |-> to, from |-> t]]
      /\ stage' = [stage EXCEPT ![n] = "created", ![t] = "sending"]
      /\ UNCHANGED <<inbox, running, exited, active, ready, waiting, terminated, aborted>>
  BY <1>2 DEF Create
<1>4. TypeOK'
  BY <1>1, <1>2, <1>3 DEF Inv, TypeOK, Stages, FiberStages
<1>5. /\ msg'[n].kind = kind /\ msg'[n].to = to /\ msg'[n].from = t
      /\ \A u \in Tasks : u # n => msg'[u] = msg[u]
      /\ stage'[n] = "created" /\ stage'[t] = "sending"
      /\ \A u \in Tasks : u # n /\ u # t => stage'[u] = stage[u]
  BY <1>1, <1>2, <1>3 DEF Inv, TypeOK
<1>6. ASSUME NEW q \in Reactors, q # r PROVE SchedulerInv(q)'
  <2>1. \A u \in Tasks :
               \/ stage'[u] = stage[u] /\ msg'[u].to = msg[u].to
               \/ u = t /\ msg'[u].to = msg[u].to
               \/ stage[u] \notin FiberStages /\ stage'[u] \notin FiberStages
    BY <1>2, <1>5 DEF FiberStages
  <2> QED BY <1>1, <1>3, <1>6, <2>1, OthersUndisturbed
<1>7. SchedulerInv(r)'
  <2>1. SchedulerInv(r)
    BY DEF Inv
  <2>2. Scheduled(r)' = Scheduled(r)
    BY <1>3 DEF Scheduled
  <2>3. ASSUME NEW u \in Tasks
        PROVE  /\ u \in Scheduled(r)' <=> stage'[u] \in Runnable /\ msg'[u].to = r
               /\ u \in waiting'[r] <=> stage'[u] = "waiting" /\ msg'[u].to = r
               /\ u \in terminated'[r] <=> stage'[u] = "dead" /\ msg'[u].to = r
               /\ stage'[u] \in Busy /\ msg'[u].to = r => active'[r] = u
    <3>1. CASE u = n
      BY <1>2, <1>3, <1>5, <2>1, <2>2, <3>1 DEF SchedulerInv, Runnable, Busy
    <3>2. CASE u = t
      BY <1>1, <1>2, <1>3, <1>5, <2>1, <2>2, <3>2 DEF SchedulerInv, Runnable, Busy
    <3>3. CASE u # n /\ u # t
      <4>1. stage'[u] = stage[u] /\ msg'[u].to = msg[u].to
        BY <1>5, <3>3
      <4>2. waiting'[r] = waiting[r] /\ terminated'[r] = terminated[r] /\ active'[r] = active[r]
        BY <1>3
      <4> QED BY <2>1, <2>2, <4>1, <4>2 DEF SchedulerInv
    <3> QED BY <3>1, <3>2, <3>3
  <2> QED BY <1>1, <1>3, <2>1, <2>2, <2>3 DEF SchedulerInv
<1>8. /\ \A u \in Tasks : Pending(u) => msg[u].from \in Tasks /\ msg[u].from # n /\ msg[u].from # t
      /\ ~ Pending(n) /\ ~ Pending(n)'
      /\ \A u \in Tasks : u # n => (Pending(u)' <=> Pending(u))
  <2>1. ASSUME NEW u \in Tasks, Pending(u)
        PROVE  msg[u].from \in Tasks /\ msg[u].from # n /\ msg[u].from # t
    BY <1>2, <2>1 DEF Inv, CallsInv, MessagesInv, Pending
  <2>2. ~ Pending(n) /\ ~ Pending(n)'
    BY <1>2, <1>5 DEF Pending, Runnable, Busy, Answered
  <2>3. ASSUME NEW u \in Tasks, u # n PROVE Pending(u)' <=> Pending(u)
    <3>1. stage'[u] = stage[u] \/ (stage[u] \in Runnable /\ stage'[u] \in Runnable)
      <4>1. stage[t] \in Runnable /\ "sending" \in Runnable
        BY <1>1 DEF Runnable, Busy
      <4> QED BY <1>5, <4>1, <2>3
    <3>2. msg'[u] = msg[u] /\ inbox' = inbox
      BY <1>3, <1>5, <2>3
    <3> QED BY <3>1, <3>2 DEF Pending
  <2> QED BY <2>1, <2>2, <2>3
<1>9. ASSUME NEW q \in Reactors PROVE InboxInv(q)'
  <2>1. InboxInv(q)
    BY DEF Inv
  <2>2. ASSUME NEW u \in Tasks, u \in Elements(inbox[q])
        PROVE  \/ stage'[u] = "queued" /\ msg'[u].to = q
               \/ /\ stage'[u] \in Answered
                  /\ msg'[u].kind = "call" /\ msg'[msg'[u].from].to = q
    <3>1. u # n /\ u # t
      BY <1>1, <1>2, <2>1, <2>2 DEF InboxInv, Answered, Runnable, Busy
    <3>2. CASE stage[u] = "queued" /\ msg[u].to = q
      BY <1>5, <3>1, <3>2
    <3>3. CASE stage[u] \in Answered /\ msg[u].kind = "call" /\ msg[msg[u].from].to = q
      <4>1. Pending(u)
        BY <2>2, <3>3 DEF Pending
      <4> QED BY <1>5, <1>8, <3>1, <3>3, <4>1
    <3> QED BY <2>1, <2>2, <3>2, <3>3 DEF InboxInv
  <2>3. ASSUME NEW u \in Tasks, stage'[u] = "queued", msg'[u].to = q PROVE u \in Elements(inbox[q])
    BY <1>5, <2>1, <2>3 DEF InboxInv
  <2> QED BY <1>3, <2>1, <2>2, <2>3 DEF InboxInv
<1>10. MessagesInv'
  <2>1. MessagesInv
    BY DEF Inv
  <2>2. ASSUME NEW u \in Tasks, u # n, stage'[u] = "created"
        PROVE  /\ stage[u] = "created" /\ msg[u].from \in Tasks /\ stage[msg[u].from] = "sending"
               /\ msg[u].from # t /\ msg[u].from # n
    <3>1. stage[u] = "created"
      BY <1>5, <2>2
    <3>2. msg[u].from \in Tasks
      BY <2>1, <3>1 DEF MessagesInv, Inv, TypeOK
    <3> QED BY <1>2, <2>1, <3>1, <3>2 DEF MessagesInv
  <2>3. ASSUME NEW u \in Tasks
        PROVE  /\ stage'[u] = "unsent" <=> msg'[u].kind = "none"
               /\ msg'[u].kind \in {"call", "async", "stop"} => msg'[u].from \in Tasks
               /\ stage'[u] = "finish" => msg'[u].kind = "call"
               /\ stage'[u] = "created" =>
                    msg'[u].kind # "app" /\ stage'[msg'[u].from] = "sending"
    <3>1. CASE u = n
      BY <1>1, <1>5, <3>1
    <3>2. CASE u = t
      BY <1>1, <1>2, <1>5, <2>1, <3>2 DEF MessagesInv, Runnable, Busy
    <3>3. CASE u # n /\ u # t
      BY <1>5, <2>1, <2>2, <3>3 DEF MessagesInv
    <3> QED BY <3>1, <3>2, <3>3
  <2>4. ASSUME NEW u \in Tasks, NEW v \in Tasks, stage'[u] = "created", stage'[v] = "created",
               msg'[u].from = msg'[v].from
        PROVE  u = v
    BY <1>5, <2>1, <2>2, <2>4 DEF MessagesInv
  <2> QED BY <2>3, <2>4 DEF MessagesInv
<1>11. CallsInv'
  <2>1. CallsInv
    BY DEF Inv
  <2>2. ASSUME NEW u \in Tasks, Pending(u)'
        PROVE  Pending(u) /\ u # n /\ stage'[msg'[u].from] \in {"calling", "waiting"}
    BY <1>5, <1>8, <2>1, <2>2 DEF CallsInv
  <2>3. ASSUME NEW u \in Tasks, NEW v \in Tasks, Pending(u)', Pending(v)',
               msg'[u].from = msg'[v].from
        PROVE  u = v
    BY <1>5, <2>1, <2>2, <2>3 DEF CallsInv
  <2>4. ASSUME NEW u \in Tasks, stage'[u] \in {"calling", "waiting"}
        PROVE  \E v \in Tasks : Pending(v)' /\ msg'[v].from = u
    <3>1. stage[u] \in {"calling", "waiting"}
      BY <1>5, <2>4
    <3>2. PICK v \in Tasks : Pending(v) /\ msg[v].from = u
      BY <2>1, <3>1 DEF CallsInv
    <3> QED BY <1>5, <1>8, <3>2
  <2> QED BY <2>2, <2>3, <2>4 DEF CallsInv
<1>12. ShutdownInv'
  <2>1. ShutdownInv
    BY DEF Inv
  <2>2. CASE kind # "stop"
    <3>1. Stops' = Stops
      BY <1>2, <1>5, <2>2 DEF Stops
    <3>2. \A u \in Tasks : u # n =>
            /\ stage'[u] = "stopping" <=> stage[u] = "stopping"
            /\ stage'[u] = "created" <=> stage[u] = "created"
      BY <1>1, <1>5, <2>2 
    <3>3. n \notin Stops /\ stage'[n] # "stopping" /\ Stops \subseteq Tasks
      BY <1>2, <1>5 DEF Stops
    <3> QED BY <2>1, <3>1, <3>2, <3>3 DEF ShutdownInv
  <2>3. CASE kind = "stop"
    <3>1. Stops' = Stops \cup {n} /\ n \notin Stops
      BY <1>2, <1>5, <2>3 DEF Stops
    <3>2. IsFiniteSet(Stops) /\ Cardinality(Stops) \in Nat /\ Cardinality(Stops) <= CPUs
      BY <2>1, FS_CardinalityType DEF ShutdownInv
    <3>3. IsFiniteSet(Stops') /\ Cardinality(Stops') = Cardinality(Stops) + 1
      BY <3>1, <3>2, FS_AddElement
    <3>4. Cardinality(Stops) < CPUs
      BY <2>1, <2>3, <1>1, FS_EmptySet, Constants DEF ShutdownInv
    <3>5. \A u \in Tasks : stage[u] = "stopping" => u = t
      BY <1>1, <2>1, <2>3 DEF ShutdownInv
    <3>6. \A u \in Tasks : stage'[u] # "stopping"
      BY <1>5, <3>5 
    <3>7. \A u \in Stops : stage[u] # "created"
      BY <1>1, <2>1, <2>3 DEF ShutdownInv
    <3>8. \A u \in Stops' : stage'[u] = "created" => u = n
      <4>1. Stops \subseteq Tasks
        BY DEF Stops
      <4> QED BY <1>5, <3>1, <3>7, <4>1
    <3>9. Cardinality(Stops') <= CPUs
      BY <3>2, <3>3, <3>4, Constants
    <3> QED BY <3>3, <3>6, <3>8, <3>9 DEF ShutdownInv
  <2> QED BY <2>2, <2>3
<1> QED BY <1>4, <1>6, <1>7, <1>9, <1>10, <1>11, <1>12 DEF Inv

LEMMA CallsAndShutdownsKeepInv ==
    ASSUME Inv, NEW r \in Reactors, NEW t,
           \/ \E to \in Reactors : RunAt(r, t, to) \/ RunAtAsync(r, t, to)
           \/ Shutdown(r, t)
    PROVE  Inv'
<1>1. CASE \E to \in Reactors : RunAt(r, t, to)
  <2>1. PICK to \in Reactors : RunAt(r, t, to)
    BY <1>1
  <2> QED BY <2>1, CreateKeepsInv DEF RunAt
<1>2. CASE \E to \in Reactors : RunAtAsync(r, t, to)
  <2>1. PICK to \in Reactors : RunAtAsync(r, t, to)
    BY <1>2
  <2> QED BY <2>1, CreateKeepsInv DEF RunAtAsync
<1>3. CASE Shutdown(r, t)
  <2>1. t \in Tasks /\ Create(r, t, "stop", Cardinality(Stops))
          /\ (stage[t] = "stopping" \/ (stage[t] = "body" /\ Stops = {}))
    BY <1>3 DEF Shutdown, Create, Runs
  <2>2. Cardinality(Stops) \in Reactors
    <3>1. Cardinality(Stops) \in Nat /\ Cardinality(Stops) < CPUs
      BY <2>1, Constants, FS_CardinalityType, FS_EmptySet DEF Inv, ShutdownInv
    <3> QED BY <3>1, Constants DEF Reactors
  <2> QED BY <2>1, <2>2, CreateKeepsInv
<1> QED BY <1>1, <1>2, <1>3

\* The message goes into an inbox it was not in, and its sender waits if it calls.
LEMMA SendKeepsInv ==
    ASSUME Inv, NEW r \in Reactors, NEW t, Send(r, t)
    PROVE  Inv'
<1>1. /\ t \in Tasks /\ msg[t].to = r /\ active[r] = t /\ exited[r] = FALSE
      /\ \A u \in Tasks : msg[u].to = r /\ stage[u] \in Busy => u = t
      /\ stage[t] = "sending" /\ Runs(r, t)
  BY ActiveTask DEF Send
<1>2. PICK new \in Tasks :
          /\ stage[new] = "created" /\ msg[new].from = t
          /\ Submit(msg[new].to, new)
          /\ stage' = [stage EXCEPT
                 ![new] = "queued",
                 ![t] = CASE msg[new].kind = "call" -> "calling"
                          [] msg[new].kind = "stop" /\ Cardinality(Stops) < CPUs -> "stopping"
                          [] OTHER -> "body"]
  BY DEF Send
<1>3. PICK to \in Reactors : to = msg[new].to
  BY DEF Inv, TypeOK
<1>4. /\ Len(inbox[to]) < Capacity[to] /\ inbox' = [inbox EXCEPT ![to] = Append(@, new)]
      /\ UNCHANGED <<running, exited, active, ready, waiting, terminated, msg, aborted>>
  BY <1>2, <1>3 DEF Send, Submit, HasRoom, KeepsRunning
<1>5. /\ stage'[new] = "queued" /\ new # t
      /\ stage'[t] \in {"calling", "stopping", "body"}
      /\ stage'[t] = "calling" <=> msg[new].kind = "call"
      /\ stage'[t] = "stopping" => msg[new].kind = "stop" /\ Cardinality(Stops) < CPUs
      /\ \A u \in Tasks : u # new /\ u # t => stage'[u] = stage[u]
  BY <1>1, <1>2 DEF Inv, TypeOK
<1>6. new \notin Elements(inbox[to])
  BY <1>2, <1>3 DEF Inv, InboxInv, Answered
<1>7. /\ inbox'[to] \in Seq(Tasks) /\ Once(inbox'[to]) /\ Len(inbox'[to]) <= Capacity[to]
      /\ Elements(inbox'[to]) = Elements(inbox[to]) \cup {new}
      /\ \A q \in Reactors : q # to => inbox'[q] = inbox[q]
      /\ inbox' \in [Reactors -> Seq(Tasks)]
  <2>1. inbox[to] \in Seq(Tasks) /\ Once(inbox[to]) /\ inbox'[to] = Append(inbox[to], new)
    BY <1>4 DEF Inv, InboxInv, TypeOK
  <2>2. /\ Append(inbox[to], new) \in Seq(Tasks) /\ Once(Append(inbox[to], new))
        /\ Elements(Append(inbox[to], new)) = Elements(inbox[to]) \cup {new}
        /\ Len(Append(inbox[to], new)) = Len(inbox[to]) + 1
    BY <1>6, <2>1, OnceAppend
  <2>3. Len(inbox[to]) \in Nat
    BY <2>1, LenProperties
  <2>4. Len(inbox'[to]) <= Capacity[to]
    <3>1. Capacity[to] \in Nat
      BY Constants
    <3> QED BY <1>4, <2>1, <2>2, <2>3, <3>1
  <2>5. /\ inbox' \in [Reactors -> Seq(Tasks)]
        /\ \A q \in Reactors : q # to => inbox'[q] = inbox[q]
    BY <1>4, <2>1, <2>2 DEF Inv, TypeOK
  <2> QED BY <2>1, <2>2, <2>4, <2>5
<1>8. TypeOK'
  <2>1. stage' \in [Tasks -> Stages]
    BY <1>2, <1>5 DEF Inv, TypeOK, Stages, FiberStages
  <2>2. \A q \in Reactors : Len(inbox'[q]) <= Capacity[q]
    BY <1>7 DEF Inv, TypeOK
  <2> QED BY <1>4, <1>7, <2>1, <2>2 DEF Inv, TypeOK
<1>9. ASSUME NEW q \in Reactors, q # r PROVE SchedulerInv(q)'
  <2>1. \A u \in Tasks :
               \/ stage'[u] = stage[u] /\ msg'[u].to = msg[u].to
               \/ u = t /\ msg'[u].to = msg[u].to
               \/ stage[u] \notin FiberStages /\ stage'[u] \notin FiberStages
    BY <1>2, <1>4, <1>5 DEF FiberStages
  <2> QED BY <1>1, <1>4, <1>9, <2>1, OthersUndisturbed
<1>10. SchedulerInv(r)'
  <2>1. SchedulerInv(r)
    BY DEF Inv
  <2>2. Scheduled(r)' = Scheduled(r)
    BY <1>4 DEF Scheduled
  <2>3. ASSUME NEW u \in Tasks
        PROVE  /\ u \in Scheduled(r)' <=> stage'[u] \in Runnable /\ msg'[u].to = r
               /\ u \in waiting'[r] <=> stage'[u] = "waiting" /\ msg'[u].to = r
               /\ u \in terminated'[r] <=> stage'[u] = "dead" /\ msg'[u].to = r
               /\ stage'[u] \in Busy /\ msg'[u].to = r => active'[r] = u
    <3>1. CASE u = new
      BY <1>2, <1>4, <1>5, <2>1, <2>2, <3>1 DEF SchedulerInv, Runnable, Busy
    <3>2. CASE u = t
      BY <1>1, <1>4, <1>5, <2>1, <2>2, <3>2 DEF SchedulerInv, Runnable, Busy
    <3>3. CASE u # new /\ u # t
      BY <1>4, <1>5, <2>1, <2>2, <3>3 DEF SchedulerInv
    <3> QED BY <3>1, <3>2, <3>3
  <2> QED BY <1>1, <1>4, <2>1, <2>2, <2>3 DEF SchedulerInv
<1>11. ASSUME NEW q \in Reactors PROVE InboxInv(q)'
  <2>1. InboxInv(q) /\ Once(inbox'[q])
    BY <1>7 DEF Inv, InboxInv
  <2>2. ASSUME NEW u \in Tasks, u \in Elements(inbox'[q])
        PROVE  \/ stage'[u] = "queued" /\ msg'[u].to = q
               \/ /\ stage'[u] \in Answered
                  /\ msg'[u].kind = "call" /\ msg'[msg'[u].from].to = q
    <3>1. CASE u = new
      <4>1. q = to
        BY <1>2, <1>7, <2>1, <2>2, <3>1 DEF InboxInv, Answered
      <4> QED BY <1>3, <1>4, <1>5, <3>1, <4>1
    <3>2. CASE u # new
      <4>1. u \in Elements(inbox[q])
        BY <1>7, <2>2, <3>2
      <4>2. u # t
        BY <1>1, <2>1, <4>1 DEF InboxInv, Answered
      <4> QED BY <1>4, <1>5, <2>1, <3>2, <4>1, <4>2 DEF InboxInv
    <3> QED BY <3>1, <3>2
  <2>3. ASSUME NEW u \in Tasks, stage'[u] = "queued", msg'[u].to = q PROVE u \in Elements(inbox'[q])
    BY <1>3, <1>4, <1>5, <1>7, <2>1, <2>3 DEF InboxInv
  <2> QED BY <2>1, <2>2, <2>3 DEF InboxInv
<1>12. MessagesInv'
  <2>1. MessagesInv
    BY DEF Inv
  <2>2. ASSUME NEW u \in Tasks, stage'[u] = "created"
        PROVE  /\ stage[u] = "created" /\ msg[u].from \in Tasks /\ stage[msg[u].from] = "sending"
               /\ msg[u].from # t /\ msg[u].from # new
    <3>1. stage[u] = "created" /\ u # new
      BY <1>5, <2>2
    <3>2. msg[u].from \in Tasks
      BY <2>1, <3>1 DEF MessagesInv, Inv, TypeOK
    <3>3. msg[u].from # t
      BY <1>2, <2>1, <3>1 DEF MessagesInv
    <3> QED BY <1>2, <2>1, <3>1, <3>2, <3>3 DEF MessagesInv
  <2>3. ASSUME NEW u \in Tasks
        PROVE  /\ stage'[u] = "unsent" <=> msg'[u].kind = "none"
               /\ stage'[u] = "finish" => msg'[u].kind = "call"
    <3>1. CASE u = new \/ u = t
      BY <1>1, <1>2, <1>4, <1>5, <2>1, <3>1 DEF MessagesInv
    <3>2. CASE u # new /\ u # t
      BY <1>4, <1>5, <2>1, <3>2 DEF MessagesInv
    <3> QED BY <3>1, <3>2
  <2> QED BY <1>4, <1>5, <2>1, <2>2, <2>3 DEF MessagesInv
<1>13. /\ Pending(new)' <=> msg[new].kind = "call"
       /\ ~ Pending(new)
       /\ \A u \in Tasks : u # new => (Pending(u)' <=> Pending(u))
       /\ \A u \in Tasks : Pending(u) => msg[u].from \in Tasks /\ msg[u].from # new /\ msg[u].from # t
  <2>1. ASSUME NEW u \in Tasks, Pending(u)
        PROVE  msg[u].from \in Tasks /\ msg[u].from # new /\ msg[u].from # t
    BY <1>1, <1>2, <2>1 DEF Inv, CallsInv, MessagesInv, Pending
  <2>2. ~ Pending(new)
    BY <1>2 DEF Pending, Runnable, Busy, Answered
  <2>3. Pending(new)' <=> msg[new].kind = "call"
    BY <1>4, <1>5 DEF Pending, Runnable, Busy, Answered
  <2>4. ASSUME NEW u \in Tasks, u # new PROVE Pending(u)' <=> Pending(u)
    <3>1. stage'[u] = stage[u] \/ (stage[u] \in Runnable /\ stage'[u] \in Runnable)
      <4>1. stage[t] \in Runnable /\ stage'[t] \in Runnable
        BY <1>1, <1>5 DEF Runnable, Busy
      <4> QED BY <1>5, <4>1, <2>4
    <3>2. msg' = msg
      BY <1>4
    <3>3. \A q \in Reactors : u \in Elements(inbox'[q]) <=> u \in Elements(inbox[q])
      BY <1>7, <2>4
    <3> QED BY <3>1, <3>2, <3>3 DEF Pending
  <2> QED BY <2>1, <2>2, <2>3, <2>4
<1>14. CallsInv'
  <2>1. CallsInv
    BY DEF Inv
  <2>2. ASSUME NEW u \in Tasks, Pending(u)'
        PROVE  stage'[msg'[u].from] \in {"calling", "waiting"}
    <3>1. CASE u = new
      BY <1>2, <1>4, <1>5, <1>13, <2>2, <3>1
    <3>2. CASE u # new
      BY <1>4, <1>5, <1>13, <2>1, <2>2, <3>2 DEF CallsInv
    <3> QED BY <3>1, <3>2
  <2>3. ASSUME NEW u \in Tasks, NEW v \in Tasks, Pending(u)', Pending(v)',
               msg'[u].from = msg'[v].from
        PROVE  u = v
    <3>1. CASE u # new /\ v # new
      BY <1>4, <1>13, <2>1, <2>3, <3>1 DEF CallsInv
    <3>2. CASE (u = new) # (v = new)
      BY <1>2, <1>4, <1>13, <2>3, <3>2
    <3> QED BY <3>1, <3>2
  <2>4. ASSUME NEW u \in Tasks, stage'[u] \in {"calling", "waiting"}
        PROVE  \E v \in Tasks : Pending(v)' /\ msg'[v].from = u
    <3>1. CASE u = t
      <4>1. msg[new].kind = "call"
        BY <1>5, <2>4, <3>1
      <4> QED BY <1>2, <1>4, <1>13, <3>1, <4>1
    <3>2. CASE u # t
      <4>1. stage[u] \in {"calling", "waiting"}
        BY <1>5, <2>4, <3>2
      <4>2. PICK v \in Tasks : Pending(v) /\ msg[v].from = u
        BY <2>1, <4>1 DEF CallsInv
      <4> QED BY <1>4, <1>13, <4>2
    <3> QED BY <3>1, <3>2
  <2> QED BY <2>2, <2>3, <2>4 DEF CallsInv
<1>15. ShutdownInv'
  <2>1. ShutdownInv /\ Stops' = Stops /\ Stops \subseteq Tasks
    BY <1>4 DEF Inv, Stops
  <2>2. \A u \in Tasks : stage'[u] = "created" => stage[u] = "created" /\ u # new
    BY <1>5
  <2>3. ASSUME NEW u \in Tasks, stage'[u] = "stopping"
        PROVE  /\ Stops # {} /\ Cardinality(Stops) < CPUs
               /\ \A v \in Tasks : stage'[v] = "stopping" => v = u
               /\ \A v \in Stops : stage'[v] # "created"
    <3>1. CASE stage'[t] = "stopping"
      <4>1. new \in Stops /\ Cardinality(Stops) < CPUs
        BY <1>5, <3>1 DEF Stops
      <4>2. \A v \in Tasks : stage[v] # "stopping"
        BY <1>2, <2>1, <4>1 DEF ShutdownInv
      <4>3. \A v \in Tasks : stage'[v] = "stopping" => v = t
        BY <1>5, <4>2
      <4>4. \A v \in Stops : stage'[v] # "created"
        BY <1>2, <2>1, <2>2, <4>1 DEF ShutdownInv
      <4> QED BY <2>3, <4>1, <4>3, <4>4
    <3>2. CASE stage'[t] # "stopping"
      <4>1. \A v \in Tasks : stage'[v] = "stopping" => stage[v] = "stopping"
        BY <1>5, <3>2
      <4> QED BY <2>1, <2>2, <2>3, <4>1 DEF ShutdownInv
    <3> QED BY <3>1, <3>2
  <2> QED BY <2>1, <2>2, <2>3 DEF ShutdownInv
<1> QED BY <1>8, <1>9, <1>10, <1>11, <1>12, <1>14, <1>15 DEF Inv

\* A call is pending before and after its answer is sent.
LEMMA SendReplyKeepsInv ==
    ASSUME Inv, NEW r \in Reactors, NEW t, SendReply(r, t)
    PROVE  Inv'
<1>1. /\ t \in Tasks /\ stage[t] = "finish" /\ Runs(r, t) /\ Terminate(r, t)
      /\ msg[t].kind = "call" /\ msg[t].from \in Tasks
      /\ UNCHANGED <<running, exited, waiting, msg, aborted>>
  BY ActiveTask DEF SendReply, Terminate, Inv, MessagesInv
<1>2. PICK to \in Reactors : to = msg[msg[t].from].to
  BY <1>1 DEF Inv, TypeOK
<1>3. Len(inbox[to]) < Capacity[to] /\ inbox' = [inbox EXCEPT ![to] = Append(@, t)]
  BY <1>2 DEF SendReply, ReplyTo, Submit, HasRoom
<1>4. /\ active' \in [Reactors -> Contexts] /\ ready' \in [Reactors -> Seq(Contexts)]
      /\ terminated' \in [Reactors -> SUBSET Tasks] /\ stage' \in [Tasks -> Stages]
      /\ \A q \in Reactors : SchedulerInv(q)'
  BY <1>1, Terminates
<1>5. stage'[t] = "dead" /\ \A u \in Tasks : u # t => stage'[u] = stage[u]
  BY <1>1 DEF Terminate, Inv, TypeOK
<1>6. \A q \in Reactors : t \notin Elements(inbox[q])
  BY <1>1 DEF Inv, InboxInv, Answered
<1>7. /\ inbox'[to] \in Seq(Tasks) /\ Once(inbox'[to]) /\ Len(inbox'[to]) <= Capacity[to]
      /\ Elements(inbox'[to]) = Elements(inbox[to]) \cup {t}
      /\ \A q \in Reactors : q # to => inbox'[q] = inbox[q]
      /\ inbox' \in [Reactors -> Seq(Tasks)]
  <2>1. inbox[to] \in Seq(Tasks) /\ Once(inbox[to]) /\ inbox'[to] = Append(inbox[to], t)
    BY <1>3 DEF Inv, InboxInv, TypeOK
  <2>2. /\ Append(inbox[to], t) \in Seq(Tasks) /\ Once(Append(inbox[to], t))
        /\ Elements(Append(inbox[to], t)) = Elements(inbox[to]) \cup {t}
        /\ Len(Append(inbox[to], t)) = Len(inbox[to]) + 1
    BY <1>1, <1>6, <2>1, OnceAppend
  <2>3. Len(inbox[to]) \in Nat
    BY <2>1, LenProperties
  <2>4. Len(inbox'[to]) <= Capacity[to]
    <3>1. Capacity[to] \in Nat
      BY Constants
    <3> QED BY <1>3, <2>1, <2>2, <2>3, <3>1
  <2>5. /\ inbox' \in [Reactors -> Seq(Tasks)]
        /\ \A q \in Reactors : q # to => inbox'[q] = inbox[q]
    BY <1>3, <2>1, <2>2 DEF Inv, TypeOK
  <2> QED BY <2>1, <2>2, <2>4, <2>5
<1>8. TypeOK'
  <2>1. \A q \in Reactors : Len(inbox'[q]) <= Capacity[q]
    BY <1>7 DEF Inv, TypeOK
  <2> QED BY <1>1, <1>4, <1>7, <2>1 DEF Inv, TypeOK
<1>9. ASSUME NEW q \in Reactors PROVE InboxInv(q)'
  <2>1. InboxInv(q) /\ Once(inbox'[q])
    BY <1>7 DEF Inv, InboxInv
  <2>2. ASSUME NEW u \in Tasks, u \in Elements(inbox'[q])
        PROVE  \/ stage'[u] = "queued" /\ msg'[u].to = q
               \/ /\ stage'[u] \in Answered
                  /\ msg'[u].kind = "call" /\ msg'[msg'[u].from].to = q
    <3>1. CASE u = t
      BY <1>1, <1>2, <1>5, <1>6, <1>7, <2>2, <3>1 DEF Answered
    <3>2. CASE u # t
      <4>1. u \in Elements(inbox[q])
        BY <1>7, <2>2, <3>2
      <4> QED BY <1>1, <1>5, <2>1, <3>2, <4>1 DEF InboxInv
    <3> QED BY <3>1, <3>2
  <2>3. ASSUME NEW u \in Tasks, stage'[u] = "queued", msg'[u].to = q PROVE u \in Elements(inbox'[q])
    BY <1>1, <1>5, <1>7, <2>1, <2>3 DEF InboxInv
  <2> QED BY <2>1, <2>2, <2>3 DEF InboxInv
<1>10. MessagesInv'
  <2>1. MessagesInv
    BY DEF Inv
  <2>2. ASSUME NEW u \in Tasks, stage'[u] = "created"
        PROVE  stage[u] = "created" /\ msg'[u].kind # "app" /\ stage'[msg'[u].from] = "sending"
    <3>1. stage[u] = "created"
      BY <1>5, <2>2
    <3>2. msg[u].from \in Tasks
      BY <2>1, <3>1 DEF MessagesInv, Inv, TypeOK
    <3> QED BY <1>1, <1>5, <2>1, <3>1, <3>2 DEF MessagesInv
  <2>3. ASSUME NEW u \in Tasks
        PROVE  /\ stage'[u] = "unsent" <=> msg'[u].kind = "none"
               /\ stage'[u] = "finish" => msg'[u].kind = "call"
    BY <1>1, <1>5, <2>1 DEF MessagesInv
  <2> QED BY <1>1, <2>1, <2>2, <2>3 DEF MessagesInv
<1>11. \A u \in Tasks : Pending(u)' <=> Pending(u)
  <2>1. Pending(t)
    BY <1>1 DEF Pending, Runnable, Busy
  <2>2. Pending(t)'
    BY <1>1, <1>5, <1>7 DEF Pending, Answered
  <2>3. ASSUME NEW u \in Tasks, u # t PROVE Pending(u)' <=> Pending(u)
    <3>1. \A q \in Reactors : u \in Elements(inbox'[q]) <=> u \in Elements(inbox[q])
      BY <1>7, <2>3
    <3> QED BY <1>1, <1>5, <2>3, <3>1 DEF Pending
  <2> QED BY <2>1, <2>2, <2>3
<1>12. CallsInv'
  <2>1. CallsInv
    BY DEF Inv
  <2>2. \A u \in Tasks : stage'[u] \in {"calling", "waiting"} <=> stage[u] \in {"calling", "waiting"}
    BY <1>1, <1>5
  <2>3. \A u \in Tasks : Pending(u) => msg[u].from \in Tasks
    BY DEF Pending, Inv, MessagesInv
  <2>4. msg' = msg
    BY <1>1
  <2> QED BY <1>11, <2>1, <2>2, <2>3, <2>4 DEF CallsInv
<1>13. ShutdownInv'
  <2>1. ShutdownInv /\ Stops' = Stops /\ Stops \subseteq Tasks
    BY <1>1 DEF Inv, Stops
  <2>2. \A u \in Tasks : /\ stage'[u] = "stopping" <=> stage[u] = "stopping"
                         /\ stage'[u] = "created" <=> stage[u] = "created"
    BY <1>1, <1>5
  <2> QED BY <2>1, <2>2 DEF ShutdownInv
<1> QED BY <1>4, <1>8, <1>9, <1>10, <1>12, <1>13 DEF Inv

--------------------------------------------------------------------------------
(* The event loop *)

\* What a turn of the event loop finds in the inbox: requests, and answers whose
\* callers are suspended on this reactor, each once.
LEMMA BatchIsExpected ==
    ASSUME Inv, NEW r \in Reactors, active[r] = Main, NEW t \in Elements(inbox[r])
    PROVE  /\ t \in Tasks /\ ToResume(t) \in Tasks /\ msg[ToResume(t)].to = r
           /\ ~ IsReturn(t) => stage[t] = "queued" /\ ToResume(t) = t
           /\ IsReturn(t) =>
                /\ stage[t] \in Answered /\ Pending(t)
                /\ ToResume(t) = msg[t].from /\ stage[msg[t].from] = "waiting"
<1>1. InboxInv(r) /\ SchedulerInv(r) /\ MessagesInv /\ CallsInv /\ inbox[r] \in Seq(Tasks)
  BY DEF Inv, TypeOK
<1>2. t \in Tasks
  BY <1>1, ElementsOfSeq
<1>3. CASE ~ IsReturn(t)
  BY <1>1, <1>2, <1>3 DEF IsReturn, ToResume, InboxInv, Answered
<1>4. CASE IsReturn(t)
  <2>1. stage[t] \in Answered /\ msg[t].kind = "call" /\ msg[msg[t].from].to = r
    BY <1>1, <1>2, <1>4 DEF IsReturn, InboxInv
  <2>2. Pending(t)
    BY <2>1 DEF Pending
  <2>3. msg[t].from \in Tasks /\ stage[msg[t].from] \in {"calling", "waiting"}
    BY <1>1, <1>2, <2>1, <2>2 DEF MessagesInv, CallsInv
  <2>4. stage[msg[t].from] # "calling"
    BY <1>1, <2>1, <2>3, Constants DEF SchedulerInv, Busy
  <2> QED BY <1>2, <1>4, <2>1, <2>2, <2>3, <2>4 DEF ToResume
<1> QED BY <1>3, <1>4

\* The fibers that a turn makes ready are different ones, and none of them was ready.
LEMMA LoopTurnKeepsInv ==
    ASSUME Inv, NEW r \in Reactors, LoopTurn(r)
    PROVE  Inv'
<1>1. active[r] = Main /\ exited[r] = FALSE
  BY DEF LoopTurn, Inv, TypeOK
<1>2. PICK batch \in Seq(Tasks) : batch = inbox[r] /\ Once(batch)
  BY DEF Inv, TypeOK, InboxInv
<1>3. PICK woken : woken = {ToResume(t) : t \in Elements(batch)}
  OBVIOUS
<1>4. /\ Switch(r, ready[r] \o Readied(batch) \o <<Main>>)
      /\ stage' = [t \in Tasks |-> IF t \in woken THEN "body" ELSE stage[t]]
      /\ waiting' = [waiting EXCEPT ![r] = @ \ woken]
      /\ inbox' = [inbox EXCEPT ![r] = <<>>]
      /\ UNCHANGED <<running, exited, terminated, msg, aborted>>
  BY <1>2, <1>3 DEF LoopTurn
<1>5. \A t \in Elements(batch) :
        /\ t \in Tasks /\ ToResume(t) \in Tasks /\ msg[ToResume(t)].to = r
        /\ ~ IsReturn(t) => stage[t] = "queued" /\ ToResume(t) = t
        /\ IsReturn(t) =>
            /\ stage[t] \in Answered /\ Pending(t)
            /\ ToResume(t) = msg[t].from /\ stage[msg[t].from] = "waiting"
  BY <1>1, <1>2, BatchIsExpected
<1>6. \A w \in woken : w \in Tasks /\ msg[w].to = r /\ stage[w] \in {"queued", "waiting"}
  BY <1>3, <1>5
<1>7. /\ Readied(batch) \in Seq(Contexts) /\ Once(Readied(batch))
      /\ Elements(Readied(batch)) = woken
  <2> DEFINE wakes == Readied(batch)
  <2>1. Len(batch) \in Nat /\ \A i \in 1 .. Len(batch) : batch[i] \in Elements(batch)
    BY LenProperties DEF Elements
  <2>2. wakes \in [1 .. Len(batch) -> Contexts]
    BY <1>5, <2>1 DEF Readied, Contexts
  <2>3. wakes \in Seq(Contexts) /\ Len(wakes) = Len(batch)
    <3>1. wakes \in Seq(Contexts)
      BY <2>1, <2>2, SeqDef
    <3>2. DOMAIN wakes = 1 .. Len(batch) /\ DOMAIN wakes = 1 .. Len(wakes) /\ Len(wakes) \in Nat
      BY <2>2, <3>1, LenProperties
    <3>3. 1 .. Len(batch) = 1 .. Len(wakes)
      BY <3>2
    <3> HIDE DEF wakes
    <3>4. Len(wakes) = Len(batch)
      BY <2>1, <3>2, <3>3, SMTT(20)
    <3> QED BY <3>1, <3>4
  <2>4. \A i \in 1 .. Len(batch) : wakes[i] = ToResume(batch[i])
    BY DEF Readied
  <2> HIDE DEF wakes
  <2>5. ASSUME NEW i \in 1 .. Len(batch), NEW j \in 1 .. Len(batch), wakes[i] = wakes[j]
        PROVE  i = j
    <3>1. ToResume(batch[i]) = ToResume(batch[j])
      BY <2>4, <2>5
    <3>2. batch[i] = batch[j]
      <4>1. CASE IsReturn(batch[i]) /\ IsReturn(batch[j])
        BY <1>5, <2>1, <3>1, <4>1 DEF Inv, CallsInv
      <4>2. CASE ~ IsReturn(batch[i]) /\ ~ IsReturn(batch[j])
        BY <1>5, <2>1, <3>1, <4>2
      <4>3. CASE IsReturn(batch[i]) /\ ~ IsReturn(batch[j])
        BY <1>5, <2>1, <3>1, <4>3
      <4>4. CASE ~ IsReturn(batch[i]) /\ IsReturn(batch[j])
        BY <1>5, <2>1, <3>1, <4>4
      <4> QED BY <4>1, <4>2, <4>3, <4>4
    <3> QED BY <1>2, <3>2 DEF Once
  <2>6. Elements(wakes) = woken
    BY <1>3, <2>3, <2>4 DEF Elements
  <2>7. Once(wakes)
    BY <2>3, <2>5 DEF Once
  <2> QED BY <2>3, <2>6, <2>7 DEF wakes
<1>8. /\ SchedulerInv(r) /\ TypeOK /\ ready[r] \in Seq(Contexts) /\ Once(ready[r])
      /\ Main \notin Elements(ready[r]) /\ Main \notin woken
      /\ Elements(ready[r]) \cap woken = {}
      /\ Scheduled(r) = Elements(ready[r]) \cup {Main}
  <2>1. SchedulerInv(r) /\ TypeOK /\ ready[r] \in Seq(Contexts) /\ Once(ready[r])
    BY DEF Inv, TypeOK, SchedulerInv
  <2>2. Main \notin Elements(ready[r]) /\ Scheduled(r) = Elements(ready[r]) \cup {Main}
    BY <1>1, <2>1 DEF SchedulerInv, Scheduled
  <2>3. Main \notin woken
    BY <1>6, Constants
  <2>4. ASSUME NEW w \in woken PROVE w \notin Elements(ready[r])
    <3>1. stage[w] \notin Runnable /\ w \in Tasks
      BY <1>6 DEF Runnable, Busy
    <3> QED BY <2>1, <3>1 DEF SchedulerInv, Scheduled
  <2> QED BY <2>1, <2>2, <2>3, <2>4
<1>9. /\ active' \in [Reactors -> Contexts] /\ ready' \in [Reactors -> Seq(Contexts)]
      /\ \A q \in Reactors : q # r => active'[q] = active[q] /\ ready'[q] = ready[q]
      /\ Once(ready'[r]) /\ active'[r] \notin Elements(ready'[r])
      /\ Scheduled(r)' = Scheduled(r) \cup woken
  <2> DEFINE head == ready[r] \o Readied(batch)
             last == <<Main>>
             queue == head \o last
  <2>1. head \in Seq(Contexts) /\ Once(head) /\ Elements(head) = Elements(ready[r]) \cup woken
    BY <1>7, <1>8, OnceConcat
  <2> HIDE DEF head
  <2>2. last \in Seq(Contexts) /\ Once(last) /\ Elements(last) = {Main}
    BY OnceSingle DEF Contexts
  <2> HIDE DEF last
  <2>3. /\ queue \in Seq(Contexts) /\ Once(queue)
        /\ Elements(queue) = Elements(ready[r]) \cup woken \cup {Main}
    <3>1. Elements(head) \cap Elements(last) = {}
      BY <1>8, <2>1, <2>2
    <3> QED BY <2>1, <2>2, <3>1, OnceConcat
  <2>4. Switch(r, queue)
    BY <1>4 DEF head, last
  <2> HIDE DEF queue
  <2>5. queue # <<>>
    BY <2>3, ElementsOfSeq
  <2> QED BY <1>8, <2>3, <2>4, <2>5, SwitchingTo DEF Scheduled
<1>10. /\ \A t \in Tasks : t \in woken => stage'[t] = "body"
       /\ \A t \in Tasks : t \notin woken => stage'[t] = stage[t]
       /\ waiting'[r] = waiting[r] \ woken
       /\ \A q \in Reactors : q # r => waiting'[q] = waiting[q] /\ inbox'[q] = inbox[q]
       /\ inbox'[r] = <<>> /\ Elements(inbox'[r]) = {} /\ Once(inbox'[r]) /\ Len(inbox'[r]) = 0
  BY <1>4, OnceEmpty DEF Inv, TypeOK, Elements, Once
<1>11. TypeOK'
  <2>1. inbox' \in [Reactors -> Seq(Tasks)] /\ \A q \in Reactors : Len(inbox'[q]) <= Capacity[q]
    <3>1. inbox' \in [Reactors -> Seq(Tasks)]
      BY <1>4 DEF Inv, TypeOK
    <3>2. ASSUME NEW q \in Reactors PROVE Len(inbox'[q]) <= Capacity[q]
      <4>1. Capacity[q] \in Nat
        BY Constants
      <4> QED BY <1>10, <4>1 DEF Inv, TypeOK
    <3> QED BY <3>1, <3>2
  <2>2. waiting' \in [Reactors -> SUBSET Tasks] /\ stage' \in [Tasks -> Stages]
    BY <1>4 DEF Inv, TypeOK, Stages, FiberStages
  <2> QED BY <1>4, <1>9, <2>1, <2>2 DEF Inv, TypeOK
<1>12. ASSUME NEW q \in Reactors, q # r PROVE SchedulerInv(q)'
  <2>1. \A t \in Tasks :
           \/ stage'[t] = stage[t] /\ msg'[t].to = msg[t].to
           \/ /\ stage[t] \in FiberStages => msg[t].to # q
              /\ stage'[t] \in FiberStages => msg'[t].to # q
    BY <1>4, <1>6, <1>10, <1>12
  <2> QED BY <1>4, <1>9, <1>10, <1>12, <2>1, OtherScheduler DEF Inv
<1>13. SchedulerInv(r)'
  <2>1. \A t \in Tasks : stage[t] \in Busy => msg[t].to # r
    BY <1>1, <1>8, Constants DEF SchedulerInv
  <2>2. "body" \notin Busy /\ "body" \in Runnable
    BY DEF Runnable, Busy
  <2>3. ASSUME NEW t \in Tasks
        PROVE  /\ t \in Scheduled(r)' <=> stage'[t] \in Runnable /\ msg'[t].to = r
               /\ t \in waiting'[r] <=> stage'[t] = "waiting" /\ msg'[t].to = r
               /\ t \in terminated'[r] <=> stage'[t] = "dead" /\ msg'[t].to = r
               /\ stage'[t] \in Busy /\ msg'[t].to = r => active'[r] = t
    <3>1. CASE t \in woken
      BY <1>4, <1>6, <1>8, <1>9, <1>10, <2>2, <3>1 DEF SchedulerInv
    <3>2. CASE t \notin woken
      BY <1>4, <1>8, <1>9, <1>10, <2>1, <3>2 DEF SchedulerInv
    <3> QED BY <3>1, <3>2
  <2>4. Main \in Scheduled(r)' /\ Dispatcher \in Scheduled(r)'
    BY <1>8, <1>9 DEF SchedulerInv
  <2> QED BY <1>1, <1>4, <1>9, <2>3, <2>4 DEF SchedulerInv
<1>14. ASSUME NEW q \in Reactors PROVE InboxInv(q)'
  <2>1. InboxInv(q)
    BY DEF Inv
  <2>2. ASSUME NEW t \in Tasks, stage'[t] = "queued", msg'[t].to = q
        PROVE  t \in Elements(inbox'[q])
    <3>1. stage[t] = "queued" /\ msg[t].to = q /\ t \notin woken
      BY <1>4, <1>10, <2>2
    <3>2. t \in Elements(inbox[q])
      BY <2>1, <3>1 DEF InboxInv
    <3>3. q # r
      <4>1. SUFFICES ASSUME q = r PROVE FALSE
        OBVIOUS
      <4>2. t \in Elements(batch) /\ ~ IsReturn(t)
        BY <1>2, <3>1, <3>2, <4>1 DEF IsReturn
      <4> QED BY <1>3, <1>5, <3>1, <4>2
    <3> QED BY <1>10, <3>2, <3>3
  <2>3. ASSUME NEW t \in Tasks, t \in Elements(inbox'[q])
        PROVE  \/ stage'[t] = "queued" /\ msg'[t].to = q
               \/ /\ stage'[t] \in Answered
                  /\ msg'[t].kind = "call" /\ msg'[msg'[t].from].to = q
    <3>1. q # r /\ t \in Elements(inbox[q])
      BY <1>10, <2>3
    <3>2. t \notin woken
      BY <1>6, <2>1, <3>1 DEF InboxInv, Answered
    <3> QED BY <1>4, <1>10, <2>1, <3>1, <3>2 DEF InboxInv
  <2>4. Once(inbox'[q])
    BY <1>10, <2>1 DEF InboxInv
  <2> QED BY <2>2, <2>3, <2>4 DEF InboxInv
<1>15. \A t \in Tasks : stage'[t] \in {"unsent", "created", "sending", "finish", "stopping", "calling"}
                            \/ stage[t] \in {"unsent", "created", "sending", "finish", "stopping", "calling"}
                        => stage'[t] = stage[t]
  BY <1>6, <1>10
<1>16. MessagesInv'
  <2>1. MessagesInv /\ msg' = msg
    BY <1>4 DEF Inv
  <2>2. ASSUME NEW t \in Tasks, stage'[t] = "created"
        PROVE  /\ stage[t] = "created" /\ msg[t].from \in Tasks /\ stage'[msg[t].from] = "sending"
    <3>1. stage[t] = "created"
      BY <1>15, <2>2
    <3>2. msg[t].from \in Tasks
      BY <2>1, <3>1 DEF MessagesInv, Inv, TypeOK
    <3> QED BY <1>15, <2>1, <3>1, <3>2 DEF MessagesInv
  <2>3. ASSUME NEW t \in Tasks
        PROVE  /\ stage'[t] = "unsent" <=> stage[t] = "unsent"
               /\ stage'[t] = "finish" <=> stage[t] = "finish"
    BY <1>15
  <2> QED BY <2>1, <2>2, <2>3 DEF MessagesInv
<1>17. \A t \in Tasks : Pending(t)' <=> Pending(t) /\ ~ (t \in Elements(batch) /\ IsReturn(t))
  <2>1. ASSUME NEW t \in Tasks, t \in Elements(batch), IsReturn(t)
        PROVE  ~ Pending(t)'
    <3>1. stage[t] \in Answered /\ t \notin woken
      BY <1>5, <1>6, <2>1 DEF Answered
    <3>2. msg[msg[t].from].to = r
      BY <1>5, <2>1
    <3>3. ASSUME NEW q \in Reactors PROVE t \notin Elements(inbox'[q])
      <4>1. CASE q = r
        BY <1>10, <4>1
      <4>2. CASE q # r
        BY <1>10, <3>1, <3>2, <4>2 DEF Inv, InboxInv, Answered
      <4> QED BY <4>1, <4>2
    <3>4. stage'[t] \notin Runnable \cup {"queued", "waiting"}
      BY <1>10, <3>1 DEF Answered, Runnable, Busy
    <3> QED BY <3>3, <3>4 DEF Pending
  <2>2. ASSUME NEW t \in Tasks, ~ (t \in Elements(batch) /\ IsReturn(t))
        PROVE  Pending(t)' <=> Pending(t)
    <3>1. CASE t \in woken
      BY <1>4, <1>6, <1>10, <3>1 DEF Pending, Runnable
    <3>2. CASE t \notin woken /\ stage[t] \in Answered
      <4>1. \A q \in Reactors : t \in Elements(inbox'[q]) <=> t \in Elements(inbox[q])
        BY <1>2, <1>10, <2>2, <3>2 DEF IsReturn, Answered
      <4> QED BY <1>4, <1>10, <3>2, <4>1 DEF Pending
    <3>3. CASE t \notin woken /\ stage[t] \notin Answered
      BY <1>4, <1>10, <3>3 DEF Pending
    <3> QED BY <3>1, <3>2, <3>3
  <2> QED BY <2>1, <2>2
<1>18. CallsInv'
  <2>1. CallsInv /\ msg' = msg /\ MessagesInv
    BY <1>4 DEF Inv
  <2>2. ASSUME NEW u \in Tasks, Pending(u)'
        PROVE  stage'[msg'[u].from] \in {"calling", "waiting"}
    <3>1. Pending(u) /\ ~ (u \in Elements(batch) /\ IsReturn(u)) /\ msg[u].from \in Tasks
            /\ stage[msg[u].from] \in {"calling", "waiting"}
      BY <1>17, <2>1, <2>2 DEF CallsInv, MessagesInv, Pending
    <3>2. msg[u].from \notin woken
      <4>1. SUFFICES ASSUME NEW v \in Elements(batch), msg[u].from = ToResume(v) PROVE FALSE
        BY <1>3
      <4>2. IsReturn(v) /\ Pending(v) /\ msg[v].from = msg[u].from /\ v \in Tasks
        BY <1>5, <3>1, <4>1
      <4> QED BY <2>1, <3>1, <4>2 DEF CallsInv
    <3> QED BY <1>10, <2>1, <3>1, <3>2
  <2>3. ASSUME NEW u \in Tasks, stage'[u] \in {"calling", "waiting"}
        PROVE  \E v \in Tasks : Pending(v)' /\ msg'[v].from = u
    <3>1. stage[u] \in {"calling", "waiting"} /\ u \notin woken
      BY <1>10, <2>3
    <3>2. PICK v \in Tasks : Pending(v) /\ msg[v].from = u
      BY <2>1, <3>1 DEF CallsInv
    <3>3. ~ (v \in Elements(batch) /\ IsReturn(v))
      BY <1>3, <1>5, <3>1, <3>2
    <3> QED BY <1>17, <2>1, <3>2, <3>3
  <2> QED BY <1>17, <2>1, <2>2, <2>3 DEF CallsInv
<1>19. ShutdownInv'
  <2>1. ShutdownInv /\ Stops' = Stops /\ Stops \subseteq Tasks
    BY <1>4 DEF Inv, Stops
  <2>2. \A u \in Tasks : /\ stage'[u] = "stopping" <=> stage[u] = "stopping"
                         /\ stage'[u] = "created" <=> stage[u] = "created"
    BY <1>15
  <2> QED BY <2>1, <2>2 DEF ShutdownInv
<1> QED BY <1>11, <1>12, <1>13, <1>14, <1>16, <1>18, <1>19 DEF Inv

--------------------------------------------------------------------------------
(* The theorems *)

LEMMA InitInv == Init => Inv
<1> SUFFICES ASSUME Init PROVE Inv
  OBVIOUS
<1>1. /\ <<App>> \in Seq(Tasks) /\ Once(<<App>>) /\ Elements(<<App>>) = {App} /\ Len(<<App>>) = 1
      /\ <<>> \in Seq(Tasks) /\ Once(<<>>) /\ Elements(<<>>) = {} /\ Len(<<>>) = 0
      /\ <<Dispatcher>> \in Seq(Contexts) /\ Once(<<Dispatcher>>)
      /\ Elements(<<Dispatcher>>) = {Dispatcher}
  BY Constants DEF Once, Elements, Contexts
<1>2. \A t \in Tasks : stage[t] \in {"queued", "unsent"} /\ (stage[t] = "queued" <=> t = App)
                         /\ msg[t].to = 0 /\ msg[t].from = NoTask /\ msg[t].kind = IF t = App THEN "app" ELSE "none"
  BY DEF Init
<1>3. TypeOK
  <2>1. inbox \in [Reactors -> Seq(Tasks)] /\ \A r \in Reactors : Len(inbox[r]) <= Capacity[r]
    BY <1>1, Constants DEF Init
  <2>2. ready \in [Reactors -> Seq(Contexts)] /\ active \in [Reactors -> Contexts]
    BY <1>1 DEF Init, Contexts
  <2>3. stage \in [Tasks -> Stages] 
    BY DEF Init, Stages
  <2>4. msg \in [Tasks -> [kind : {"none", "app", "call", "async", "stop"},
                          to : Reactors, from : Tasks \cup {NoTask}]]
    BY Constants DEF Init
  <2> QED BY <2>1, <2>2, <2>3, <2>4 DEF Init, TypeOK
<1>4. ASSUME NEW r \in Reactors PROVE SchedulerInv(r)
  <2>1. Scheduled(r) = {Main, Dispatcher} /\ ready[r] = <<Dispatcher>> /\ active[r] = Main
          /\ waiting[r] = {} /\ terminated[r] = {} /\ exited[r] = FALSE
    BY <1>1 DEF Init, Scheduled
  <2>2. \A t \in Tasks : stage[t] \notin Runnable
    BY <1>2 DEF Runnable, Busy
  <2> QED BY <1>1, <1>2, <2>1, <2>2, Constants DEF SchedulerInv, Runnable
<1>5. ASSUME NEW r \in Reactors PROVE InboxInv(r)
  BY <1>1, <1>2, Constants DEF InboxInv, Init
<1>6. MessagesInv
  BY <1>2 DEF MessagesInv
<1>7. CallsInv
  BY <1>2 DEF CallsInv, Pending
<1>8. ShutdownInv
  <2>1. Stops = {}
    BY <1>2 DEF Stops
  <2> QED BY <1>2, <2>1, FS_EmptySet, Constants DEF ShutdownInv
<1> QED BY <1>3, <1>4, <1>5, <1>6, <1>7, <1>8 DEF Inv

LEMMA StepKeepsInv == Inv /\ [Next]_vars => Inv'
<1> SUFFICES ASSUME Inv, [Next]_vars PROVE Inv'
  OBVIOUS
<1>1. CASE UNCHANGED vars
  <2>1. TypeOK'
    BY <1>1 DEF vars, Inv, TypeOK
  <2>2. ASSUME NEW r \in Reactors PROVE SchedulerInv(r)'
    BY <1>1, OtherScheduler DEF vars, Inv
  <2>3. Rest'
    BY <1>1, QuietKeepsRest DEF vars, Inv, Rest, QuietChange
  <2> QED BY <2>1, <2>2, <2>3 DEF Inv, Rest
<1>2. ASSUME NEW r \in Reactors, Step(r) PROVE Inv'
  <2>1. CASE Dispatch(r)
    BY <2>1, DispatchKeepsInv
  <2>2. CASE EventLoop(r)
    BY <2>2, LoopTurnKeepsInv, LeaveLoopKeepsInv DEF EventLoop
  <2>3. ASSUME NEW t \in Tasks, FiberStep(r, t) PROVE Inv'
    BY <2>3, CallsAndShutdownsKeepInv, YieldKeepsInv, SendKeepsInv, SuspendKeepsInv,
       EndCallKeepsInv, EndOneWayKeepsInv, SendReplyKeepsInv DEF FiberStep, UserStep, EndBody
  <2> QED BY <1>2, <2>1, <2>2, <2>3 DEF Step
<1> QED BY <1>1, <1>2 DEF Next

\* Every reachable state of the reactors satisfies the invariant.
THEOREM Invariant == Spec => []Inv
<1> QED BY InitInv, StepKeepsInv, PTL DEF Spec

LEMMA TypesOfInv == Inv => TypeOK
BY DEF Inv

LEMMA ResumeFindsWaitingOfInv == Inv => ResumeFindsWaiting
<1> SUFFICES ASSUME Inv, NEW r \in Reactors, active[r] = Main, NEW t \in Elements(inbox[r]), IsReturn(t)
             PROVE  msg[t].from \in waiting[r]
  BY DEF ResumeFindsWaiting
<1>1. ToResume(t) = msg[t].from /\ msg[t].from \in Tasks /\ msg[msg[t].from].to = r
        /\ stage[msg[t].from] = "waiting"
  BY BatchIsExpected
<1> QED BY <1>1 DEF Inv, SchedulerInv

LEMMA ContextsOfInv == Inv => ContextsAccountedFor
<1> SUFFICES ASSUME Inv, NEW r \in Reactors
             PROVE  /\ Cardinality(Scheduled(r)) = Len(ready[r]) + 1
                    /\ {Main, Dispatcher} \subseteq Scheduled(r)
                    /\ Fibers(r) = (Scheduled(r) \cup waiting[r] \cup terminated[r]) \ {Main, Dispatcher}
                    /\ Scheduled(r) \cap waiting[r] = {}
                    /\ (Scheduled(r) \cup waiting[r]) \cap terminated[r] = {}
  BY DEF ContextsAccountedFor, Inv, Scheduled
<1>1. /\ SchedulerInv(r) /\ ready[r] \in Seq(Contexts) /\ active[r] \in Contexts
      /\ waiting[r] \subseteq Tasks /\ terminated[r] \subseteq Tasks
  BY DEF Inv, TypeOK
<1>2. Scheduled(r) \subseteq Contexts
  BY <1>1, ElementsOfSeq DEF Scheduled
<1>3. Cardinality(Scheduled(r)) = Len(ready[r]) + 1
  <2>1. IsFiniteSet(Elements(ready[r])) /\ Cardinality(Elements(ready[r])) = Len(ready[r])
    BY <1>1, CountOnce DEF SchedulerInv
  <2>2. active[r] \notin Elements(ready[r])
    BY <1>1 DEF SchedulerInv
  <2> QED BY <2>1, <2>2, FS_AddElement DEF Scheduled
<1>4. \A t \in Tasks :
        /\ stage[t] \in FiberStages <=> stage[t] \in Runnable \/ stage[t] = "waiting" \/ stage[t] = "dead"
        /\ ~ (stage[t] \in Runnable /\ stage[t] \in {"waiting", "dead"})
  BY DEF FiberStages, Runnable, Busy
<1>5. \A t \in Tasks :
        /\ t \in Scheduled(r) <=> stage[t] \in Runnable /\ msg[t].to = r
        /\ t \in waiting[r] <=> stage[t] = "waiting" /\ msg[t].to = r
        /\ t \in terminated[r] <=> stage[t] = "dead" /\ msg[t].to = r
  BY <1>1 DEF SchedulerInv
<1>6. \A t : t \in Contexts \ {Main, Dispatcher} <=> t \in Tasks
  BY Constants DEF Contexts
<1>7. ASSUME NEW t
      PROVE  t \in Fibers(r) <=>
                t \in (Scheduled(r) \cup waiting[r] \cup terminated[r]) \ {Main, Dispatcher}
  BY <1>1, <1>2, <1>4, <1>5, <1>6 DEF Fibers
<1>8. Fibers(r) = (Scheduled(r) \cup waiting[r] \cup terminated[r]) \ {Main, Dispatcher}
  BY <1>7
<1>9. /\ Scheduled(r) \cap waiting[r] = {}
      /\ (Scheduled(r) \cup waiting[r]) \cap terminated[r] = {}
  BY <1>1, <1>4, <1>5
<1> QED BY <1>1, <1>3, <1>8, <1>9 DEF SchedulerInv

LEMMA CallsOfInv == Inv => CallsAccountedFor
<1> SUFFICES ASSUME Inv, NEW r \in Reactors, NEW t \in waiting[r]
             PROVE  Cardinality({u \in Tasks :
                      /\ msg[u].kind = "call" /\ msg[u].from = t
                      /\ \/ stage[u] = "queued" /\ u \in Elements(inbox[msg[u].to])
                         \/ stage[u] \in FiberStages \ {"dead"} /\ u \in Fibers(msg[u].to)
                         \/ stage[u] \in {"dead", "gone"} /\ u \in Elements(inbox[r])}) = 1
  BY DEF CallsAccountedFor
<1> DEFINE OnItsWay(u) ==
             /\ msg[u].kind = "call" /\ msg[u].from = t
             /\ \/ stage[u] = "queued" /\ u \in Elements(inbox[msg[u].to])
                \/ stage[u] \in FiberStages \ {"dead"} /\ u \in Fibers(msg[u].to)
                \/ stage[u] \in {"dead", "gone"} /\ u \in Elements(inbox[r])
<1>1. t \in Tasks /\ stage[t] = "waiting" /\ msg[t].to = r
  BY DEF Inv, TypeOK, SchedulerInv
<1>2. PICK call \in Tasks : Pending(call) /\ msg[call].from = t
  BY <1>1 DEF Inv, CallsInv
<1>3. ASSUME NEW u \in Tasks, OnItsWay(u) PROVE u = call
  <2>1. Pending(u)
    BY <1>3 DEF Pending, FiberStages, Runnable, Busy, Answered
  <2> QED BY <1>2, <1>3, <2>1 DEF Inv, CallsInv
<1>4. OnItsWay(call)
  <2>1. msg[call].kind = "call" /\ msg[call].to \in Reactors
    BY <1>2 DEF Pending, Inv, TypeOK
  <2>2. CASE stage[call] = "queued"
    BY <1>2, <2>1, <2>2 DEF Inv, InboxInv
  <2>3. CASE stage[call] \in Runnable \cup {"waiting"}
    BY <1>2, <2>1, <2>3 DEF Fibers, FiberStages, Runnable, Busy
  <2>4. CASE stage[call] \in Answered
    <3>1. PICK q \in Reactors : call \in Elements(inbox[q])
      BY <1>2, <2>4 DEF Pending, Answered, Runnable, Busy
    <3>2. q = r
      BY <1>1, <1>2, <2>4, <3>1 DEF Inv, InboxInv, Answered
    <3> QED BY <1>2, <2>1, <2>4, <3>1, <3>2 DEF Answered
  <2> QED BY <1>2, <2>2, <2>3, <2>4 DEF Pending
<1>5. {u \in Tasks : OnItsWay(u)} = {call}
  BY <1>3, <1>4
<1> HIDE DEF OnItsWay
<1>6. Cardinality({u \in Tasks : OnItsWay(u)}) = 1
  BY <1>5, FS_Singleton
<1> QED BY <1>6 DEF OnItsWay

LEMMA CleanExitOfInv == Inv => CleanExit
<1> SUFFICES ASSUME Inv, NEW r \in Reactors, exited[r]
             PROVE  /\ Fibers(r) = {}
                    /\ \A t \in Elements(inbox[r]) :
                          ~ IsReturn(t) /\ (msg[t].kind = "call" => msg[msg[t].from].to # r)
  BY DEF CleanExit
<1>1. active[r] = Main /\ Fibers(r) = {}
  BY DEF Inv, SchedulerInv
<1>2. ASSUME NEW t \in Elements(inbox[r])
      PROVE  ~ IsReturn(t) /\ (msg[t].kind = "call" => msg[msg[t].from].to # r)
  <2>1. /\ t \in Tasks /\ ToResume(t) \in Tasks /\ msg[ToResume(t)].to = r
        /\ ~ IsReturn(t) => stage[t] = "queued"
        /\ IsReturn(t) => stage[ToResume(t)] = "waiting"
    BY <1>1, BatchIsExpected
  <2>2. ~ IsReturn(t)
    BY <1>1, <2>1 DEF Fibers, FiberStages
  <2>3. ASSUME msg[t].kind = "call" PROVE msg[msg[t].from].to # r
    <3>1. Pending(t)
      BY <2>1, <2>2, <2>3 DEF Pending
    <3>2. msg[t].from \in Tasks /\ stage[msg[t].from] \in FiberStages
      BY <2>1, <2>3, <3>1 DEF Inv, CallsInv, MessagesInv, FiberStages
    <3> QED BY <1>1, <3>2 DEF Fibers
  <2> QED BY <2>2, <2>3
<1> QED BY <1>1, <1>2

\* Every reachable state of the reactors is type-correct.
THEOREM TypeCorrect == Spec => []TypeOK
<1> QED BY Invariant, TypesOfInv, PTL

\* An answer never overtakes the suspension of the fiber it is for: when the event
\* loop resumes a caller, the caller is in the wait queue.
THEOREM AnswersFindCallers == Spec => []ResumeFindsWaiting
<1> QED BY Invariant, ResumeFindsWaitingOfInv, PTL

\* No fiber is lost or scheduled twice, the dispatcher can always run, and the call
\* of a suspended fiber exists exactly once.
THEOREM NothingIsLost == Spec => []FibersAccountedFor
<1>1. Inv => FibersAccountedFor
  BY ContextsOfInv, CallsOfInv DEF FibersAccountedFor
<1> QED BY Invariant, <1>1, PTL

\* A reactor leaves its loop without fibers, unread answers or calls of its own.
THEOREM LoopsEndClean == Spec => []CleanExit
<1> QED BY Invariant, CleanExitOfInv, PTL
================================================================================
