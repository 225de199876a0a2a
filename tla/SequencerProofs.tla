---------------------------- MODULE SequencerProofs ----------------------------
(***************************************************************************)
(* The disruptor's gating, for any number of publishers and processors,    *)
(* any graph of dependencies and any mixture of wait strategies.           *)
(***************************************************************************)
EXTENDS Sequencer, TLAPS

LEMMA ShapeOK ==
    ASSUME TypeOK
    PROVE  /\ ArrangementOK(shape)
           /\ Gates \subseteq Processors
           /\ \A c \in Processors : Tracked(c) \subseteq Processors \cup {Cursor}
<1>1. ArrangementOK(shape)
  BY SequencerAssumption DEF TypeOK
<1>2. shape.gates \subseteq shape.processors /\ shape.processors \subseteq Processors
      /\ shape.dependents \in [Processors -> SUBSET shape.processors]
  BY <1>1 DEF ArrangementOK
<1> QED BY <1>1, <1>2 DEF Gates, Tracked, Dependents

LEMMA Constants ==
    /\ Publishers \cap Processors = {} /\ Cursor \notin Processors
    /\ N \in Nat \ {0}
    /\ MaxBatch \in Nat
    /\ LongMax \in Int
    /\ Sequences \subseteq Int
BY SequencerAssumption DEF Sequences, InitialCursorValue

LEMMA ValueIsInt ==
    ASSUME TypeOK, NEW t \in Threads, NEW s \in left[t]
    PROVE  Value(s) \in Int /\ Least(t, s) \in Int
<1>1. s \in Processors \cup {Cursor}
  BY DEF TypeOK
<1>2. Value(s) \in Int
  BY <1>1 DEF Value, TypeOK
<1>3. low[t] \in Int
  BY DEF TypeOK
<1> QED BY <1>2, <1>3 DEF Least

(***************************************************************************)
(* The steps that several actions consist of.                              *)
(***************************************************************************)

LEMMA ScanTypes ==
    ASSUME TypeOK, NEW t \in Threads, NEW S \in SUBSET (Processors \cup {Cursor}),
           NEW stage \in Stages, StartScan(t, S, stage) \/ EndScan(t, stage)
    PROVE  /\ pc' \in [Threads -> Stages]
           /\ left' \in [Threads -> SUBSET (Processors \cup {Cursor})]
           /\ low' \in [Threads -> Int]
<1>1. LongMax \in Int /\ {} \in SUBSET (Processors \cup {Cursor})
  BY Constants
<1>2. PICK R \in SUBSET (Processors \cup {Cursor}) :
        /\ pc' = [pc EXCEPT ![t] = stage]
        /\ left' = [left EXCEPT ![t] = R]
        /\ low' = [low EXCEPT ![t] = LongMax]
  BY <1>1 DEF StartScan, EndScan, Goes
<1>3. /\ pc \in [Threads -> Stages] /\ left \in [Threads -> SUBSET (Processors \cup {Cursor})]
      /\ low \in [Threads -> Int]
  BY DEF TypeOK
<1>4. pc' \in [Threads -> Stages]
  BY <1>2, <1>3
<1>5. left' \in [Threads -> SUBSET (Processors \cup {Cursor})]
  BY <1>2, <1>3
<1>6. low' \in [Threads -> Int]
  BY <1>1, <1>2, <1>3
<1> QED BY <1>4, <1>5, <1>6

LEMMA ReturnsTypes ==
    ASSUME TypeOK, NEW c \in Processors, NEW v \in Int, Returns(c, v)
    PROVE  TypeOK'
<1> DEFINE stage == IF next[c] <= v THEN "batch" ELSE "idle"
<1>1. c \in Threads /\ stage \in Stages
  BY DEF Threads, Stages
<1>2. available' \in [Processors -> Int]
  BY DEF Returns, TypeOK
<1>3. EndScan(c, stage)
  BY DEF Returns
<1> HIDE DEF stage
<1>4. /\ pc' \in [Threads -> Stages]
      /\ left' \in [Threads -> SUBSET (Processors \cup {Cursor})]
      /\ low' \in [Threads -> Int]
  BY <1>1, <1>3, ScanTypes
<1> QED
  BY <1>2, <1>4 DEF Returns, TypeOK, publishVars

LEMMA StaysTypes ==
    ASSUME TypeOK, NEW c \in Processors, NEW stage \in {"locked", "asleep", "pauses"},
           Stays(c, stage)
    PROVE  TypeOK'
BY DEF TypeOK, Stages, Stays, Goes, publishVars, processVars, Threads

LEMMA ScanAgainTypes ==
    ASSUME TypeOK, NEW c \in Processors, ScanAgain(c)
    PROVE  TypeOK'
<1>1. Tracked(c) \in SUBSET (Processors \cup {Cursor}) /\ c \in Threads
  BY ShapeOK DEF Threads
<1>2. StartScan(c, Tracked(c), "scan") /\ "scan" \in Stages
  BY DEF ScanAgain, Stages
<1> QED
  BY <1>1, <1>2, ScanTypes DEF ScanAgain, TypeOK, publishVars, processVars

(***************************************************************************)
(* The values of the variables are of their types.                         *)
(***************************************************************************)

LEMMA PublisherTypes ==
    ASSUME TypeOK, NEW p \in Publishers,
           \/ Gate(p) \/ Write(p) \/ Publish(p) \/ Signal(p) \/ AnswerCapacity(p)
           \/ AskCapacity(p) \/ \E d \in 1 .. MaxBatch : Claim(p, d)
    PROVE  TypeOK'
<1> USE DEF publishVars, processVars
<1>1. /\ p \in Threads /\ Gates \in SUBSET (Processors \cup {Cursor})
      /\ {"gate", "write", "ask", "idle"} \subseteq Stages
  BY ShapeOK DEF Threads, Stages
<1>2. CASE Gate(p)
  <2>1. StartScan(p, Gates, "gate") \/ EndScan(p, "write")
    BY <1>2 DEF Gate
  <2> QED BY <1>1, <1>2, <2>1, ScanTypes DEF Gate, TypeOK
<1>3. CASE Write(p)
  <2>1. Claims(p) \subseteq Int
    BY DEF Claims
  <2>2. events' \in [0 .. N - 1 -> Int]
    BY <1>3, <2>1 DEF Write, TypeOK
  <2> QED BY <1>1, <1>3, <2>2 DEF Write, TypeOK, Goes, Stages
<1>4. CASE Publish(p)
  <2>1. delta[p] \in Int /\ cursor \in Int
    BY DEF TypeOK
  <2>2. cursor' \in Int
    BY <1>4, <2>1 DEF Publish
  <2> QED BY <1>1, <1>4, <2>2 DEF Publish, TypeOK, Goes, Stages
<1>5. CASE Signal(p)
  <2>1. pc' \in [Threads -> Stages]
    BY <1>1, <1>5 DEF Signal, SignalAllWhenBlocking, TypeOK, Stages
  <2> QED BY <1>5, <2>1 DEF Signal, TypeOK, InitialCursorValue
<1>6. CASE AnswerCapacity(p)
  <2>1. EndScan(p, "idle") /\ lastConsumer' \in Int
    BY <1>6, Constants DEF AnswerCapacity
  <2>2. /\ pc' \in [Threads -> Stages]
        /\ left' \in [Threads -> SUBSET (Processors \cup {Cursor})]
        /\ low' \in [Threads -> Int]
    BY <1>1, <2>1, ScanTypes
  <2>3. roomy' \subseteq Publishers /\ seq' \in [Publishers -> Int]
    BY <1>6 DEF AnswerCapacity, TypeOK, InitialCursorValue
  <2> QED BY <1>6, <2>1, <2>2, <2>3 DEF AnswerCapacity, TypeOK
<1>7. CASE AskCapacity(p)
  <2>1. WrapOfNext \in Int
    BY Constants DEF WrapOfNext, TypeOK
  <2>2. CASE WrapOfNext > lastConsumer
    <3>1. StartScan(p, Gates, "ask")
      BY <1>7, <2>2 DEF AskCapacity
    <3> QED BY <1>1, <1>7, <2>1, <2>2, <3>1, ScanTypes DEF AskCapacity, TypeOK
  <2>3. CASE ~ (WrapOfNext > lastConsumer)
    BY <1>7, <2>3 DEF AskCapacity, TypeOK
  <2> QED BY <2>2, <2>3
<1>8. ASSUME NEW d \in 1 .. MaxBatch, Claim(p, d) PROVE TypeOK'
  <2>1. claimed + d \in Int /\ d \in Int
    BY Constants DEF TypeOK
  <2>2. StartScan(p, Gates, "gate") \/ (Goes(p, "write") /\ UNCHANGED <<left, low>>)
    BY <1>8 DEF Claim
  <2>3. /\ pc' \in [Threads -> Stages]
        /\ left' \in [Threads -> SUBSET (Processors \cup {Cursor})]
        /\ low' \in [Threads -> Int]
    <3>1. CASE StartScan(p, Gates, "gate")
      BY <1>1, <3>1, ScanTypes
    <3>2. CASE Goes(p, "write") /\ UNCHANGED <<left, low>>
      BY <1>1, <3>2 DEF Goes, TypeOK
    <3> QED BY <2>2, <3>1, <3>2
  <2> QED BY <1>8, <2>1, <2>3 DEF Claim, TypeOK
<1> QED BY <1>2, <1>3, <1>4, <1>5, <1>6, <1>7, <1>8

LEMMA ProcessorTypes ==
    ASSUME TypeOK, NEW c \in Processors,
           \/ BeginBatch(c) \/ Found(c) \/ DontWait(c) \/ BusySpin(c) \/ Pause(c) \/ PauseEnds(c)
           \/ SpinOnDependents(c) \/ ReadCursor(c) \/ WaitTimesOut(c) \/ Commit(c)
           \/ WakeSpuriously(c) \/ SetAlerted(c)
    PROVE  TypeOK'
<1>1. Signalled \in Int
  BY DEF Signalled
<1>2. CASE BeginBatch(c)
  <2>1. /\ Tracked(c) \in SUBSET (Processors \cup {Cursor}) /\ c \in Threads
        /\ "scan" \in Stages /\ "cursor" \in Stages
    BY ShapeOK DEF Threads, Stages
  <2>2. sequence[c] + 1 \in Int
    BY DEF TypeOK
  <2>3. next' \in [Processors -> Int]
    BY <1>2, <2>2 DEF BeginBatch, TypeOK
  <2>4. CASE Blocking(c)
    BY <1>2, <2>1, <2>3, <2>4 DEF BeginBatch, TypeOK, publishVars, Goes
  <2>5. CASE ~ Blocking(c)
    <3>1. StartScan(c, Tracked(c), "scan")
      BY <1>2, <2>5 DEF BeginBatch
    <3> QED BY <1>2, <2>1, <2>3, <3>1, ScanTypes DEF BeginBatch, TypeOK, publishVars
  <2> QED BY <2>4, <2>5
<1>3. CASE Found(c)
  BY <1>3, ReturnsTypes, Constants DEF Found
<1>4. CASE DontWait(c) \/ BusySpin(c)
  BY <1>1, <1>4, ReturnsTypes, ScanAgainTypes DEF DontWait, BusySpin
<1>5. CASE Pause(c) \/ PauseEnds(c)
  BY <1>1, <1>5, ReturnsTypes, ScanAgainTypes, StaysTypes DEF Pause, PauseEnds
<1>6. CASE SpinOnDependents(c)
  BY <1>1, <1>6, ReturnsTypes, ScanAgainTypes DEF SpinOnDependents
<1>7. CASE ReadCursor(c)
  <2>1. cursor \in Int
    BY DEF TypeOK
  <2> QED BY <1>1, <1>7, <2>1, ReturnsTypes, ScanAgainTypes, StaysTypes DEF ReadCursor
<1>8. CASE WaitTimesOut(c) \/ WakeSpuriously(c)
  BY <1>1, <1>8, ReturnsTypes, StaysTypes DEF WaitTimesOut, WakeSpuriously
<1>9. CASE Commit(c)
  <2>1. next[c] \in Int /\ next[c] + 1 \in Int /\ c \in Threads /\ "idle" \in Stages
    BY DEF TypeOK, Threads, Stages
  <2>2. next' \in [Processors -> Int]
    BY <1>9, <2>1 DEF Commit, TypeOK
  <2>3. sequence' \in [Processors -> Int] /\ pc' \in [Threads -> Stages]
    BY <1>9, <2>1 DEF Commit, TypeOK, Finished, Goes
  <2> QED BY <1>9, <2>2, <2>3 DEF Commit, TypeOK, publishVars
<1>10. CASE SetAlerted(c)
  BY <1>10, ShapeOK DEF SetAlerted, TypeOK, publishVars
<1> QED BY <1>2, <1>3, <1>4, <1>5, <1>6, <1>7, <1>8, <1>9, <1>10

LEMMA LoadTypes ==
    ASSUME TypeOK, NEW t \in Threads, Load(t)
    PROVE  TypeOK'
<1>1. PICK s \in left[t] :
        /\ left' = [left EXCEPT ![t] = @ \ {s}]
        /\ low' = [low EXCEPT ![t] = Least(t, s)]
        /\ UNCHANGED <<shape, publishVars, processVars, pc>>
  BY DEF Load
<1>2. Least(t, s) \in Int
  BY ValueIsInt
<1> QED BY <1>1, <1>2 DEF TypeOK, publishVars, processVars

\* Everything stays of its type.
THEOREM TypeCorrect == Spec => []TypeOK
<1>1. Init => TypeOK
  BY Constants DEF Init, TypeOK, Stages, Threads, InitialCursorValue
<1>2. TypeOK /\ [Next]_vars => TypeOK'
  <2> SUFFICES ASSUME TypeOK, [Next]_vars PROVE TypeOK'
    OBVIOUS
  <2>1. CASE UNCHANGED vars
    BY <2>1 DEF vars, publishVars, processVars, TypeOK
  <2>2. CASE Next
    BY <2>2, PublisherTypes, ProcessorTypes, LoadTypes DEF Next, Step, Threads
  <2> QED BY <2>1, <2>2
<1> QED BY <1>1, <1>2, PTL DEF Spec

(***************************************************************************)
(* Why a slot is free when it is stored into.                              *)
(***************************************************************************)

GatesPassed(bound) == \A g \in Gates : sequence[g] >= bound

\* The minimum found so far is behind each gate whose sequence was loaded.
ScanIsSound(p) ==
    pc[p] \in {"gate", "ask"} =>
        /\ left[p] \subseteq Gates
        /\ \A g \in Gates \ left[p] : low[p] <= sequence[g]

\* What a publisher was told stays true until it claims, since it is the only
\* one who does.
RoomIsKept(p) ==
    /\ pc[p] # "idle" \/ p \in roomy => p \in shape.publishers
    /\ pc[p] = "ask" => seq[p] = WrapOfNext
    /\ p \in roomy => pc[p] \in {"idle", "ask"}
    /\ p \in roomy /\ pc[p] = "idle" => GatesPassed(WrapOfNext)

PublisherInv(p) ==
    /\ ScanIsSound(p)
    /\ pc[p] = "write" => GatesPassed(WrapPoint(seq[p]))
    /\ ~ shape.multi => RoomIsKept(p)

\* A processor's sequence only grows, and the cached minimum is behind the gates.
Inv ==
    /\ \A c \in Processors : sequence[c] < next[c]
    /\ GatesPassed(lastConsumer)
    /\ \A p \in Publishers : PublisherInv(p)

LEMMA InvInit == Init => Inv
BY SequencerAssumption
DEF Init, Inv, GatesPassed, PublisherInv, ScanIsSound, RoomIsKept, InitialCursorValue,
    ArrangementOK, Gates, Threads

\* A minimum over all gates is behind each of them.
LEMMA MinimumIsPassed ==
    ASSUME TypeOK, Inv, NEW p \in Publishers, NEW stage \in {"gate", "ask"},
           NEW m \in Int, Scanned(p, stage, m)
    PROVE  GatesPassed(m)
<1>1. PICK s \in left[p] : left[p] = {s} /\ m = Least(p, s)
  BY DEF Scanned
<1>2. pc[p] \in {"gate", "ask"}
  BY DEF Scanned
<1>3. /\ left[p] \subseteq Gates
      /\ \A g \in Gates \ left[p] : low[p] <= sequence[g]
  BY <1>2 DEF Inv, PublisherInv, ScanIsSound
<1>4. s \in Processors /\ Value(s) = sequence[s]
  BY <1>1, <1>3, ShapeOK, Constants DEF Value
<1>5. low[p] \in Int /\ \A g \in Gates : sequence[g] \in Int
  BY ShapeOK DEF TypeOK, Threads
<1>6. m <= sequence[s] /\ m <= low[p]
  BY <1>1, <1>3, <1>4, <1>5 DEF Least
<1> QED BY <1>1, <1>3, <1>5, <1>6 DEF GatesPassed

(***************************************************************************)
(* The steps of the others leave alone what a publisher relies on.         *)
(***************************************************************************)

\* What does not change for a publisher while a processor is at work.
Undisturbed ==
    /\ UNCHANGED <<shape, publishVars>>
    /\ \A p \in Publishers : pc'[p] = pc[p] /\ left'[p] = left[p] /\ low'[p] = low[p]
    /\ \A c \in Processors : sequence[c] <= sequence'[c] /\ sequence'[c] < next'[c]

LEMMA UndisturbedKeepsInv ==
    ASSUME TypeOK, TypeOK', Inv, Undisturbed
    PROVE  Inv'
<1>1. /\ Gates' = Gates /\ Gates \subseteq Processors
      /\ lastConsumer' = lastConsumer /\ seq' = seq /\ roomy' = roomy /\ shape' = shape
      /\ claimed' = claimed
  BY ShapeOK DEF Undisturbed, publishVars, Gates
<1>2. \A g \in Gates : sequence[g] \in Int /\ sequence'[g] \in Int /\ sequence[g] <= sequence'[g]
  BY <1>1 DEF Undisturbed, TypeOK
<1>3. ASSUME NEW b \in Int, GatesPassed(b) PROVE GatesPassed(b)'
  BY <1>1, <1>2, <1>3 DEF GatesPassed
<1>4. GatesPassed(lastConsumer)'
  BY <1>1, <1>3 DEF Inv, TypeOK
<1>5. ASSUME NEW p \in Publishers PROVE PublisherInv(p)'
  <2>1. PublisherInv(p) /\ pc'[p] = pc[p] /\ left'[p] = left[p] /\ low'[p] = low[p]
    BY DEF Inv, Undisturbed
  <2>2. ScanIsSound(p)'
    <3>1. low[p] \in Int
      BY DEF TypeOK, Threads
    <3> QED BY <1>1, <1>2, <2>1, <3>1 DEF PublisherInv, ScanIsSound
  <2>3. WrapPoint(seq[p]) \in Int /\ WrapOfNext \in Int
    BY Constants DEF TypeOK, WrapPoint, WrapOfNext
  <2>4. WrapOfNext' = WrapOfNext /\ WrapPoint(seq[p])' = WrapPoint(seq[p])
    BY <1>1 DEF WrapOfNext, WrapPoint
  <2>5. (pc[p] = "write" => GatesPassed(WrapPoint(seq[p])))'
    BY <1>3, <2>1, <2>3, <2>4 DEF PublisherInv, GatesPassed
  <2>6. (~ shape.multi => RoomIsKept(p))'
    BY <1>1, <1>3, <2>1, <2>3, <2>4 DEF PublisherInv, RoomIsKept, GatesPassed
  <2> QED BY <2>2, <2>5, <2>6 DEF PublisherInv
<1> QED BY <1>4, <1>5 DEF Inv, Undisturbed

LEMMA ProcessorIsQuiet ==
    ASSUME TypeOK, Inv, NEW c \in Processors,
           \/ Load(c)
           \/ BeginBatch(c) \/ Found(c) \/ DontWait(c) \/ BusySpin(c) \/ Pause(c) \/ PauseEnds(c)
           \/ SpinOnDependents(c) \/ ReadCursor(c) \/ WaitTimesOut(c) \/ Commit(c)
           \/ WakeSpuriously(c) \/ SetAlerted(c)
    PROVE  Undisturbed
<1>1. c \notin Publishers
  BY Constants
<1>2. \A d \in Processors : sequence[d] \in Int /\ next[d] \in Int /\ sequence[d] < next[d]
  BY DEF TypeOK, Inv
<1>3. ASSUME NEW stage, Goes(c, stage)
      PROVE  \A p \in Publishers : pc'[p] = pc[p]
  BY <1>1, <1>3 DEF Goes, TypeOK, Threads
<1>4. ASSUME NEW stage, NEW S, StartScan(c, S, stage) \/ EndScan(c, stage)
      PROVE  \A p \in Publishers : pc'[p] = pc[p] /\ left'[p] = left[p] /\ low'[p] = low[p]
  BY <1>1, <1>3, <1>4 DEF StartScan, EndScan, TypeOK, Threads
<1>5. ASSUME NEW v, Returns(c, v) PROVE Undisturbed
  BY <1>2, <1>4, <1>5 DEF Returns, Undisturbed
<1>6. ASSUME NEW stage, Stays(c, stage) PROVE Undisturbed
  BY <1>2, <1>3, <1>6 DEF Stays, Undisturbed, processVars
<1>7. ASSUME ScanAgain(c) PROVE Undisturbed
  BY <1>2, <1>4, <1>7 DEF ScanAgain, Undisturbed, processVars
<1>8. CASE Load(c)
  BY <1>1, <1>2, <1>8 DEF Load, Undisturbed, processVars, TypeOK, Threads
<1>9. CASE BeginBatch(c)
  <2>1. \A d \in Processors : sequence'[d] = sequence[d] /\ sequence[d] < next'[d]
    BY <1>2, <1>9 DEF BeginBatch, TypeOK
  <2>2. \A p \in Publishers : pc'[p] = pc[p] /\ left'[p] = left[p] /\ low'[p] = low[p]
    BY <1>3, <1>4, <1>9 DEF BeginBatch
  <2> QED BY <1>2, <1>9, <2>1, <2>2 DEF BeginBatch, Undisturbed
<1>10. CASE Found(c) \/ DontWait(c) \/ BusySpin(c) \/ SpinOnDependents(c)
  BY <1>5, <1>7, <1>10 DEF Found, DontWait, BusySpin, SpinOnDependents
<1>11. CASE Pause(c) \/ PauseEnds(c) \/ WaitTimesOut(c) \/ WakeSpuriously(c)
  BY <1>5, <1>6, <1>7, <1>11 DEF Pause, PauseEnds, WaitTimesOut, WakeSpuriously
<1>12. CASE ReadCursor(c)
  BY <1>5, <1>6, <1>7, <1>12 DEF ReadCursor
<1>13. CASE Commit(c)
  <2>1. \A d \in Processors : sequence[d] <= sequence'[d] /\ sequence'[d] < next'[d]
    BY <1>2, <1>13 DEF Commit, Finished, TypeOK
  <2>2. \A p \in Publishers : pc'[p] = pc[p]
    BY <1>3, <1>13 DEF Commit
  <2> QED BY <1>13, <2>1, <2>2 DEF Commit, Undisturbed
<1>14. CASE SetAlerted(c)
  BY <1>2, <1>14 DEF SetAlerted, Undisturbed
<1> QED BY <1>8, <1>9, <1>10, <1>11, <1>12, <1>13, <1>14

(***************************************************************************)
(* The steps of a publisher.                                               *)
(***************************************************************************)

\* What a step of another publisher leaves of q's state.
LEMMA OtherPublisher ==
    ASSUME TypeOK, Inv, NEW p \in Publishers, NEW q \in Publishers, p # q,
           UNCHANGED <<shape, sequence>>,
           left'[q] = left[q], low'[q] = low[q], seq'[q] = seq[q],
           q \in roomy' <=> q \in roomy,
           pc'[q] = pc[q] \/ (pc[q] = "asleep" /\ pc'[q] = "locked"),
           claimed' = claimed \/ (p \in shape.publishers)
    PROVE  PublisherInv(q)'
<1>1. PublisherInv(q) /\ Gates' = Gates
  BY DEF Inv, Gates
<1>2. ScanIsSound(q)'
  BY <1>1 DEF PublisherInv, ScanIsSound
<1>3. (pc[q] = "write" => GatesPassed(WrapPoint(seq[q])))'
  BY <1>1 DEF PublisherInv, GatesPassed, WrapPoint
<1>4. ASSUME ~ shape.multi PROVE RoomIsKept(q)'
  <2>1. RoomIsKept(q)
    BY <1>1, <1>4 DEF PublisherInv
  <2>2. CASE claimed' = claimed
    BY <1>1, <2>1, <2>2 DEF RoomIsKept, GatesPassed, WrapOfNext
  <2>3. CASE p \in shape.publishers
    <3>1. q \notin shape.publishers
      BY <1>4, <2>3, ShapeOK DEF ArrangementOK
    <3> QED BY <2>1, <3>1 DEF RoomIsKept
  <2> QED BY <2>2, <2>3
<1> QED BY <1>2, <1>3, <1>4 DEF PublisherInv

LEMMA LoadKeepsInv ==
    ASSUME TypeOK, Inv, NEW p \in Publishers, Load(p)
    PROVE  Inv'
<1>1. PICK s \in left[p] :
        /\ left' = [left EXCEPT ![p] = @ \ {s}]
        /\ low' = [low EXCEPT ![p] = Least(p, s)]
        /\ UNCHANGED <<shape, publishVars, processVars, pc>>
  BY DEF Load
<1>2. p \in Threads /\ left'[p] = left[p] \ {s} /\ low'[p] = Least(p, s)
  BY <1>1 DEF TypeOK, Threads
<1>3. \A q \in Publishers \ {p} : PublisherInv(q)'
  BY <1>1, OtherPublisher DEF publishVars, processVars, TypeOK, Threads
<1>4. ScanIsSound(p)'
  <2> SUFFICES ASSUME pc[p] \in {"gate", "ask"}
               PROVE  /\ left'[p] \subseteq Gates
                      /\ \A g \in Gates \ left'[p] : low'[p] <= sequence[g]
    BY <1>1 DEF ScanIsSound, Gates, processVars
  <2>1. /\ left[p] \subseteq Gates
        /\ \A g \in Gates \ left[p] : low[p] <= sequence[g]
    BY DEF Inv, PublisherInv, ScanIsSound
  <2>2. s \in Processors /\ Value(s) = sequence[s]
    BY <2>1, ShapeOK, Constants DEF Value
  <2>3. low[p] \in Int /\ \A g \in Gates : sequence[g] \in Int
    BY <1>2, ShapeOK DEF TypeOK
  <2>4. Least(p, s) <= low[p] /\ Least(p, s) <= sequence[s] /\ Least(p, s) \in Int
    BY <2>1, <2>2, <2>3 DEF Least
  <2> QED BY <1>2, <2>1, <2>3, <2>4
<1>5. PublisherInv(p)'
  BY <1>1, <1>4 DEF Inv, PublisherInv, RoomIsKept, GatesPassed, WrapPoint, WrapOfNext, Gates,
                   publishVars, processVars
<1> QED
  BY <1>1, <1>3, <1>5 DEF Inv, GatesPassed, Gates, publishVars, processVars

LEMMA GateKeepsInv ==
    ASSUME TypeOK, Inv, NEW p \in Publishers, Gate(p)
    PROVE  Inv'
<1> USE DEF publishVars, processVars
<1>1. PICK m \in Sequences :
        /\ Scanned(p, "gate", m)
        /\ IF m < WrapPoint(seq[p]) THEN StartScan(p, Gates, "gate") ELSE EndScan(p, "write")
        /\ UNCHANGED <<shape, publishVars, processVars>>
  BY DEF Gate
<1>2. m \in Int /\ WrapPoint(seq[p]) \in Int /\ pc[p] = "gate" /\ p \in Threads
  BY <1>1, Constants DEF TypeOK, WrapPoint, Scanned, Threads
<1>3. GatesPassed(m)
  BY <1>1, <1>2, MinimumIsPassed
<1>4. \A g \in Gates : sequence[g] \in Int
  BY ShapeOK DEF TypeOK
<1>5. \A q \in Publishers \ {p} : PublisherInv(q)'
  BY <1>1, <1>2, OtherPublisher DEF StartScan, EndScan, Goes, TypeOK, Threads
<1>6. PublisherInv(p)
  BY DEF Inv
<1>7. PublisherInv(p)'
  <2>1. CASE m < WrapPoint(seq[p])
    <3>1. pc'[p] = "gate" /\ left'[p] = Gates
      BY <1>1, <1>2, <2>1 DEF StartScan, Goes, TypeOK
    <3> QED
      BY <1>1, <1>2, <1>6, <3>1 DEF PublisherInv, ScanIsSound, RoomIsKept, Gates
  <2>2. CASE ~ (m < WrapPoint(seq[p]))
    <3>1. pc'[p] = "write"
      BY <1>1, <1>2, <2>2 DEF EndScan, Goes, TypeOK
    <3>2. GatesPassed(WrapPoint(seq[p]))
      BY <1>2, <1>3, <1>4, <2>2 DEF GatesPassed
    <3> QED
      BY <1>1, <1>2, <1>6, <3>1, <3>2
      DEF PublisherInv, ScanIsSound, RoomIsKept, Gates, GatesPassed, WrapPoint
  <2> QED BY <2>1, <2>2
<1> QED BY <1>1, <1>5, <1>7 DEF Inv, GatesPassed, Gates

LEMMA WriteToSignalKeepInv ==
    ASSUME TypeOK, Inv, NEW p \in Publishers, Write(p) \/ Publish(p) \/ Signal(p)
    PROVE  Inv'
<1>1. /\ pc[p] \in {"write", "publish", "signal"} /\ p \in Threads
      /\ pc'[p] \in {"publish", "signal", "idle"}
      /\ pc'[p] = "idle" <=> pc[p] = "signal"
      /\ UNCHANGED <<shape, claimed, lastConsumer, roomy, processVars, left, low>>
  BY DEF Write, Publish, Signal, SignalAllWhenBlocking, Goes, TypeOK, Threads
<1>2. ASSUME NEW q \in Publishers \ {p}
      PROVE  /\ pc'[q] = pc[q] \/ (pc[q] = "asleep" /\ pc'[q] = "locked")
             /\ seq'[q] = seq[q]
  BY <1>2 DEF Write, Publish, Signal, SignalAllWhenBlocking, Goes, TypeOK, Threads
<1>3. \A q \in Publishers \ {p} : PublisherInv(q)'
  BY <1>1, <1>2, OtherPublisher DEF processVars
<1>4. PublisherInv(p)'
  BY <1>1 DEF Inv, PublisherInv, ScanIsSound, RoomIsKept
<1> QED BY <1>1, <1>3, <1>4 DEF Inv, GatesPassed, Gates, processVars

LEMMA AskKeepsInv ==
    ASSUME TypeOK, Inv, NEW p \in Publishers, AskCapacity(p)
    PROVE  Inv'
<1> USE DEF processVars
<1>1. /\ pc[p] = "idle" /\ p \in shape.publishers /\ p \in Threads
      /\ UNCHANGED <<shape, claimed, lastConsumer, sequence, next>>
  BY DEF AskCapacity, Threads
<1>2. WrapOfNext \in Int /\ WrapOfNext' = WrapOfNext /\ lastConsumer \in Int
  BY <1>1, Constants DEF TypeOK, WrapOfNext
<1>3. \A g \in Gates : sequence[g] \in Int /\ sequence[g] >= lastConsumer
  BY ShapeOK DEF TypeOK, Inv, GatesPassed
<1>4. \A q \in Publishers \ {p} : PublisherInv(q)'
  BY <1>1, OtherPublisher DEF AskCapacity, StartScan, Goes, TypeOK, Threads
<1>5. PublisherInv(p)'
  <2>1. CASE WrapOfNext > lastConsumer
    <3>1. pc'[p] = "ask" /\ left'[p] = Gates /\ seq'[p] = WrapOfNext
      BY <1>1, <2>1 DEF AskCapacity, StartScan, Goes, TypeOK
    <3> QED BY <1>1, <1>2, <3>1 DEF PublisherInv, ScanIsSound, RoomIsKept, Gates
  <2>2. CASE ~ (WrapOfNext > lastConsumer)
    <3>1. pc'[p] = "idle"
      BY <1>1, <2>2 DEF AskCapacity
    <3>2. GatesPassed(WrapOfNext)'
      BY <1>1, <1>2, <1>3, <2>2 DEF GatesPassed, Gates
    <3> QED BY <1>1, <3>1, <3>2 DEF PublisherInv, ScanIsSound, RoomIsKept
  <2> QED BY <2>1, <2>2
<1> QED BY <1>1, <1>4, <1>5 DEF Inv, GatesPassed, Gates

LEMMA AnswerKeepsInv ==
    ASSUME TypeOK, Inv, NEW p \in Publishers, AnswerCapacity(p)
    PROVE  Inv'
<1> USE DEF processVars
<1>1. PICK m \in Sequences :
        /\ Scanned(p, "ask", m)
        /\ lastConsumer' = m
        /\ roomy' = IF seq[p] > m THEN roomy \ {p} ELSE roomy \cup {p}
        /\ EndScan(p, "idle")
        /\ seq' = [seq EXCEPT ![p] = InitialCursorValue]
        /\ UNCHANGED <<shape, claimed, cursor, events, delta, processVars>>
  BY DEF AnswerCapacity
<1>2. m \in Int /\ seq[p] \in Int /\ p \in Threads /\ pc[p] = "ask" /\ pc'[p] = "idle"
  BY <1>1, Constants DEF TypeOK, Scanned, EndScan, Goes, Threads
<1>3. GatesPassed(m) /\ \A g \in Gates : sequence[g] \in Int
  BY <1>1, <1>2, MinimumIsPassed, ShapeOK DEF TypeOK
<1>4. \A q \in Publishers \ {p} : PublisherInv(q)'
  BY <1>1, <1>2, OtherPublisher DEF EndScan, Goes, TypeOK, Threads
<1>5. ASSUME ~ shape.multi PROVE RoomIsKept(p)'
  <2>1. p \in shape.publishers /\ seq[p] = WrapOfNext /\ WrapOfNext' = WrapOfNext
    BY <1>1, <1>2, <1>5 DEF Inv, PublisherInv, RoomIsKept, WrapOfNext
  <2>2. p \in roomy' => GatesPassed(WrapOfNext)
    <3>1. p \in roomy' => seq[p] <= m
      BY <1>1, <1>2
    <3> QED BY <1>2, <1>3, <2>1, <3>1 DEF GatesPassed
  <2> QED BY <1>1, <1>2, <2>1, <2>2 DEF RoomIsKept, GatesPassed, Gates
<1>6. PublisherInv(p)'
  BY <1>1, <1>2, <1>5 DEF PublisherInv, ScanIsSound
<1> QED BY <1>1, <1>3, <1>4, <1>6 DEF Inv, GatesPassed, Gates

LEMMA ClaimKeepsInv ==
    ASSUME TypeOK, Inv, NEW p \in Publishers, NEW d \in 1 .. MaxBatch, Claim(p, d)
    PROVE  Inv'
<1> USE DEF processVars
<1>1. /\ p \in shape.publishers /\ p \in Threads
      /\ seq' = [seq EXCEPT ![p] = claimed + d] /\ roomy' = roomy \ {p}
      /\ UNCHANGED <<shape, lastConsumer, sequence, next>>
  BY DEF Claim, Threads
<1>2. seq'[p] = claimed + d
  BY <1>1 DEF TypeOK
<1>3. claimed + d \in Int /\ WrapPoint(claimed + d) \in Int /\ lastConsumer \in Int
  BY Constants DEF TypeOK, WrapPoint
<1>4. \A g \in Gates : sequence[g] \in Int /\ sequence[g] >= lastConsumer
  BY ShapeOK DEF TypeOK, Inv, GatesPassed
<1>5. \A q \in Publishers \ {p} : PublisherInv(q)'
  BY <1>1, OtherPublisher DEF Claim, StartScan, Goes, TypeOK, Threads
<1>6. PublisherInv(p)'
  <2>1. CASE lastConsumer < WrapPoint(claimed + d)
    <3>1. pc'[p] = "gate" /\ left'[p] = Gates
      BY <1>1, <2>1 DEF Claim, StartScan, Goes, TypeOK
    <3> QED BY <1>1, <3>1 DEF PublisherInv, ScanIsSound, RoomIsKept, Gates
  <2>2. CASE ~ (lastConsumer < WrapPoint(claimed + d))
    <3>1. pc'[p] = "write"
      BY <1>1, <2>2 DEF Claim, Goes, TypeOK
    <3>2. GatesPassed(WrapPoint(claimed + d))
      BY <1>3, <1>4, <2>2 DEF GatesPassed
    <3> QED
      BY <1>1, <1>2, <3>1, <3>2
      DEF PublisherInv, ScanIsSound, RoomIsKept, GatesPassed, Gates, WrapPoint
  <2> QED BY <2>1, <2>2
<1> QED BY <1>1, <1>5, <1>6 DEF Inv, GatesPassed, Gates

LEMMA NextKeepsInv == TypeOK /\ TypeOK' /\ Inv /\ [Next]_vars => Inv'
<1> SUFFICES ASSUME TypeOK, TypeOK', Inv, [Next]_vars PROVE Inv'
  OBVIOUS
<1>1. CASE UNCHANGED vars
  BY <1>1 DEF vars, publishVars, processVars, Inv, PublisherInv, ScanIsSound, RoomIsKept,
              GatesPassed, Gates, WrapPoint, WrapOfNext
<1>2. ASSUME NEW t \in Threads, Step(t) PROVE Inv'
  <2>1. CASE t \in Publishers
    BY <1>2, <2>1, Constants, LoadKeepsInv, GateKeepsInv, WriteToSignalKeepInv, AnswerKeepsInv
    DEF Step
  <2>2. CASE t \in Processors
    BY <1>2, <2>2, Constants, ProcessorIsQuiet, UndisturbedKeepsInv DEF Step
  <2> QED BY <2>1, <2>2 DEF Threads
<1>3. ASSUME NEW p \in Publishers, AskCapacity(p) \/ \E d \in 1 .. MaxBatch : Claim(p, d)
      PROVE  Inv'
  BY <1>3, AskKeepsInv, ClaimKeepsInv
<1>4. ASSUME NEW c \in Processors, WakeSpuriously(c) \/ SetAlerted(c) PROVE Inv'
  BY <1>4, ProcessorIsQuiet, UndisturbedKeepsInv
<1> QED BY <1>1, <1>2, <1>3, <1>4 DEF Next

LEMMA InvHolds == Spec => [](TypeOK /\ Inv)
<1> QED BY TypeCorrect, InvInit, NextKeepsInv, PTL DEF Spec

\* A publisher stores into a slot when every gate is done with the event it
\* held, for any arrangement a client may set up.
THEOREM StoresAreSafe == Spec => []SlotsAreFree
<1>1. TypeOK /\ Inv => SlotsAreFree
  <2> SUFFICES ASSUME TypeOK, Inv, NEW p \in Publishers, pc[p] = "write",
                      NEW s \in Claims(p), NEW g \in Gates
               PROVE  sequence[g] >= s - N
    BY DEF SlotsAreFree
  <2>1. seq[p] \in Int /\ delta[p] \in Int /\ N \in Int /\ sequence[g] \in Int
    BY ShapeOK, Constants DEF TypeOK
  <2>2. s \in Int /\ s <= seq[p]
    BY <2>1 DEF Claims
  <2>3. sequence[g] >= seq[p] - N
    BY DEF Inv, PublisherInv, GatesPassed, WrapPoint
  <2> QED BY <2>1, <2>2, <2>3
<1> QED BY <1>1, InvHolds, PTL

\* A single publisher that was told that there is room may claim without
\* waiting, however far the processors have come since.
THEOREM RoomIsReal == Spec => []CapacityHolds
<1>1. TypeOK /\ Inv => CapacityHolds
  BY DEF CapacityHolds, TypeOK, Inv, PublisherInv, RoomIsKept, GatesPassed, WrapOfNext
<1> QED BY <1>1, InvHolds, PTL

--------------------------------------------------------------------------------
(***************************************************************************)
(* What a processor of the disruptor is handed is published, is behind     *)
(* what it depends on, and is not overwritten while it is at it.           *)
(***************************************************************************)

\* Sequences that share a slot are a turn of the ring apart.
LEMMA SequenceInSlot ==
    ASSUME NEW a \in Int
    PROVE  /\ a \div N \in Int
           /\ Slot(a) \in 0 .. N - 1
           /\ a = N * (a \div N) + Slot(a)
BY Constants, SMTT(30) DEF Slot

LEMMA OneTurn ==
    ASSUME NEW k \in Int, k > 0
    PROVE  N * k >= N
BY Constants, SMTT(30)

LEMMA SlotsRepeat ==
    ASSUME NEW a \in Int, NEW b \in Int, a < b, Slot(a) = Slot(b)
    PROVE  b - a >= N
<1> DEFINE q == a \div N
           r == b \div N
<1>1. q \in Int /\ r \in Int /\ a = N * q + Slot(a) /\ b = N * r + Slot(b) /\ Slot(a) \in Int
  BY SequenceInSlot
<1> HIDE DEF q, r
<1>2. b - a = N * (r - q)
  BY <1>1, Constants
<1>3. r - q > 0
  BY <1>1, <1>2, Constants, SMTT(30)
<1> QED BY <1>1, <1>2, <1>3, OneTurn

--------------------------------------------------------------------------------
(* The claims *)

\* Publishers that have claimed and not yet published.
Holders == {p \in Publishers : pc[p] \in {"gate", "write", "publish"}}

\* The sequences between the cursor and the last claim are held, by one
\* publisher each.
ClaimsInv ==
    /\ cursor <= claimed
    /\ \A p \in Holders :
        /\ 1 <= delta[p] /\ delta[p] <= N
        /\ cursor <= seq[p] - delta[p] /\ seq[p] <= claimed
    /\ \A p, q \in Holders : p # q =>
        seq[p] <= seq[q] - delta[q] \/ seq[q] <= seq[p] - delta[p]
    /\ \A s \in Int : cursor < s /\ s <= claimed => \E p \in Holders : s \in Claims(p)

(* The events *)

\* s is stored: published, or claimed by one who has yet to publish it.
Stored(s) ==
    s <= cursor \/ \E p \in Publishers : pc[p] = "publish" /\ s \in Claims(p)

\* Some gate has yet to go past s.
Needed(s) == \E g \in Gates : sequence[g] < s

EventsInv ==
    /\ \A p \in Publishers : pc[p] = "publish" => GatesPassed(WrapPoint(seq[p]))
    /\ \A s \in Int : Stored(s) /\ Needed(s) => events[Slot(s)] = s

(* The processors *)

\* The minimum found so far is behind each sequence that was loaded.
ProcessorScan(c) ==
    pc[c] = "scan" =>
        /\ left[c] \subseteq Tracked(c)
        /\ \A s \in Tracked(c) \ left[c] : low[c] <= Value(s)

\* v is published, and the processors c waits for are done with it.
Reachable(c, v) == v <= cursor /\ \A d \in Dependents(c) : v <= sequence[d]

ProcessorInv(c) ==
    /\ InitialCursorValue <= sequence[c]
    /\ Reachable(c, sequence[c])
    /\ pc[c] # "idle" => c \in shape.processors
    /\ pc[c] = "batch" <=> IsBatch(c)
    /\ pc[c] # "batch" => next[c] = sequence[c] + 1
    /\ IsBatch(c) => Reachable(c, available[c])
    /\ ProcessorScan(c)

ProcessorsInv == \A c \in Processors : ProcessorInv(c)

\* What holds of a processor, of the cursor and of the events in all.
BatchInv == ClaimsInv /\ EventsInv /\ ProcessorsInv

LEMMA BatchInit == Init => BatchInv
<1> SUFFICES ASSUME Init PROVE BatchInv
  OBVIOUS
<1>1. ArrangementOK(shape)
  BY SequencerAssumption DEF Init
<1>2. ClaimsInv
  BY DEF Init, ClaimsInv, Holders, Threads, InitialCursorValue
<1>3. EventsInv
  BY <1>1 DEF Init, EventsInv, Stored, Needed, Threads, InitialCursorValue, Gates, ArrangementOK
<1>4. ASSUME NEW c \in Processors PROVE ProcessorInv(c)
  BY <1>1 DEF Init, ProcessorInv, Reachable, IsBatch, ProcessorScan, Threads, InitialCursorValue,
       Dependents, ArrangementOK
<1> QED BY <1>2, <1>3, <1>4 DEF BatchInv, ProcessorsInv

--------------------------------------------------------------------------------
(* Who takes no part in a step *)

\* Sequences only grow.
Grows ==
    /\ shape' = shape
    /\ cursor <= cursor'
    /\ \A c \in Processors : sequence[c] <= sequence'[c]

LEMMA ReachableStays ==
    ASSUME TypeOK, TypeOK', Grows, NEW c \in Processors, NEW v \in Int, Reachable(c, v)
    PROVE  Reachable(c, v)'
<1>1. Dependents(c)' = Dependents(c) /\ Dependents(c) \subseteq Processors
  BY ShapeOK DEF Grows, Dependents, ArrangementOK
<1>2. cursor \in Int /\ cursor' \in Int
  BY DEF TypeOK
<1>3. \A d \in Processors : sequence[d] \in Int /\ sequence'[d] \in Int
  BY DEF TypeOK
<1> QED BY <1>1, <1>2, <1>3 DEF Reachable, Grows

LEMMA ValuesGrow ==
    ASSUME TypeOK, TypeOK', Grows, NEW s \in Processors \cup {Cursor}
    PROVE  Value(s) \in Int /\ Value(s)' \in Int /\ Value(s) <= Value(s)'
BY DEF TypeOK, Grows, Value

LEMMA BystanderKeepsInv ==
    ASSUME TypeOK, TypeOK', Grows, NEW c \in Processors, ProcessorInv(c),
           sequence'[c] = sequence[c], next'[c] = next[c], available'[c] = available[c],
           left'[c] = left[c], low'[c] = low[c],
           pc'[c] = pc[c] \/ (pc[c] = "asleep" /\ pc'[c] = "locked")
    PROVE  ProcessorInv(c)'
<1>1. sequence[c] \in Int /\ available[c] \in Int /\ low[c] \in Int
  BY DEF TypeOK, Threads
<1>2. Reachable(c, sequence[c])' /\ (IsBatch(c) => Reachable(c, available[c])')
  <2>1. Reachable(c, sequence[c]) /\ (IsBatch(c) => Reachable(c, available[c]))
    BY DEF ProcessorInv
  <2>2. ASSUME NEW v \in Int, Reachable(c, v) PROVE v <= cursor' /\ \A d \in Dependents(c)' : v <= sequence'[d]
    BY <2>2, ReachableStays DEF Reachable
  <2> QED BY <1>1, <2>1, <2>2 DEF Reachable
<1>3. ProcessorScan(c)'
  <2>1. Tracked(c)' = Tracked(c) /\ Tracked(c) \subseteq Processors \cup {Cursor}
    BY ShapeOK DEF Grows, Tracked, Dependents
  <2>2. ProcessorScan(c)
    BY DEF ProcessorInv
  <2> QED BY <1>1, <2>1, <2>2, ValuesGrow DEF ProcessorScan
<1>4. IsBatch(c)' <=> IsBatch(c)
  BY DEF IsBatch
<1> QED BY <1>2, <1>3, <1>4 DEF ProcessorInv, Grows

LEMMA EventsStay ==
    ASSUME TypeOK, TypeOK', Grows, EventsInv, events' = events,
           \A s \in Int : Stored(s)' => Stored(s),
           \A p \in Publishers : pc'[p] = "publish" => pc[p] = "publish" /\ seq'[p] = seq[p]
    PROVE  EventsInv'
<1>1. Gates' = Gates /\ \A g \in Gates : sequence[g] \in Int /\ sequence'[g] \in Int
  BY ShapeOK DEF Grows, Gates, TypeOK
<1>2. \A g \in Gates : sequence[g] <= sequence'[g]
  BY ShapeOK DEF Grows
<1>3. ASSUME NEW p \in Publishers, pc'[p] = "publish" PROVE GatesPassed(WrapPoint(seq[p]))'
  <2>1. seq'[p] = seq[p] /\ GatesPassed(WrapPoint(seq[p]))
    BY <1>3 DEF EventsInv
  <2>2. WrapPoint(seq[p]) \in Int /\ WrapPoint(seq[p])' = WrapPoint(seq[p])
    BY <2>1, Constants DEF WrapPoint, TypeOK
  <2> QED BY <1>1, <1>2, <2>1, <2>2 DEF GatesPassed
<1>4. ASSUME NEW s \in Int, Stored(s)', Needed(s)' PROVE events'[Slot(s)'] = s
  <2>1. Needed(s)
    BY <1>1, <1>2, <1>4 DEF Needed
  <2> QED BY <1>4, <2>1 DEF EventsInv, Slot
<1> QED BY <1>3, <1>4 DEF EventsInv

LEMMA ClaimsStay ==
    ASSUME ClaimsInv, cursor' = cursor, claimed' = claimed, Holders' = Holders,
           \A p \in Holders : seq'[p] = seq[p] /\ delta'[p] = delta[p]
    PROVE  ClaimsInv'
BY DEF ClaimsInv, Claims

\* What stays for whoever is not at work when a processor is.
LEMMA UndisturbedKeepsClaims ==
    ASSUME TypeOK, TypeOK', ClaimsInv, EventsInv, Undisturbed
    PROVE  ClaimsInv' /\ EventsInv' /\ Grows
<1>1. Grows
  BY DEF Undisturbed, Grows, publishVars, TypeOK
<1>2. Holders' = Holders
  BY DEF Undisturbed, Holders
<1>3. ClaimsInv'
  BY <1>2, ClaimsStay DEF Undisturbed, publishVars, Holders
<1>4. \A s \in Int : Stored(s)' => Stored(s)
  BY DEF Undisturbed, publishVars, Stored, Claims
<1>5. EventsInv'
  BY <1>1, <1>4, EventsStay DEF Undisturbed, publishVars
<1> QED BY <1>1, <1>3, <1>5

--------------------------------------------------------------------------------
(* The steps of a processor *)

\* The minimum over what a barrier tracks is published and behind the dependents.
LEMMA MinimumIsReachable ==
    ASSUME TypeOK, NEW c \in Processors, ProcessorsInv,
           NEW m \in Int, Scanned(c, "scan", m)
    PROVE  Reachable(c, m)
<1>1. PICK s \in left[c] : left[c] = {s} /\ m = Least(c, s)
  BY DEF Scanned
<1>2. /\ left[c] \subseteq Tracked(c) /\ Tracked(c) \subseteq Processors \cup {Cursor}
      /\ \A t \in Tracked(c) \ left[c] : low[c] <= Value(t)
  BY ShapeOK DEF ProcessorsInv, ProcessorInv, ProcessorScan, Scanned
<1>3. low[c] \in Int /\ cursor \in Int /\ \A d \in Processors : sequence[d] \in Int
  BY DEF TypeOK, Threads
<1>4. \A t \in Processors \cup {Cursor} : Value(t) \in Int
  BY <1>3 DEF Value
<1>5. m <= low[c] /\ m <= Value(s)
  BY <1>1, <1>2, <1>3, <1>4 DEF Least
<1>6. \A t \in Tracked(c) : m <= Value(t)
  BY <1>1, <1>2, <1>3, <1>4, <1>5
<1>7. CASE Dependents(c) = {}
  BY <1>6, <1>7 DEF Tracked, Value, Reachable
<1>8. CASE Dependents(c) # {}
  <2>1. PICK d \in Dependents(c) : TRUE
    BY <1>8
  <2>2. Dependents(c) \subseteq Processors
    BY ShapeOK DEF ArrangementOK, Dependents
  <2>3. \A e \in Dependents(c) : m <= sequence[e]
    BY <1>6, <1>8, <2>2, Constants DEF Tracked, Value
  <2>4. sequence[d] <= cursor
    BY <2>1, <2>2 DEF ProcessorsInv, ProcessorInv, Reachable
  <2> QED BY <1>3, <2>1, <2>2, <2>3, <2>4 DEF Reachable
<1> QED BY <1>7, <1>8

\* A processor that waits: it has committed its last batch.
Waiting(c) == pc[c] \notin {"idle", "batch"}

LEMMA WaitingKnows ==
    ASSUME TypeOK, NEW c \in Processors, ProcessorsInv, Waiting(c)
    PROVE  /\ c \in shape.processors /\ c \in Threads
           /\ next[c] = sequence[c] + 1 /\ next[c] \in Int /\ sequence[c] \in Int
           /\ 0 <= next[c] /\ InitialCursorValue <= sequence[c]
           /\ ~ IsBatch(c)
           /\ Reachable(c, sequence[c])
BY DEF ProcessorsInv, ProcessorInv, Waiting, TypeOK, Threads, InitialCursorValue

LEMMA ReturnsKeepsInv ==
    ASSUME TypeOK, NEW c \in Processors, ProcessorsInv, Waiting(c), NEW v \in Int, Returns(c, v),
           next[c] <= v => Reachable(c, v)
    PROVE  ProcessorInv(c)'
<1>1. /\ UNCHANGED <<shape, cursor, sequence, next>>
      /\ available'[c] = v /\ pc'[c] = IF next[c] <= v THEN "batch" ELSE "idle"
  BY WaitingKnows DEF Returns, EndScan, Goes, publishVars, TypeOK
<1>2. IsBatch(c)' <=> next[c] <= v
  BY <1>1 DEF IsBatch
<1> QED
  BY <1>1, <1>2, WaitingKnows
  DEF ProcessorInv, Reachable, Dependents, ProcessorScan

LEMMA StaysKeepsInv ==
    ASSUME TypeOK, NEW c \in Processors, ProcessorsInv, Waiting(c),
           NEW stage \in {"locked", "asleep", "pauses"}, Stays(c, stage)
    PROVE  ProcessorInv(c)'
<1>1. /\ UNCHANGED <<shape, cursor, sequence, next, available>> /\ pc'[c] = stage
  BY WaitingKnows DEF Stays, Goes, publishVars, processVars, TypeOK
<1> QED
  BY <1>1, WaitingKnows DEF ProcessorInv, Reachable, Dependents, ProcessorScan, IsBatch

LEMMA ScanAgainKeepsInv ==
    ASSUME TypeOK, NEW c \in Processors, ProcessorsInv, Waiting(c), ScanAgain(c)
    PROVE  ProcessorInv(c)'
<1>1. /\ UNCHANGED <<shape, cursor, sequence, next, available>>
      /\ pc'[c] = "scan" /\ left'[c] = Tracked(c)
  BY WaitingKnows DEF ScanAgain, StartScan, Goes, publishVars, processVars, TypeOK
<1> QED
  BY <1>1, WaitingKnows
  DEF ProcessorInv, Reachable, Dependents, ProcessorScan, IsBatch, Tracked

LEMMA BeginKeepsInv ==
    ASSUME TypeOK, NEW c \in Processors, ProcessorsInv, BeginBatch(c)
    PROVE  ProcessorInv(c)'
<1>1. ProcessorInv(c) /\ c \in Threads /\ c \in shape.processors
      /\ sequence[c] \in Int /\ next[c] \in Int /\ available[c] \in Int
  BY DEF ProcessorsInv, TypeOK, Threads, BeginBatch
<1>2. /\ UNCHANGED <<shape, cursor, sequence, available>> /\ next'[c] = sequence[c] + 1
      /\ pc[c] = "idle" /\ ~ IsBatch(c)
      /\ pc'[c] = "cursor" \/ (pc'[c] = "scan" /\ left'[c] = Tracked(c))
  BY <1>1 DEF BeginBatch, StartScan, Goes, publishVars, TypeOK
<1>3. next'[c] = next[c] /\ ~ IsBatch(c)'
  BY <1>1, <1>2 DEF ProcessorInv, IsBatch
<1> QED
  BY <1>1, <1>2, <1>3 DEF ProcessorInv, Reachable, Dependents, ProcessorScan, Tracked

LEMMA LoadKeepsScan ==
    ASSUME TypeOK, NEW c \in Processors, ProcessorsInv, Load(c)
    PROVE  ProcessorInv(c)'
<1>1. PICK s \in left[c] :
        /\ left' = [left EXCEPT ![c] = @ \ {s}]
        /\ low' = [low EXCEPT ![c] = Least(c, s)]
        /\ UNCHANGED <<shape, publishVars, processVars, pc>>
  BY DEF Load
<1>2. /\ ProcessorInv(c) /\ left'[c] = left[c] \ {s} /\ low'[c] = Least(c, s)
      /\ UNCHANGED <<shape, cursor, sequence, next, available, pc>>
  BY <1>1 DEF ProcessorsInv, TypeOK, Threads, publishVars, processVars
<1>3. ProcessorScan(c)'
  <2> SUFFICES ASSUME pc[c] = "scan"
               PROVE  /\ left'[c] \subseteq Tracked(c)
                      /\ \A t \in Tracked(c) \ left'[c] : low'[c] <= Value(t)
    BY <1>2 DEF ProcessorScan, Tracked, Dependents, Value
  <2>1. /\ left[c] \subseteq Tracked(c) /\ Tracked(c) \subseteq Processors \cup {Cursor}
        /\ \A t \in Tracked(c) \ left[c] : low[c] <= Value(t)
    BY <1>2, ShapeOK DEF ProcessorInv, ProcessorScan
  <2>2. low[c] \in Int /\ \A t \in Processors \cup {Cursor} : Value(t) \in Int
    BY DEF TypeOK, Threads, Value
  <2>3. Least(c, s) <= low[c] /\ Least(c, s) <= Value(s) /\ Least(c, s) \in Int
    BY <2>1, <2>2 DEF Least
  <2> QED BY <1>2, <2>1, <2>2, <2>3
<1> QED BY <1>2, <1>3 DEF ProcessorInv, Reachable, Dependents, IsBatch

LEMMA CommitKeepsInv ==
    ASSUME TypeOK, TypeOK', NEW c \in Processors, ProcessorsInv, Commit(c), Grows
    PROVE  ProcessorInv(c)'
<1>1. /\ ProcessorInv(c) /\ c \in Threads /\ pc[c] = "batch" /\ IsBatch(c)
      /\ sequence[c] \in Int /\ next[c] \in Int /\ available[c] \in Int
  BY DEF ProcessorsInv, ProcessorInv, TypeOK, Threads, Commit
<1>2. /\ UNCHANGED <<shape, cursor, available>> /\ next'[c] = next[c] + 1
  BY DEF Commit, publishVars, TypeOK
<1>3. Reachable(c, available[c])'
  <2>1. Reachable(c, available[c])
    BY <1>1 DEF ProcessorInv
  <2>2. \A v \in Int : Reachable(c, v) => v <= cursor' /\ \A d \in Dependents(c)' : v <= sequence'[d]
    BY ReachableStays DEF Reachable
  <2> QED BY <1>1, <1>2, <2>1, <2>2 DEF Reachable
<1>4. CASE next[c] = available[c]
  <2>1. sequence'[c] = next[c] /\ pc'[c] = "idle"
    BY <1>1, <1>4 DEF Commit, Finished, Goes, TypeOK
  <2>2. sequence'[c] = available'[c] /\ InitialCursorValue <= sequence'[c] /\ ~ IsBatch(c)'
    <3>1. InitialCursorValue <= sequence[c] /\ sequence[c] <= sequence'[c] /\ InitialCursorValue \in Int
      BY <1>1 DEF ProcessorInv, Grows, InitialCursorValue
    <3> QED BY <1>1, <1>2, <1>4, <2>1, <3>1 DEF IsBatch
  <2> QED BY <1>2, <1>3, <2>1, <2>2 DEF ProcessorInv, ProcessorScan, Reachable
<1>5. CASE next[c] # available[c]
  <2>1. sequence' = sequence /\ pc' = pc
    BY <1>1, <1>5 DEF Commit
  <2>2. IsBatch(c)'
    BY <1>1, <1>2, <1>5 DEF IsBatch
  <2> QED
    BY <1>1, <1>2, <1>3, <2>1, <2>2
    DEF ProcessorInv, ProcessorScan, Reachable, Dependents
<1> QED BY <1>4, <1>5

IsAsBefore(d) ==
    /\ sequence'[d] = sequence[d] /\ next'[d] = next[d] /\ available'[d] = available[d]
    /\ pc'[d] = pc[d] /\ left'[d] = left[d] /\ low'[d] = low[d]

\* A step of one processor leaves the others where they are.
LEMMA OtherProcessor ==
    ASSUME TypeOK, NEW c \in Processors, NEW d \in Processors, d # c,
           \/ Load(c)
           \/ BeginBatch(c) \/ Found(c) \/ DontWait(c) \/ BusySpin(c) \/ Pause(c) \/ PauseEnds(c)
           \/ SpinOnDependents(c) \/ ReadCursor(c) \/ WaitTimesOut(c) \/ Commit(c)
           \/ WakeSpuriously(c) \/ SetAlerted(c)
    PROVE  IsAsBefore(d)
<1>1. ASSUME NEW stage, Goes(c, stage) PROVE pc'[d] = pc[d]
  BY <1>1 DEF Goes, TypeOK, Threads
<1>2. ASSUME NEW stage, NEW S, StartScan(c, S, stage) \/ EndScan(c, stage)
      PROVE  pc'[d] = pc[d] /\ left'[d] = left[d] /\ low'[d] = low[d]
  BY <1>1, <1>2 DEF StartScan, EndScan, TypeOK, Threads
<1>3. ASSUME NEW v, Returns(c, v) PROVE IsAsBefore(d)
  BY <1>2, <1>3 DEF Returns, TypeOK, IsAsBefore
<1>4. ASSUME NEW stage, Stays(c, stage) PROVE IsAsBefore(d)
  BY <1>1, <1>4 DEF Stays, processVars, IsAsBefore
<1>5. ASSUME ScanAgain(c) PROVE IsAsBefore(d)
  BY <1>2, <1>5 DEF ScanAgain, processVars, IsAsBefore
<1>6. CASE Load(c)
  BY <1>6 DEF Load, processVars, TypeOK, Threads, IsAsBefore
<1>7. CASE BeginBatch(c)
  BY <1>1, <1>2, <1>7 DEF BeginBatch, TypeOK, IsAsBefore
<1>8. CASE Commit(c)
  BY <1>1, <1>8 DEF Commit, TypeOK, IsAsBefore
<1>9. CASE SetAlerted(c)
  BY <1>9 DEF SetAlerted, IsAsBefore
<1>10. CASE Found(c) \/ DontWait(c) \/ BusySpin(c) \/ SpinOnDependents(c)
  BY <1>3, <1>5, <1>10 DEF Found, DontWait, BusySpin, SpinOnDependents
<1>11. CASE Pause(c) \/ PauseEnds(c) \/ WaitTimesOut(c) \/ WakeSpuriously(c)
  BY <1>3, <1>4, <1>5, <1>11 DEF Pause, PauseEnds, WaitTimesOut, WakeSpuriously
<1>12. CASE ReadCursor(c)
  BY <1>3, <1>4, <1>5, <1>12 DEF ReadCursor
<1> QED BY <1>6, <1>7, <1>8, <1>9, <1>10, <1>11, <1>12

LEMMA WaitKeepsInv ==
    ASSUME TypeOK, NEW c \in Processors, ProcessorsInv,
           \/ Found(c) \/ DontWait(c) \/ BusySpin(c) \/ Pause(c) \/ PauseEnds(c)
           \/ SpinOnDependents(c) \/ ReadCursor(c) \/ WaitTimesOut(c) \/ WakeSpuriously(c)
    PROVE  ProcessorInv(c)'
<1>1. Waiting(c)
  BY DEF Waiting, Found, DontWait, BusySpin, Pause, PauseEnds, SpinOnDependents, ReadCursor,
         WaitTimesOut, WakeSpuriously, NotYet, Scanned
<1>2. Signalled \in Int /\ ~ (next[c] <= Signalled) /\ cursor \in Int
  BY <1>1, WaitingKnows DEF Signalled, TypeOK
<1>3. ASSUME Returns(c, Signalled) PROVE ProcessorInv(c)'
  BY <1>1, <1>2, <1>3, ReturnsKeepsInv
<1>4. CASE Found(c)
  <2>1. PICK m \in Sequences : Scanned(c, "scan", m) /\ Returns(c, m)
    BY <1>4 DEF Found
  <2>2. m \in Int
    BY Constants
  <2> QED BY <1>1, <2>1, <2>2, MinimumIsReachable, ReturnsKeepsInv
<1>5. CASE DontWait(c) \/ BusySpin(c) \/ SpinOnDependents(c)
  BY <1>1, <1>3, <1>5, ScanAgainKeepsInv DEF DontWait, BusySpin, SpinOnDependents
<1>6. CASE Pause(c) \/ PauseEnds(c) \/ WaitTimesOut(c) \/ WakeSpuriously(c)
  BY <1>1, <1>3, <1>6, ScanAgainKeepsInv, StaysKeepsInv
  DEF Pause, PauseEnds, WaitTimesOut, WakeSpuriously
<1>7. CASE ReadCursor(c)
  <2>1. ASSUME Dependents(c) = {}, Returns(c, cursor) PROVE ProcessorInv(c)'
    <3>1. Reachable(c, cursor)
      BY <1>2, <2>1 DEF Reachable
    <3> QED BY <1>1, <1>2, <2>1, <3>1, ReturnsKeepsInv
  <2> QED BY <1>1, <1>3, <1>7, <2>1, ScanAgainKeepsInv, StaysKeepsInv DEF ReadCursor
<1> QED BY <1>4, <1>5, <1>6, <1>7

LEMMA ProcessorKeepsBatch ==
    ASSUME TypeOK, TypeOK', Inv, BatchInv, NEW c \in Processors,
           \/ Load(c)
           \/ BeginBatch(c) \/ Found(c) \/ DontWait(c) \/ BusySpin(c) \/ Pause(c) \/ PauseEnds(c)
           \/ SpinOnDependents(c) \/ ReadCursor(c) \/ WaitTimesOut(c) \/ Commit(c)
           \/ WakeSpuriously(c) \/ SetAlerted(c)
    PROVE  BatchInv'
<1>1. ClaimsInv' /\ EventsInv' /\ Grows
  BY ProcessorIsQuiet, UndisturbedKeepsClaims DEF BatchInv
<1>2. ASSUME NEW d \in Processors, d # c PROVE ProcessorInv(d)'
  BY <1>1, <1>2, OtherProcessor, BystanderKeepsInv DEF BatchInv, ProcessorsInv, IsAsBefore
<1>3. ProcessorInv(c)'
  <2>1. CASE SetAlerted(c)
    BY <1>1, <2>1, BystanderKeepsInv DEF SetAlerted, BatchInv, ProcessorsInv
  <2> QED
    BY <1>1, <2>1, LoadKeepsScan, BeginKeepsInv, WaitKeepsInv, CommitKeepsInv DEF BatchInv
<1> QED BY <1>1, <1>2, <1>3 DEF BatchInv, ProcessorsInv

--------------------------------------------------------------------------------
(* The steps of a publisher *)

\* Processors see of a publisher that the cursor grows.
LEMMA PublisherKeepsProcessors ==
    ASSUME TypeOK, TypeOK', ProcessorsInv, Grows, UNCHANGED processVars,
           \A c \in Processors :
               /\ left'[c] = left[c] /\ low'[c] = low[c]
               /\ pc'[c] = pc[c] \/ (pc[c] = "asleep" /\ pc'[c] = "locked")
    PROVE  ProcessorsInv'
BY BystanderKeepsInv DEF ProcessorsInv, processVars

LEMMA PublisherFrame ==
    ASSUME TypeOK, NEW p \in Publishers,
           \/ Load(p) \/ Gate(p) \/ Write(p) \/ Publish(p) \/ Signal(p) \/ AnswerCapacity(p)
           \/ AskCapacity(p) \/ \E d \in 1 .. MaxBatch : Claim(p, d)
    PROVE  /\ shape' = shape /\ UNCHANGED processVars
           /\ \A c \in Processors :
                  /\ left'[c] = left[c] /\ low'[c] = low[c]
                  /\ pc'[c] = pc[c] \/ (pc[c] = "asleep" /\ pc'[c] = "locked")
<1>1. \A c \in Processors : c # p
  BY Constants
<1>2. CASE Load(p)
  BY <1>1, <1>2 DEF Load, TypeOK, Threads
<1>3. CASE Gate(p)
  BY <1>1, <1>3 DEF Gate, StartScan, EndScan, Goes, TypeOK, Threads
<1>4. CASE Write(p) \/ Publish(p)
  BY <1>1, <1>4 DEF Write, Publish, Goes, TypeOK, Threads
<1>5. CASE Signal(p)
  BY <1>1, <1>5 DEF Signal, SignalAllWhenBlocking, TypeOK, Threads
<1>6. CASE AnswerCapacity(p)
  BY <1>1, <1>6 DEF AnswerCapacity, EndScan, Goes, TypeOK, Threads
<1>7. CASE AskCapacity(p)
  BY <1>1, <1>7 DEF AskCapacity, StartScan, Goes, TypeOK, Threads
<1>8. ASSUME NEW d \in 1 .. MaxBatch, Claim(p, d)
      PROVE  /\ shape' = shape /\ UNCHANGED processVars
             /\ \A c \in Processors :
                  left'[c] = left[c] /\ low'[c] = low[c] /\ pc'[c] = pc[c]
  BY <1>1, <1>8 DEF Claim, StartScan, Goes, TypeOK, Threads
<1> QED BY <1>2, <1>3, <1>4, <1>5, <1>6, <1>7, <1>8

\* Steps that claim, store and publish nothing.
LEMMA OtherStepsKeepBatch ==
    ASSUME TypeOK, TypeOK', BatchInv, NEW p \in Publishers,
           Load(p) \/ Gate(p) \/ Signal(p) \/ AnswerCapacity(p) \/ AskCapacity(p)
    PROVE  BatchInv'
<1>1. /\ cursor' = cursor /\ claimed' = claimed /\ events' = events
      /\ \A q \in Publishers : q # p => seq'[q] = seq[q] /\ delta'[q] = delta[q]
      /\ pc[p] \in {"gate", "write", "publish"} => seq'[p] = seq[p] /\ delta'[p] = delta[p]
  BY DEF Load, Gate, Signal, AnswerCapacity, AskCapacity, publishVars, TypeOK, Scanned
<1>2. /\ \A q \in Publishers : q # p =>
              pc'[q] = pc[q] \/ (pc[q] = "asleep" /\ pc'[q] = "locked")
      /\ pc'[p] = pc[p] \/ (pc[p] = "gate" /\ pc'[p] = "write")
            \/ ({pc[p], pc'[p]} \subseteq {"signal", "idle", "ask"})
  <2>1. CASE Load(p)
    BY <2>1 DEF Load
  <2>2. CASE Gate(p)
    BY <2>2 DEF Gate, Scanned, StartScan, EndScan, Goes, TypeOK, Threads
  <2>3. CASE Signal(p)
    BY <2>3 DEF Signal, SignalAllWhenBlocking, TypeOK, Threads
  <2>4. CASE AnswerCapacity(p)
    BY <2>4 DEF AnswerCapacity, Scanned, EndScan, Goes, TypeOK, Threads
  <2>5. CASE AskCapacity(p)
    BY <2>5 DEF AskCapacity, StartScan, Goes, TypeOK, Threads
  <2> QED BY <2>1, <2>2, <2>3, <2>4, <2>5
<1>3. Holders' = Holders
  BY <1>2 DEF Holders
<1>4. ClaimsInv'
  <2>1. \A q \in Holders : seq'[q] = seq[q] /\ delta'[q] = delta[q]
    BY <1>1 DEF Holders
  <2> QED BY <1>1, <1>3, <2>1, ClaimsStay DEF BatchInv
<1>5. Grows
  BY <1>1, PublisherFrame DEF Grows, processVars, TypeOK
<1>6. \A q \in Publishers : pc'[q] = "publish" =>
        pc[q] = "publish" /\ seq'[q] = seq[q] /\ delta'[q] = delta[q]
  BY <1>1, <1>2
<1>7. \A s \in Int : Stored(s)' => Stored(s)
  BY <1>1, <1>6 DEF Stored, Claims
<1>8. EventsInv'
  BY <1>1, <1>5, <1>6, <1>7, EventsStay DEF BatchInv
<1> QED BY <1>4, <1>5, <1>8, PublisherFrame, PublisherKeepsProcessors DEF BatchInv

LEMMA ClaimKeepsBatch ==
    ASSUME TypeOK, TypeOK', BatchInv, NEW p \in Publishers, NEW d \in 1 .. MaxBatch, Claim(p, d)
    PROVE  BatchInv'
<1>1. d \in Int /\ 1 <= d /\ d <= N /\ claimed \in Int /\ cursor \in Int /\ N \in Int
  BY SequencerAssumption DEF TypeOK
<1>2. /\ pc[p] = "idle" /\ pc'[p] \in {"gate", "write"}
      /\ claimed' = claimed + d /\ seq'[p] = claimed + d /\ delta'[p] = d
      /\ cursor' = cursor /\ events' = events
      /\ \A q \in Publishers \ {p} :
            seq'[q] = seq[q] /\ delta'[q] = delta[q] /\ pc'[q] = pc[q]
  BY DEF Claim, StartScan, Goes, TypeOK, Threads
<1>3. Holders' = Holders \cup {p} /\ p \notin Holders
  BY <1>2 DEF Holders
<1>4. ClaimsInv
  BY DEF BatchInv
<1>5. \A q \in Holders : q \in Publishers \ {p} /\ seq[q] \in Int /\ delta[q] \in Int
  BY <1>3 DEF Holders, TypeOK
<1>6. ClaimsInv'
  <2>1. cursor' <= claimed'
    BY <1>1, <1>2, <1>4 DEF ClaimsInv
  <2>2. ASSUME NEW q \in Holders'
        PROVE  /\ 1 <= delta'[q] /\ delta'[q] <= N
               /\ cursor' <= seq'[q] - delta'[q] /\ seq'[q] <= claimed'
    <3>1. CASE q = p
      BY <1>1, <1>2, <1>4, <3>1 DEF ClaimsInv
    <3>2. CASE q \in Holders
      BY <1>1, <1>2, <1>4, <1>5, <3>2 DEF ClaimsInv
    <3> QED BY <1>3, <3>1, <3>2
  <2>3. ASSUME NEW q \in Holders', NEW r \in Holders', q # r
        PROVE  seq'[q] <= seq'[r] - delta'[r] \/ seq'[r] <= seq'[q] - delta'[q]
    <3>1. CASE q \in Holders /\ r \in Holders
      BY <1>2, <1>4, <1>5, <2>3, <3>1 DEF ClaimsInv
    <3>2. ASSUME NEW h \in Holders PROVE seq'[h] <= seq'[p] - delta'[p]
      BY <1>1, <1>2, <1>4, <1>5 DEF ClaimsInv
    <3> QED BY <1>3, <2>3, <3>1, <3>2
  <2>4. ASSUME NEW s \in Int, cursor' < s, s <= claimed'
        PROVE  \E q \in Holders' : s \in Claims(q)'
    <3>1. CASE s <= claimed
      <4>1. PICK q \in Holders : s \in Claims(q)
        BY <1>2, <1>4, <2>4, <3>1 DEF ClaimsInv
      <4>2. Claims(q)' = Claims(q)
        BY <1>2, <1>5 DEF Claims
      <4> QED BY <1>3, <4>1, <4>2
    <3>2. CASE ~ (s <= claimed)
      <4>1. s \in Claims(p)'
        BY <1>1, <1>2, <2>4, <3>2 DEF Claims
      <4> QED BY <1>3, <4>1
    <3> QED BY <3>1, <3>2
  <2> QED BY <2>1, <2>2, <2>3, <2>4 DEF ClaimsInv
<1>7. Grows
  BY <1>1, <1>2, PublisherFrame DEF Grows, processVars, TypeOK
<1>8. \A q \in Publishers : pc'[q] = "publish" =>
        pc[q] = "publish" /\ seq'[q] = seq[q] /\ delta'[q] = delta[q]
  BY <1>2
<1>9. \A s \in Int : Stored(s)' => Stored(s)
  BY <1>2, <1>8 DEF Stored, Claims
<1>10. EventsInv'
  BY <1>2, <1>7, <1>8, <1>9, EventsStay DEF BatchInv
<1> QED BY <1>6, <1>7, <1>10, PublisherFrame, PublisherKeepsProcessors DEF BatchInv

\* Two sequences of one claim are in different slots.
LEMMA OwnSlots ==
    ASSUME TypeOK, ClaimsInv, NEW p \in Holders,
           NEW s \in Claims(p), NEW u \in Claims(p), Slot(s) = Slot(u)
    PROVE  s = u
<1>1. seq[p] \in Int /\ delta[p] \in Int /\ delta[p] <= N /\ N \in Int
  BY Constants DEF TypeOK, ClaimsInv, Holders
<1>2. s \in Int /\ u \in Int /\ s - u < N /\ u - s < N
  BY <1>1 DEF Claims
<1> QED BY <1>1, <1>2, SlotsRepeat

\* A publisher that stores overwrites nothing that somebody still needs.
LEMMA StoreDisturbsNobody ==
    ASSUME TypeOK, Inv, BatchInv, NEW p \in Publishers, pc[p] = "write",
           NEW u \in Claims(p), NEW s \in Int, Stored(s), Needed(s)
    PROVE  Slot(s) # Slot(u)
<1>1. p \in Holders /\ seq[p] \in Int /\ delta[p] \in Int /\ cursor \in Int /\ N \in Int
  BY Constants DEF Holders, TypeOK
<1>2. u \in Int /\ seq[p] - delta[p] < u /\ u <= seq[p] /\ cursor < u
  BY <1>1 DEF Claims, BatchInv, ClaimsInv
<1>3. PICK g \in Gates : sequence[g] < s
  BY DEF Needed
<1>4. sequence[g] \in Int /\ sequence[g] <= cursor
  BY ShapeOK DEF BatchInv, ProcessorsInv, ProcessorInv, Reachable, TypeOK
<1>5. s > u - N
  <2>1. sequence[g] >= seq[p] - N
    BY DEF Inv, PublisherInv, GatesPassed, WrapPoint
  <2> QED BY <1>1, <1>2, <1>3, <1>4, <2>1
<1>6. s # u /\ s < u + N
  <2>1. CASE s <= cursor
    BY <1>1, <1>2, <2>1, Constants
  <2>2. ASSUME NEW q \in Publishers, pc[q] = "publish", s \in Claims(q) PROVE s # u /\ s < u + N
    <3>1. q \in Holders /\ q # p /\ seq[q] \in Int /\ delta[q] \in Int
      BY <2>2 DEF Holders, TypeOK
    <3>2. seq[q] - delta[q] < s /\ s <= seq[q]
      BY <2>2, <3>1 DEF Claims
    <3>3. sequence[g] >= seq[q] - N
      BY <2>2 DEF BatchInv, EventsInv, GatesPassed, WrapPoint
    <3>4. seq[q] <= seq[p] - delta[p] \/ seq[p] <= seq[q] - delta[q]
      BY <1>1, <3>1 DEF BatchInv, ClaimsInv
    <3> QED BY <1>1, <1>2, <1>4, <3>1, <3>2, <3>3, <3>4
  <2> QED BY <2>1, <2>2 DEF Stored
<1>7. CASE s < u
  <2>1. ~ (u - s >= N)
    BY <1>1, <1>2, <1>5
  <2> QED BY <1>2, <1>7, <2>1, SlotsRepeat
<1>8. CASE u < s
  <2>1. ~ (s - u >= N)
    BY <1>1, <1>2, <1>6
  <2> QED BY <1>2, <1>8, <2>1, SlotsRepeat
<1> QED BY <1>2, <1>6, <1>7, <1>8

LEMMA WriteKeepsBatch ==
    ASSUME TypeOK, TypeOK', Inv, BatchInv, NEW p \in Publishers, Write(p)
    PROVE  BatchInv'
<1>1. /\ pc[p] = "write" /\ pc'[p] = "publish"
      /\ UNCHANGED <<claimed, cursor, seq, delta>>
      /\ \A q \in Publishers \ {p} : pc'[q] = pc[q]
  BY DEF Write, Goes, TypeOK, Threads
<1>2. Holders' = Holders /\ p \in Holders
  BY <1>1 DEF Holders
<1>3. ClaimsInv'
  BY <1>1, <1>2, ClaimsStay DEF BatchInv, Holders
<1>4. Grows /\ Gates' = Gates /\ sequence' = sequence
  BY <1>1, PublisherFrame DEF Grows, processVars, TypeOK, Gates
<1>5. seq[p] \in Int /\ delta[p] \in Int /\ Claims(p) \subseteq Int
  BY DEF TypeOK, Claims
<1>6. ASSUME NEW s \in Claims(p) PROVE events'[Slot(s)] = s
  <2>1. Slot(s) \in 0 .. N - 1
    BY <1>5, SequenceInSlot
  <2>2. \A u \in Claims(p) : Slot(u) = Slot(s) => u = s
    BY <1>2, OwnSlots DEF BatchInv
  <2>3. events'[Slot(s)] = CHOOSE u \in Claims(p) : Slot(u) = Slot(s)
    BY <2>1 DEF Write
  <2> QED BY <2>2, <2>3
<1>7. ASSUME NEW s \in Int, Stored(s), Needed(s) PROVE events'[Slot(s)] = s
  <2>1. Slot(s) \in 0 .. N - 1
    BY SequenceInSlot
  <2>2. \A u \in Claims(p) : Slot(u) # Slot(s)
    BY <1>1, <1>7, StoreDisturbsNobody
  <2>3. events'[Slot(s)] = events[Slot(s)]
    BY <2>1, <2>2 DEF Write
  <2> QED BY <1>7, <2>3 DEF BatchInv, EventsInv
<1>8. EventsInv'
  <2>1. ASSUME NEW q \in Publishers, pc'[q] = "publish" PROVE GatesPassed(WrapPoint(seq[q]))'
    <3>1. GatesPassed(WrapPoint(seq[q]))
      BY <1>1, <2>1 DEF Inv, PublisherInv, BatchInv, EventsInv
    <3> QED BY <1>1, <1>4, <3>1 DEF GatesPassed, WrapPoint
  <2>2. ASSUME NEW s \in Int, Stored(s)', Needed(s)' PROVE events'[Slot(s)] = s
    <3>1. Needed(s)
      BY <1>4, <2>2 DEF Needed
    <3>2. Stored(s) \/ s \in Claims(p)
      BY <1>1, <2>2 DEF Stored, Claims
    <3> QED BY <1>6, <1>7, <3>1, <3>2
  <2> QED BY <2>1, <2>2 DEF EventsInv, Slot
<1> QED BY <1>3, <1>4, <1>8, PublisherFrame, PublisherKeepsProcessors DEF BatchInv

\* Whoever publishes is next in turn.
LEMMA InTurn ==
    ASSUME TypeOK, Inv, BatchInv, NEW p \in Publishers, Publish(p)
    PROVE  cursor = seq[p] - delta[p]
<1>1. p \in Holders /\ seq[p] \in Int /\ delta[p] \in Int /\ cursor \in Int /\ claimed \in Int
  BY DEF Publish, Holders, TypeOK
<1>2. cursor <= seq[p] - delta[p] /\ 1 <= delta[p] /\ seq[p] <= claimed
  BY <1>1 DEF BatchInv, ClaimsInv
<1>3. CASE shape.multi
  BY <1>1, <1>2, <1>3 DEF Publish, SynchronizePublishing
<1>4. CASE ~ shape.multi
  <2> SUFFICES ASSUME cursor < seq[p] - delta[p] PROVE FALSE
    BY <1>1, <1>2
  <2>1. PICK q \in Holders : cursor + 1 \in Claims(q)
    BY <1>1, <1>2 DEF BatchInv, ClaimsInv
  <2>2. \A r \in Holders : r \in shape.publishers
    BY <1>4 DEF Inv, PublisherInv, RoomIsKept, Holders
  <2>3. q = p
    BY <1>1, <1>4, <2>2, ShapeOK DEF ArrangementOK
  <2> QED BY <1>1, <2>1, <2>3 DEF Claims
<1> QED BY <1>3, <1>4

LEMMA PublishKeepsBatch ==
    ASSUME TypeOK, TypeOK', Inv, BatchInv, NEW p \in Publishers, Publish(p)
    PROVE  BatchInv'
<1>1. /\ pc[p] = "publish" /\ pc'[p] = "signal" /\ cursor' = cursor + delta[p]
      /\ UNCHANGED <<claimed, events, seq, delta>>
      /\ \A q \in Publishers \ {p} : pc'[q] = pc[q]
  BY DEF Publish, Goes, TypeOK, Threads
<1>2. Holders' = Holders \ {p} /\ p \in Holders
  BY <1>1 DEF Holders
<1>3. /\ cursor \in Int /\ claimed \in Int
      /\ \A q \in Publishers : seq[q] \in Int /\ delta[q] \in Int
  BY DEF TypeOK
<1>4. ClaimsInv /\ 1 <= delta[p] /\ cursor' = seq[p] /\ cursor < cursor'
  BY <1>1, <1>2, <1>3, InTurn DEF BatchInv, ClaimsInv
<1>5. ClaimsInv'
  <2>1. cursor' <= claimed'
    BY <1>1, <1>2, <1>4 DEF ClaimsInv
  <2>2. ASSUME NEW q \in Holders'
        PROVE  /\ 1 <= delta'[q] /\ delta'[q] <= N
               /\ cursor' <= seq'[q] - delta'[q] /\ seq'[q] <= claimed'
    <3>1. /\ q \in Holders /\ q \in Publishers /\ q # p
          /\ 1 <= delta[q] /\ delta[q] <= N
          /\ cursor <= seq[q] - delta[q] /\ seq[q] <= claimed
      BY <1>2, <1>4 DEF ClaimsInv, Holders
    <3>2. seq[p] <= seq[q] - delta[q] \/ seq[q] <= seq[p] - delta[p]
      BY <1>2, <1>4, <3>1 DEF ClaimsInv
    <3>3. seq[p] <= seq[q] - delta[q]
      BY <1>1, <1>3, <1>4, <3>1, <3>2
    <3> QED BY <1>1, <1>4, <3>1, <3>3
  <2>3. ASSUME NEW q \in Holders', NEW r \in Holders', q # r
        PROVE  seq'[q] <= seq'[r] - delta'[r] \/ seq'[r] <= seq'[q] - delta'[q]
    BY <1>1, <1>2, <1>4, <2>3 DEF ClaimsInv
  <2>4. ASSUME NEW s \in Int, cursor' < s, s <= claimed'
        PROVE  \E q \in Holders' : s \in Claims(q)'
    <3>1. cursor < s
      BY <1>1, <1>3, <1>4, <2>4
    <3>2. PICK q \in Holders : s \in Claims(q)
      BY <1>1, <1>4, <2>4, <3>1 DEF ClaimsInv
    <3>3. q # p
      BY <1>3, <1>4, <2>4, <3>2 DEF Claims
    <3> QED BY <1>1, <1>2, <3>2, <3>3 DEF Claims
  <2> QED BY <2>1, <2>2, <2>3, <2>4 DEF ClaimsInv
<1>6. Grows
  BY <1>3, <1>4, PublisherFrame DEF Grows, processVars, TypeOK
<1>7. \A q \in Publishers : pc'[q] = "publish" => pc[q] = "publish" /\ seq'[q] = seq[q]
  BY <1>1
<1>8. ASSUME NEW s \in Int, Stored(s)' PROVE Stored(s)
  <2>1. CASE s <= cursor'
    <3>1. s <= cursor \/ s \in Claims(p)
      BY <1>1, <1>3, <1>4, <2>1 DEF Claims
    <3> QED BY <1>1, <3>1 DEF Stored
  <2>2. CASE ~ (s <= cursor')
    BY <1>1, <1>8, <2>2 DEF Stored, Claims
  <2> QED BY <2>1, <2>2
<1>9. EventsInv'
  BY <1>1, <1>6, <1>7, <1>8, EventsStay DEF BatchInv
<1> QED BY <1>5, <1>6, <1>9, PublisherFrame, PublisherKeepsProcessors DEF BatchInv

--------------------------------------------------------------------------------

LEMMA NextKeepsBatch == TypeOK /\ TypeOK' /\ Inv /\ BatchInv /\ [Next]_vars => BatchInv'
<1> SUFFICES ASSUME TypeOK, TypeOK', Inv, BatchInv, [Next]_vars PROVE BatchInv'
  OBVIOUS
<1>1. CASE UNCHANGED vars
  <2>1. Undisturbed
    BY <1>1 DEF vars, publishVars, processVars, Undisturbed, Inv, TypeOK
  <2>2. ClaimsInv' /\ EventsInv' /\ Grows
    BY <2>1, UndisturbedKeepsClaims DEF BatchInv
  <2>3. ProcessorsInv'
    BY <1>1, <2>2, BystanderKeepsInv DEF vars, processVars, BatchInv, ProcessorsInv
  <2> QED BY <2>2, <2>3 DEF BatchInv
<1>2. ASSUME NEW t \in Threads, Step(t) PROVE BatchInv'
  <2>1. CASE t \in Publishers
    BY <1>2, <2>1, Constants, OtherStepsKeepBatch, WriteKeepsBatch, PublishKeepsBatch DEF Step
  <2>2. CASE t \in Processors
    BY <1>2, <2>2, Constants, ProcessorKeepsBatch DEF Step
  <2> QED BY <2>1, <2>2 DEF Threads
<1>3. ASSUME NEW p \in Publishers, AskCapacity(p) \/ \E d \in 1 .. MaxBatch : Claim(p, d)
      PROVE  BatchInv'
  BY <1>3, OtherStepsKeepBatch, ClaimKeepsBatch
<1>4. ASSUME NEW c \in Processors, WakeSpuriously(c) \/ SetAlerted(c) PROVE BatchInv'
  BY <1>4, ProcessorKeepsBatch
<1> QED BY <1>1, <1>2, <1>3, <1>4 DEF Next

\* A batch lies between what its processor is done with and the cursor; and some
\* gate is not past it: the processor itself, or one that comes behind it, however
\* many stages later.  For if all gates were past s, the processors that are not
\* would be waited for by none that is.
LEMMA BatchIsStored ==
    ASSUME TypeOK, Inv, BatchInv, NEW c \in Processors, IsBatch(c),
           NEW s \in next[c] .. available[c]
    PROVE  events[Slot(s)] = s
<1>1. /\ next[c] \in Int /\ available[c] \in Int /\ cursor \in Int
      /\ \A d \in Processors : sequence[d] \in Int
  BY DEF TypeOK
<1>2. s \in Int /\ sequence[c] < s /\ s <= available[c]
  BY <1>1 DEF Inv
<1>3. /\ c \in shape.processors
      /\ Reachable(c, available[c])
  BY DEF BatchInv, ProcessorsInv, ProcessorInv
<1>4. Stored(s)
  BY <1>1, <1>2, <1>3 DEF Reachable, Stored
<1>5. Needed(s)
  <2> SUFFICES ASSUME ~ Needed(s) PROVE FALSE
    OBVIOUS
  <2> DEFINE Short == {b \in shape.processors \ Gates : sequence[b] < s}
  <2>1. c \in Short /\ Short \in SUBSET (shape.processors \ Gates)
    BY <1>2, <1>3 DEF Needed
  <2>2. PICK b \in Short, d \in shape.processors \ Short : b \in Dependents(d)
    BY <2>1, ShapeOK DEF ArrangementOK, Gates, Dependents
  <2>3. b \in Processors /\ d \in Processors /\ sequence[b] < s
    BY <2>2, ShapeOK DEF ArrangementOK
  <2>4. sequence[d] <= sequence[b]
    BY <2>2, <2>3 DEF BatchInv, ProcessorsInv, ProcessorInv, Reachable
  <2>5. sequence[d] < s
    BY <1>1, <1>2, <2>3, <2>4
  <2> QED BY <2>2, <2>5 DEF Needed
<1> QED BY <1>2, <1>4, <1>5 DEF BatchInv, EventsInv

\* Whatever a processor is handed is published and behind what it depends on, and
\* stays in its slots until the processor is done with it, for any arrangement in
\* which a gate comes behind every processor, directly or through others.
THEOREM BatchesAreIntact == Spec => []BatchIsIntact
<1>1. TypeOK /\ Inv /\ BatchInv => BatchIsIntact
  BY BatchIsStored DEF BatchIsIntact, BatchInv, ProcessorsInv, ProcessorInv, Reachable
<1>2. Spec => []BatchInv
  BY InvHolds, BatchInit, NextKeepsBatch, PTL DEF Spec
<1> QED BY <1>1, <1>2, InvHolds, PTL
================================================================================
