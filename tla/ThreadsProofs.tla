----------------------------- MODULE ThreadsProofs -----------------------------
(***************************************************************************)
(* Safety of the parts of MCThreads, each by an inductive invariant of its *)
(* own, for any contexts, workers and bounds.                              *)
(***************************************************************************)
EXTENDS MCThreads, FiniteSetTheorems, WellFoundedInduction, TLAPS

(***************************************************************************)
(* Spinlocks.                                                              *)
(***************************************************************************)

\* Who has the lock, or has got it and has yet to notice, or has yet to store
\* that it is free again.
Keepers ==
    {t \in Threads :
        \/ at[t] \in {"holds", "store"}
        \/ at[t] = "marked" /\ expected[t] = 0}

\* The word tells whether there is a keeper: lock() succeeds where it reads 0.
SpinlockInv ==
    /\ TypeOK
    /\ value_ \in 0 .. 2
    /\ \A t, u \in Keepers : t = u
    /\ Keepers # {} => value_ # 0
    /\ \A t \in Threads :
        IF futex THEN at[t] \notin {"test", "set"}
                 ELSE at[t] \in {"out", "test", "set", "holds"}

LEMMA SpinlockStarts == Init => SpinlockInv
BY SpinlockAssumption DEF Init, SpinlockInv, Keepers, TypeOK, Stages

(***************************************************************************)
(* A thread that goes to a stage where it keeps nothing can only take      *)
(* itself out of the keepers; one that becomes a keeper must have found    *)
(* none.                                                                   *)
(***************************************************************************)

LEMMA StepKeepsKeepers ==
    ASSUME SpinlockInv, NEW t \in Threads, Step(t)
    PROVE  SpinlockInv'
<1> USE DEF SpinlockInv, Keepers, TypeOK, Stages, Goes, Sees
<1>1. CASE Test(t)
  BY <1>1 DEF Test
<1>2. CASE TestAndSet(t)
  BY <1>2 DEF TestAndSet, AfterSet
<1>3. CASE Unlock(t)
  BY <1>3 DEF Unlock
<1>4. CASE Spin(t)
  BY <1>4 DEF Spin, Fails
<1>5. CASE CompareExchange(t)
  BY <1>5 DEF CompareExchange, Fails
<1>6. CASE Mark(t)
  <2>1. CASE expected[t] # 2
    BY <1>6, <2>1 DEF Mark, Exchange
  <2>2. CASE expected[t] = 2
    BY <1>6, <2>2 DEF Mark
  <2> QED BY <2>1, <2>2
<1>7. CASE Marked(t)
  BY <1>7 DEF Marked
<1>8. CASE FutexWait(t)
  BY <1>8 DEF FutexWait
<1>9. CASE WaitReturns(t)
  BY <1>9 DEF WaitReturns, Exchange
<1>10. CASE Subtract(t)
  <2>1. value_ \in {1, 2}
    BY <1>10 DEF Subtract
  <2>2. CASE value_ = 1
    BY <1>10, <2>2 DEF Subtract
  <2>3. CASE value_ = 2
    BY <1>10, <2>3 DEF Subtract
  <2> QED BY <2>1, <2>2, <2>3
<1>11. CASE Store(t)
  BY <1>11 DEF Store
<1>12. CASE FutexWake(t)
  BY <1>12 DEF FutexWake, WakesOne
<1> QED
  BY <1>1, <1>2, <1>3, <1>4, <1>5, <1>6, <1>7, <1>8, <1>9, <1>10, <1>11, <1>12 DEF Step

LEMMA SpinlockStep == SpinlockInv /\ [Next]_vars => SpinlockInv'
<1> SUFFICES ASSUME SpinlockInv, [Next]_vars PROVE SpinlockInv'
  OBVIOUS
<1>1. CASE UNCHANGED vars
  BY <1>1 DEF SpinlockInv, Keepers, TypeOK, vars
<1>2. ASSUME NEW t \in Threads, Step(t) PROVE SpinlockInv'
  BY <1>2, StepKeepsKeepers
<1>3. ASSUME NEW t \in Threads, Lock(t) PROVE SpinlockInv'
  <2>1. locks' \in [Threads -> Int]
    BY <1>3 DEF Lock, SpinlockInv, TypeOK
  <2> QED
    BY <1>3, <2>1 DEF Lock, SpinlockInv, Keepers, TypeOK, Stages, Goes
<1>4. ASSUME NEW t \in Threads, Interrupted(t) PROVE SpinlockInv'
  BY <1>4 DEF Interrupted, SpinlockInv, Keepers, TypeOK, Stages
<1> QED BY <1>1, <1>2, <1>3, <1>4 DEF Next

\* No two threads are between lock() and unlock() of a spinlock, with or
\* without a futex, however many threads there are.
THEOREM LockExcludes == Spec => []OneHolder
<1>1. SpinlockInv => OneHolder
  BY DEF SpinlockInv, Keepers, OneHolder, Holders
<1> QED BY SpinlockStarts, SpinlockStep, <1>1, PTL DEF Spec

(***************************************************************************)
(* fiber_specific_ptr: the values contexts have stored, for clients that   *)
(* store nothing on top of what a context has stored already.              *)
(***************************************************************************)

\* Where each value is stored.
Entries ==
    [v \in Values |-> {e \in Storage!Contexts \X Addresses : fss_data_[e[1]][e[2]].vp = v}]

\* A value that was given to a pointer and not taken back is in one entry and has
\* not been cleaned up, or it is in none and was cleaned up once.
StoredOnce ==
    \A v \in Values :
        /\ \A d, e \in Entries[v] : d = e
        /\ \A e \in Entries[v] :
            /\ fss_data_[e[1]][e[2]].cleanup_function = given[v]
            /\ given[v] # 0 /\ cleaned[v] = 0
            /\ e[1] \in ended => e[1] = Main
        /\ Entries[v] = {} => cleaned[v] = IF given[v] = 0 THEN 0 ELSE 1

StorageInv == Storage!StorageTypeOK /\ StoredOnce

LEMMA CountOfEntries ==
    ASSUME NEW S, \A d, e \in S : d = e
    PROVE  Storage!Cardinality(S) = IF S = {} THEN 0 ELSE 1
<1>1. Cardinality(S) = IF S = {} THEN 0 ELSE 1
  <2>1. CASE S = {}
    BY <2>1, FS_EmptySet
  <2>2. CASE S # {}
    <3>1. PICK e \in S : S = {e}
      BY <2>2
    <3> QED BY <2>2, <3>1, FS_Singleton
  <2> QED BY <2>1, <2>2
<1> QED BY <1>1 DEF Storage!Cardinality, Cardinality

\* What do_cleanup() of the entries of c does to the count of each value.
LEMMA CleanUpCounts ==
    ASSUME StorageInv, NEW c \in Storage!Contexts, NEW A \in SUBSET Addresses,
           Storage!CleanUp(c, A)
    PROVE  /\ cleaned' \in [Values -> Nat]
           /\ \A v \in Values :
                cleaned'[v] = IF \E a \in A : <<c, a>> \in Entries[v] THEN 1 ELSE cleaned[v]
<1>1. ASSUME NEW v \in Values
      PROVE  cleaned'[v] = IF \E a \in A : <<c, a>> \in Entries[v] THEN 1 ELSE cleaned[v]
  <2> DEFINE S == {a \in A : Storage!get_fss_data(c, a) = v}
  <2>1. \A a \in S : <<c, a>> \in Entries[v]
    BY DEF Storage!get_fss_data, Entries
  <2>2. \A a, b \in S : a = b
    BY <2>1 DEF StorageInv, StoredOnce
  <2>3. \A a \in A : <<c, a>> \in Entries[v] => a \in S
    BY DEF Storage!get_fss_data, Entries
  <2>4. cleaned'[v] = cleaned[v] + Storage!Cardinality(S)
    BY DEF Storage!CleanUp
  <2>5. cleaned[v] \in Nat /\ S \subseteq A
    BY DEF StorageInv, Storage!StorageTypeOK
  <2>6. S # {} => cleaned[v] = 0
    BY <2>1 DEF StorageInv, StoredOnce
  <2> HIDE DEF S
  <2>7. Storage!Cardinality(S) = IF S = {} THEN 0 ELSE 1
    BY <2>2, CountOfEntries
  <2>8. S # {} <=> \E a \in A : <<c, a>> \in Entries[v]
    BY <2>1, <2>3, <2>5
  <2>9. CASE S = {}
    BY <2>4, <2>5, <2>7, <2>8, <2>9
  <2>10. CASE S # {}
    BY <2>4, <2>6, <2>7, <2>8, <2>10
  <2> QED BY <2>9, <2>10
<1>2. \A v \in Values : cleaned'[v] \in Nat
  BY <1>1 DEF StorageInv, Storage!StorageTypeOK
<1>3. DOMAIN cleaned' = Values /\ cleaned' = [v \in Values |-> cleaned'[v]]
  BY DEF Storage!CleanUp
<1> QED BY <1>1, <1>2, <1>3

LEMMA StorageInit == Storage!Init => StorageInv
BY ThreadsAssumption
   DEF Storage!Init, StorageInv, Storage!StorageTypeOK, StoredOnce, Entries, Storage!NoEntry,
       Storage!Pointers, Storage!StorageAssumption

\* What a change of one entry leaves alone.
LEMMA EntryChanges ==
    ASSUME StorageInv, NEW c \in Storage!Contexts, NEW a \in Addresses,
           NEW entry \in [vp : Values \cup {NoValue},
                          cleanup_function : Storage!Pointers \cup {0}],
           fss_data_' = [fss_data_ EXCEPT ![c][a] = entry]
    PROVE  /\ fss_data_' \in [Storage!Contexts -> [Addresses ->
                                [vp : Values \cup {NoValue},
                                 cleanup_function : Storage!Pointers \cup {0}]]]
           /\ fss_data_'[c][a] = entry
           /\ \A e \in (Storage!Contexts \X Addresses) \ {<<c, a>>} :
                fss_data_'[e[1]][e[2]] = fss_data_[e[1]][e[2]]
<1>1. fss_data_ \in [Storage!Contexts -> [Addresses ->
                       [vp : Values \cup {NoValue},
                        cleanup_function : Storage!Pointers \cup {0}]]]
  BY DEF StorageInv, Storage!StorageTypeOK
<1>2. /\ fss_data_'[c][a] = entry
      /\ \A e \in (Storage!Contexts \X Addresses) \ {<<c, a>>} :
            fss_data_'[e[1]][e[2]] = fss_data_[e[1]][e[2]]
  BY <1>1
<1>3. fss_data_' \in [Storage!Contexts -> [Addresses ->
                       [vp : Values \cup {NoValue},
                        cleanup_function : Storage!Pointers \cup {0}]]]
  BY <1>1
<1> QED BY <1>2, <1>3

\* Emptying or filling the entry of c at a, with what it held cleaned up or handed back.
LEMMA SetKeepsStorage ==
    ASSUME StorageInv, NEW c \in Storage!Contexts \ ended, NEW a \in Addresses,
           NEW stored \in Values \cup {NoValue}, NEW cleans \in BOOLEAN,
           Storage!Lives(a), Storage!set_fss_data(c, a, stored, cleans),
           stored \in Values => given[stored] = 0 /\ ~Storage!HasEntry(c, a),
           given' = [v \in Values |->
                       IF v = stored THEN cleanup_fn_[a]
                       ELSE IF ~cleans /\ v = Storage!get_fss_data(c, a) THEN 0
                       ELSE given[v]],
           ended' = ended
    PROVE  StoredOnce' /\ fss_data_' \in [Storage!Contexts -> [Addresses ->
                                           [vp : Values \cup {NoValue},
                                            cleanup_function : Storage!Pointers \cup {0}]]]
           /\ given' \in [Values -> Storage!Pointers \cup {0}] /\ cleaned' \in [Values -> Nat]
<1> DEFINE old == fss_data_[c][a]
           entry == IF ~Storage!HasEntry(c, a)
                      THEN [vp |-> stored, cleanup_function |-> cleanup_fn_[a]]
                      ELSE Storage!NoEntry
<1>1. /\ cleanup_fn_[a] \in Storage!Pointers /\ NoValue \notin Values
      /\ given \in [Values -> Storage!Pointers \cup {0}]
      /\ 0 \notin Storage!Pointers
      /\ old \in [vp : Values \cup {NoValue}, cleanup_function : Storage!Pointers \cup {0}]
  BY ThreadsAssumption
     DEF StorageInv, Storage!StorageTypeOK, Storage!Lives, Storage!StorageAssumption,
         Storage!Pointers
<1>2. entry \in [vp : Values \cup {NoValue}, cleanup_function : Storage!Pointers \cup {0}]
  BY <1>1 DEF Storage!NoEntry
<1>3. fss_data_' = [fss_data_ EXCEPT ![c][a] = entry]
  <2>1. Storage!HasEntry(c, a) => stored = NoValue
    OBVIOUS
  <2> QED BY <2>1 DEF Storage!set_fss_data
<1>4. Storage!CleanUp(c, IF cleans THEN {a} ELSE {})
  BY DEF Storage!set_fss_data, Storage!Cleans
<1> HIDE DEF entry
<1>5. /\ fss_data_' \in [Storage!Contexts -> [Addresses ->
                           [vp : Values \cup {NoValue},
                            cleanup_function : Storage!Pointers \cup {0}]]]
      /\ fss_data_'[c][a] = entry
      /\ \A e \in (Storage!Contexts \X Addresses) \ {<<c, a>>} :
            fss_data_'[e[1]][e[2]] = fss_data_[e[1]][e[2]]
      /\ \A v \in Values :
            \A e : e \in Entries'[v] <=> IF e = <<c, a>> THEN entry.vp = v ELSE e \in Entries[v]
  <2>1. c \in Storage!Contexts
    OBVIOUS
  <2>2. /\ fss_data_'[c][a] = entry
        /\ \A e \in (Storage!Contexts \X Addresses) \ {<<c, a>>} :
              fss_data_'[e[1]][e[2]] = fss_data_[e[1]][e[2]]
    BY <1>2, <1>3, <2>1, EntryChanges
  <2>3. ASSUME NEW v \in Values
        PROVE  \A e : e \in Entries'[v]
                 <=> IF e = <<c, a>> THEN entry.vp = v ELSE e \in Entries[v]
    <3>1. \A e \in Storage!Contexts \X Addresses :
            e \in Entries'[v] <=> IF e = <<c, a>> THEN entry.vp = v ELSE e \in Entries[v]
      BY <2>2 DEF Entries
    <3> QED BY <2>1, <3>1 DEF Entries
  <2>4. fss_data_' \in [Storage!Contexts -> [Addresses ->
                           [vp : Values \cup {NoValue},
                            cleanup_function : Storage!Pointers \cup {0}]]]
    BY <1>2, <1>3, <2>1, EntryChanges
  <2> QED BY <2>2, <2>3, <2>4
<1>6. /\ cleaned' \in [Values -> Nat]
      /\ \A v \in Values :
            cleaned'[v] = IF cleans /\ <<c, a>> \in Entries[v] THEN 1 ELSE cleaned[v]
  <2> DEFINE A == IF cleans THEN {a} ELSE {}
  <2>1. A \in SUBSET Addresses /\ \A v \in Values :
          (\E b \in A : <<c, b>> \in Entries[v]) <=> cleans /\ <<c, a>> \in Entries[v]
    OBVIOUS
  <2> HIDE DEF A
  <2>2. Storage!CleanUp(c, A)
    BY <1>4 DEF A
  <2> QED BY <2>1, <2>2, CleanUpCounts
<1>7. given' \in [Values -> Storage!Pointers \cup {0}]
  BY <1>1
<1>8. \A v \in Values : <<c, a>> \in Entries[v] <=> old.vp = v
  BY DEF Entries
<1>9. \A v \in Values : old.vp = v => Storage!HasEntry(c, a) /\ Storage!get_fss_data(c, a) = v
  BY <1>1 DEF Storage!HasEntry, Storage!NoEntry, Storage!get_fss_data
<1>10. ASSUME NEW v \in Values
       PROVE  /\ \A d, e \in Entries'[v] : d = e
              /\ \A e \in Entries'[v] :
                  /\ fss_data_'[e[1]][e[2]].cleanup_function = given'[v]
                  /\ given'[v] # 0 /\ cleaned'[v] = 0
                  /\ e[1] \in ended' => e[1] = Main
              /\ Entries'[v] = {} => cleaned'[v] = IF given'[v] = 0 THEN 0 ELSE 1
  <2> DEFINE E == Entries[v]
             E1 == Entries'[v]
  <2>1. /\ \A d, e \in E : d = e
        /\ \A e \in E :
            /\ fss_data_[e[1]][e[2]].cleanup_function = given[v]
            /\ given[v] # 0 /\ cleaned[v] = 0
            /\ e[1] \in ended => e[1] = Main
        /\ E = {} => cleaned[v] = IF given[v] = 0 THEN 0 ELSE 1
    BY DEF StorageInv, StoredOnce
  <2>2. E \subseteq Storage!Contexts \X Addresses
    BY DEF Entries
  <2>3. CASE v = stored
    <3>1. E = {} /\ cleaned[v] = 0
      BY <2>1, <2>3
    <3>2. entry = [vp |-> v, cleanup_function |-> cleanup_fn_[a]]
      BY <2>3 DEF entry
    <3>3. E1 = {<<c, a>>}
      BY <1>5, <3>1, <3>2
    <3> QED BY <1>1, <1>5, <1>6, <2>3, <3>1, <3>2, <3>3
  <2>4. CASE v # stored
    <3>1. entry.vp # v
      BY <1>1, <2>4 DEF entry, Storage!NoEntry
    <3>2. E1 = E \ {<<c, a>>}
      BY <1>5, <3>1
    <3>3. CASE <<c, a>> \in E
      <4>1. E1 = {} /\ Storage!get_fss_data(c, a) = v
        BY <1>8, <1>9, <2>1, <3>2, <3>3
      <4>2. given'[v] = IF cleans THEN given[v] ELSE 0
        BY <2>4, <4>1
      <4> QED BY <1>6, <2>1, <3>3, <4>1, <4>2
    <3>4. CASE <<c, a>> \notin E
      <4>1. E1 = E /\ cleaned'[v] = cleaned[v]
        BY <1>6, <3>2, <3>4
      <4>2. Storage!get_fss_data(c, a) # v
        BY <1>8, <3>4 DEF Storage!get_fss_data
      <4>3. given'[v] = given[v]
        BY <2>4, <4>2
      <4>4. \A e \in E : fss_data_'[e[1]][e[2]] = fss_data_[e[1]][e[2]]
        BY <1>5, <2>2, <3>4
      <4> QED BY <2>1, <4>1, <4>3, <4>4
    <3> QED BY <3>3, <3>4
  <2> QED BY <2>3, <2>4
<1> QED BY <1>5, <1>6, <1>7, <1>10 DEF StoredOnce

LEMMA StorageStep == Careful /\ StorageInv /\ Storage!StorageNext => StorageInv'
<1> SUFFICES ASSUME Careful, StorageInv,
                    NEW c \in Storage!Contexts \ ended,
                    \/ \E a \in Addresses :
                          \/ Storage!Construct(a) \/ Storage!Destroy(c, a)
                          \/ Storage!Release(c, a)
                          \/ \E t \in Values \cup {NoValue} : Storage!Reset(c, a, t)
                    \/ c \in Owners /\ Storage!Terminate(c)
                    \/ c = Main /\ Storage!EndThread
             PROVE  StorageInv'
  BY DEF Storage!StorageNext
<1>1. /\ Storage!StorageTypeOK /\ StoredOnce
      /\ Main \notin Owners /\ NoValue \notin Values /\ MaxPointers \in Nat
  BY ThreadsAssumption DEF StorageInv, Storage!StorageAssumption
<1>2. ASSUME NEW a \in Addresses, Storage!Construct(a) PROVE StorageInv'
  <2>1. pointers + 1 \in Storage!Pointers /\ pointers' \in 0..MaxPointers
    BY <1>1, <1>2 DEF Storage!Construct, Storage!StorageTypeOK, Storage!Pointers
  <2>2. Storage!StorageTypeOK'
    BY <1>1, <1>2, <2>1 DEF Storage!Construct, Storage!StorageTypeOK
  <2>3. StoredOnce'
    BY <1>1, <1>2 DEF Storage!Construct, StoredOnce, Entries
  <2> QED BY <2>2, <2>3 DEF StorageInv
<1>3. ASSUME NEW a \in Addresses, Storage!Destroy(c, a) PROVE StorageInv'
  <2>1. /\ given' = [v \in Values |->
                       IF v = NoValue THEN cleanup_fn_[a]
                       ELSE IF ~TRUE /\ v = Storage!get_fss_data(c, a) THEN 0
                       ELSE given[v]]
        /\ cleanup_fn_' \in [Addresses -> Storage!Pointers \cup {0}]
        /\ ended' = ended /\ last' = last /\ pointers' = pointers
    BY <1>1, <1>3 DEF Storage!Destroy, Storage!StorageTypeOK
  <2>2. Storage!Lives(a) /\ Storage!set_fss_data(c, a, NoValue, TRUE)
    BY <1>3 DEF Storage!Destroy
  <2>3. StoredOnce' /\ fss_data_' \in [Storage!Contexts -> [Addresses ->
                                        [vp : Values \cup {NoValue},
                                         cleanup_function : Storage!Pointers \cup {0}]]]
        /\ given' \in [Values -> Storage!Pointers \cup {0}] /\ cleaned' \in [Values -> Nat]
    BY <1>1, <2>1, <2>2, SetKeepsStorage
  <2> QED BY <1>1, <2>1, <2>3 DEF StorageInv, Storage!StorageTypeOK
<1>4. ASSUME NEW a \in Addresses, Storage!Release(c, a) PROVE StorageInv'
  <2>1. /\ given' = [v \in Values |->
                       IF v = NoValue THEN cleanup_fn_[a]
                       ELSE IF ~FALSE /\ v = Storage!get_fss_data(c, a) THEN 0
                       ELSE given[v]]
        /\ ended' = ended /\ cleanup_fn_' = cleanup_fn_ /\ pointers' = pointers
    BY <1>1, <1>4 DEF Storage!Release
  <2>2. Storage!Lives(a) /\ Storage!set_fss_data(c, a, NoValue, FALSE)
    BY <1>4 DEF Storage!Release
  <2>3. StoredOnce' /\ fss_data_' \in [Storage!Contexts -> [Addresses ->
                                        [vp : Values \cup {NoValue},
                                         cleanup_function : Storage!Pointers \cup {0}]]]
        /\ given' \in [Values -> Storage!Pointers \cup {0}] /\ cleaned' \in [Values -> Nat]
    BY <1>1, <2>1, <2>2, SetKeepsStorage
  <2>4. last' \in [Storage!Contexts -> [Addresses -> Values \cup {NoValue}]]
    BY <1>1, <1>4 DEF Storage!Release, Storage!StorageTypeOK
  <2> QED BY <1>1, <2>1, <2>3, <2>4 DEF StorageInv, Storage!StorageTypeOK
<1>5. ASSUME NEW a \in Addresses, NEW t \in Values \cup {NoValue}, Storage!Reset(c, a, t)
      PROVE  StorageInv'
  <2>1. /\ given' = [v \in Values |->
                       IF v = t THEN cleanup_fn_[a]
                       ELSE IF ~TRUE /\ v = Storage!get_fss_data(c, a) THEN 0
                       ELSE given[v]]
        /\ ended' = ended /\ cleanup_fn_' = cleanup_fn_ /\ pointers' = pointers
    BY <1>5 DEF Storage!Reset
  <2>2. /\ Storage!Lives(a) /\ Storage!set_fss_data(c, a, t, TRUE)
        /\ t \in Values => given[t] = 0 /\ ~Storage!HasEntry(c, a)
    BY <1>5 DEF Storage!Reset
  <2>3. StoredOnce' /\ fss_data_' \in [Storage!Contexts -> [Addresses ->
                                        [vp : Values \cup {NoValue},
                                         cleanup_function : Storage!Pointers \cup {0}]]]
        /\ given' \in [Values -> Storage!Pointers \cup {0}] /\ cleaned' \in [Values -> Nat]
    BY <2>1, <2>2, SetKeepsStorage
  <2>4. last' \in [Storage!Contexts -> [Addresses -> Values \cup {NoValue}]]
    BY <1>1, <1>5 DEF Storage!Reset, Storage!StorageTypeOK
  <2> QED BY <1>1, <2>1, <2>3, <2>4 DEF StorageInv, Storage!StorageTypeOK
<1>6. CASE c \in Owners /\ Storage!Terminate(c)
  <2>1. /\ cleaned' \in [Values -> Nat]
        /\ \A v \in Values :
             cleaned'[v] = IF \E a \in Addresses : <<c, a>> \in Entries[v] THEN 1 ELSE cleaned[v]
    <3>1. c \in Storage!Contexts /\ Addresses \in SUBSET Addresses
          /\ Storage!CleanUp(c, Addresses)
      BY <1>6 DEF Storage!Terminate
    <3> QED BY <3>1, CleanUpCounts
  <2>2. Storage!NoEntry \in [vp : Values \cup {NoValue},
                             cleanup_function : Storage!Pointers \cup {0}]
    BY DEF Storage!NoEntry
  <2>3. /\ fss_data_' \in [Storage!Contexts -> [Addresses ->
                             [vp : Values \cup {NoValue},
                              cleanup_function : Storage!Pointers \cup {0}]]]
        /\ \A a \in Addresses : fss_data_'[c][a] = Storage!NoEntry
        /\ \A d \in Storage!Contexts \ {c} : fss_data_'[d] = fss_data_[d]
        /\ given' = given /\ ended' = ended \cup {c}
        /\ cleanup_fn_' = cleanup_fn_ /\ last' = last /\ pointers' = pointers
    <3> HIDE DEF Storage!NoEntry
    <3> QED BY <1>1, <1>6, <2>2 DEF Storage!Terminate, Storage!StorageTypeOK
  <2>4. Storage!StorageTypeOK'
    BY <1>1, <2>1, <2>3 DEF Storage!StorageTypeOK
  <2>5. ASSUME NEW v \in Values
        PROVE  /\ \A d, e \in Entries'[v] : d = e
               /\ \A e \in Entries'[v] :
                   /\ fss_data_'[e[1]][e[2]].cleanup_function = given'[v]
                   /\ given'[v] # 0 /\ cleaned'[v] = 0
                   /\ e[1] \in ended' => e[1] = Main
               /\ Entries'[v] = {} => cleaned'[v] = IF given'[v] = 0 THEN 0 ELSE 1
    <3> DEFINE E == Entries[v]
               E1 == Entries'[v]
    <3>1. /\ \A d, e \in E : d = e
          /\ \A e \in E :
              /\ fss_data_[e[1]][e[2]].cleanup_function = given[v]
              /\ given[v] # 0 /\ cleaned[v] = 0
              /\ e[1] \in ended => e[1] = Main
          /\ E = {} => cleaned[v] = IF given[v] = 0 THEN 0 ELSE 1
      BY <1>1 DEF StoredOnce
    <3>2. \A e \in E : e = <<e[1], e[2]>> /\ e[1] \in Storage!Contexts /\ e[2] \in Addresses
      BY DEF Entries
    <3>3. E1 = {e \in E : e[1] # c}
      <4>1. \A e \in Storage!Contexts \X Addresses :
              e \in E1 <=> e \in E /\ e[1] # c
        BY <1>1, <2>3 DEF Entries, Storage!NoEntry
      <4> QED BY <4>1 DEF Entries
    <3>4. CASE \E a \in Addresses : <<c, a>> \in E
      <4>1. E1 = {}
        BY <3>1, <3>3, <3>4
      <4> QED BY <2>1, <2>3, <3>1, <3>4, <4>1
    <3>5. CASE ~ \E a \in Addresses : <<c, a>> \in E
      <4>1. E1 = E /\ \A e \in E : e[1] # c
        BY <3>2, <3>3, <3>5
      <4>2. cleaned'[v] = cleaned[v]
        BY <2>1, <3>5
      <4> QED BY <2>3, <3>1, <3>2, <4>1, <4>2
    <3> QED BY <3>4, <3>5
  <2>6. StoredOnce'
    BY <2>5 DEF StoredOnce
  <2> QED BY <2>4, <2>6 DEF StorageInv
<1>7. CASE c = Main /\ Storage!EndThread
  BY <1>1, <1>7
     DEF Storage!EndThread, StorageInv, Storage!StorageTypeOK, StoredOnce, Entries,
         Storage!Contexts
<1> QED BY <1>2, <1>3, <1>4, <1>5, <1>6, <1>7

LEMMA StorageStutter == StorageInv /\ UNCHANGED storage => StorageInv'
BY DEF storage, StorageInv, Storage!StorageTypeOK, StoredOnce, Entries

LEMMA StorageNextStep == Careful /\ StorageInv /\ [ThreadsNext]_threadVars => StorageInv'
<1>1. [ThreadsNext]_threadVars => Storage!StorageNext \/ UNCHANGED storage
  BY DEF ThreadsNext, Of, threadVars
<1> QED BY <1>1, StorageStep, StorageStutter

\* A value that a context has given to a fiber_specific_ptr stays in one entry, with
\* that pointer's cleanup function, or was cleaned up once, for any contexts,
\* pointers and values; among clients that store nothing on top of what is stored.
THEOREM StoredValuesHaveOneOwner == Careful => (ThreadsSpec => []ValuesHaveOneOwner)
<1>1. ThreadsInit => StorageInv
  BY StorageInit DEF ThreadsInit
<1>2. StorageInv => ValuesHaveOneOwner
  <2> SUFFICES ASSUME StorageInv, NEW v \in Values
               PROVE  /\ cleaned[v] + Storage!Cardinality(Entries[v])
                           = IF given[v] = 0 THEN 0 ELSE 1
                      /\ \A e \in Entries[v] :
                            /\ fss_data_[e[1]][e[2]].cleanup_function = given[v]
                            /\ e[1] \in ended => e[1] = Main
    BY DEF ValuesHaveOneOwner, Storage!ValuesHaveOneOwner, StorageInv, Entries,
           Storage!get_fss_data
  <2>1. Storage!Cardinality(Entries[v]) = IF Entries[v] = {} THEN 0 ELSE 1
    <3>1. \A d, e \in Entries[v] : d = e
      BY DEF StorageInv, StoredOnce
    <3> DEFINE E == Entries[v]
    <3> HIDE DEF E
    <3>2. Storage!Cardinality(E) = IF E = {} THEN 0 ELSE 1
      BY <3>1, CountOfEntries DEF E
    <3> QED BY <3>2 DEF E
  <2> QED BY <2>1 DEF StorageInv, StoredOnce, Storage!StorageTypeOK
<1>3. CASE Careful
  <2>1. StorageInv /\ [ThreadsNext]_threadVars => StorageInv'
    BY <1>3, StorageNextStep
  <2> QED BY <1>1, <1>2, <2>1, PTL DEF ThreadsSpec
<1> QED BY <1>3

(***************************************************************************)
(* Sequences without repetitions.                                          *)
(***************************************************************************)

Elements(s) == {s[i] : i \in DOMAIN s}
Once(s) == \A i, j \in DOMAIN s : s[i] = s[j] => i = j

LEMMA AppendOnce ==
    ASSUME NEW S, NEW q \in Seq(S), NEW e \in S, Once(q), e \notin Elements(q)
    PROVE  /\ Append(q, e) \in Seq(S) /\ Once(Append(q, e)) /\ Append(q, e) # <<>>
           /\ Elements(Append(q, e)) = Elements(q) \cup {e}
<1> DEFINE r == Append(q, e)
<1>1. /\ r \in Seq(S) /\ Len(r) = Len(q) + 1 /\ r[Len(q) + 1] = e
      /\ \A i \in 1..Len(q) : r[i] = q[i]
  OBVIOUS
<1>2. DOMAIN r = 1..(Len(q) + 1) /\ DOMAIN q = 1..Len(q) /\ Len(q) \in Nat
  BY <1>1
<1> HIDE DEF r
<1>3. Elements(r) = Elements(q) \cup {e}
  <2>1. ASSUME NEW i \in DOMAIN r PROVE r[i] \in Elements(q) \cup {e}
    BY <1>1, <1>2 DEF Elements
  <2>2. ASSUME NEW i \in DOMAIN q PROVE q[i] \in Elements(r)
    <3>1. i \in DOMAIN r /\ r[i] = q[i]
      BY <1>1, <1>2
    <3> QED BY <3>1 DEF Elements
  <2>3. e \in Elements(r)
    <3>1. Len(q) + 1 \in DOMAIN r /\ r[Len(q) + 1] = e
      BY <1>1, <1>2
    <3> QED BY <3>1 DEF Elements
  <2> QED BY <2>1, <2>2, <2>3 DEF Elements
<1>4. Once(r)
  <2>1. \A i \in 1..Len(q) : r[i] # e
    BY <1>1, <1>2 DEF Elements
  <2> QED BY <1>1, <1>2, <2>1 DEF Once
<1>5. r # <<>>
  BY <1>1, <1>2
<1> QED BY <1>1, <1>3, <1>4, <1>5 DEF r

LEMMA ConcatOnce ==
    ASSUME NEW S, NEW p \in Seq(S), NEW q \in Seq(S), Once(p), Once(q),
           Elements(p) \cap Elements(q) = {}
    PROVE  /\ p \o q \in Seq(S) /\ Once(p \o q)
           /\ Elements(p \o q) = Elements(p) \cup Elements(q)
<1> DEFINE r == p \o q
<1>1. /\ r \in Seq(S) /\ Len(r) = Len(p) + Len(q)
      /\ \A i \in 1..Len(p) : r[i] = p[i]
      /\ \A i \in 1..Len(q) : r[Len(p) + i] = q[i]
  OBVIOUS
<1>2. /\ DOMAIN r = 1..(Len(p) + Len(q)) /\ DOMAIN p = 1..Len(p) /\ DOMAIN q = 1..Len(q)
      /\ Len(p) \in Nat /\ Len(q) \in Nat
  BY <1>1
<1> HIDE DEF r
<1>3. \A i \in DOMAIN r : IF i <= Len(p) THEN i \in DOMAIN p /\ r[i] = p[i]
                          ELSE i - Len(p) \in DOMAIN q /\ r[i] = q[i - Len(p)]
  <2>1. ASSUME NEW i \in DOMAIN r, ~(i <= Len(p)) PROVE r[i] = q[i - Len(p)]
    <3>1. i - Len(p) \in 1..Len(q) /\ Len(p) + (i - Len(p)) = i
      BY <1>2, <2>1
    <3> QED BY <1>1, <3>1
  <2> QED BY <1>1, <1>2, <2>1
<1>4. Elements(r) = Elements(p) \cup Elements(q)
  <2>1. ASSUME NEW i \in DOMAIN p PROVE p[i] \in Elements(r)
    <3>1. i \in DOMAIN r /\ r[i] = p[i]
      BY <1>1, <1>2
    <3> QED BY <3>1 DEF Elements
  <2>2. ASSUME NEW i \in DOMAIN q PROVE q[i] \in Elements(r)
    <3>1. Len(p) + i \in DOMAIN r /\ r[Len(p) + i] = q[i]
      BY <1>1, <1>2
    <3> QED BY <3>1 DEF Elements
  <2>3. ASSUME NEW i \in DOMAIN r PROVE r[i] \in Elements(p) \cup Elements(q)
    BY <1>3 DEF Elements
  <2> QED BY <2>1, <2>2, <2>3 DEF Elements
<1>5. ASSUME NEW i \in DOMAIN r, NEW j \in DOMAIN r, r[i] = r[j] PROVE i = j
  <2>1. \A k \in DOMAIN p, l \in DOMAIN q : p[k] # q[l]
    BY DEF Elements
  <2>2. CASE i <= Len(p) /\ j <= Len(p)
    BY <1>3, <1>5, <2>2 DEF Once
  <2>3. CASE i <= Len(p) /\ ~(j <= Len(p))
    BY <1>3, <1>5, <2>1, <2>3
  <2>4. CASE ~(i <= Len(p)) /\ j <= Len(p)
    BY <1>3, <1>5, <2>1, <2>4
  <2>5. CASE ~(i <= Len(p)) /\ ~(j <= Len(p))
    <3>1. i - Len(p) = j - Len(p)
      BY <1>3, <1>5, <2>5 DEF Once
    <3> QED BY <1>2, <3>1
  <2> QED BY <2>2, <2>3, <2>4, <2>5
<1>6. Once(r)
  BY <1>5 DEF Once
<1> QED BY <1>1, <1>4, <1>6 DEF r

LEMMA TailOnce ==
    ASSUME NEW S, NEW q \in Seq(S), q # <<>>, Once(q)
    PROVE  /\ Head(q) \in S /\ Head(q) \in Elements(q)
           /\ Tail(q) \in Seq(S) /\ Once(Tail(q))
           /\ Elements(Tail(q)) = Elements(q) \ {Head(q)}
<1> DEFINE r == Tail(q)
<1>1. /\ r \in Seq(S) /\ Len(r) = Len(q) - 1 /\ Head(q) = q[1] /\ Head(q) \in S
      /\ \A i \in 1..Len(r) : r[i] = q[i + 1]
  OBVIOUS
<1>2. DOMAIN r = 1..(Len(q) - 1) /\ DOMAIN q = 1..Len(q) /\ Len(q) \in Nat /\ Len(q) >= 1
  BY <1>1
<1> HIDE DEF r
<1>3. \A i \in DOMAIN r : i + 1 \in DOMAIN q /\ r[i] = q[i + 1] /\ i + 1 # 1
  BY <1>1, <1>2
<1>4. Once(r)
  <2> SUFFICES ASSUME NEW i \in DOMAIN r, NEW j \in DOMAIN r, r[i] = r[j] PROVE i = j
    BY DEF Once
  <2>1. i + 1 = j + 1
    BY <1>3 DEF Once
  <2> QED BY <1>2, <2>1
<1>5. \A x \in Elements(r) : x \in Elements(q) /\ x # q[1]
  BY <1>2, <1>3 DEF Elements, Once
<1>6. ASSUME NEW i \in DOMAIN q, q[i] # q[1] PROVE q[i] \in Elements(r)
  <2>1. i - 1 \in DOMAIN r /\ r[i - 1] = q[i]
    BY <1>1, <1>2, <1>6
  <2> QED BY <2>1 DEF Elements
<1>7. Elements(r) = Elements(q) \ {Head(q)}
  <2>1. Elements(q) \ {q[1]} \subseteq Elements(r)
    BY <1>6 DEF Elements
  <2> QED BY <1>1, <1>5, <2>1
<1>8. Head(q) \in Elements(q)
  BY <1>1, <1>2 DEF Elements
<1> QED BY <1>1, <1>4, <1>7, <1>8 DEF r

(***************************************************************************)
(* What sorting and counting do to a sequence.                             *)
(***************************************************************************)

LEMMA LeastNatural ==
    ASSUME NEW T, T \subseteq Nat, T # {}
    PROVE  \E n \in T : \A m \in T : n <= m
<1>1. \E x \in T : \A y \in T : ~ (<<y, x>> \in OpToRel(<, Nat))
  BY NatLessThanWellFounded, WFMin
<1>2. OpToRel(<, Nat) = {s \in Nat \X Nat : s[1] < s[2]}
  BY DEF OpToRel
<1>3. PICK x \in T : \A y \in T : ~ (<<y, x>> \in {s \in Nat \X Nat : s[1] < s[2]})
  BY <1>1, <1>2
<1>4. ASSUME NEW y \in T, y < x PROVE FALSE
  <2>1. <<y, x>> \in {s \in Nat \X Nat : s[1] < s[2]}
    BY <1>4
  <2> QED BY <1>3, <2>1
<1> QED BY <1>4, <1>3

\* A set of positions that holds what is before each of them is counted from 1.
LEMMA PrefixIsCounted ==
    ASSUME NEW n \in Nat, NEW P, P \subseteq 1..n, \A i \in P : 1..i \subseteq P
    PROVE  Cardinality(P) \in 0..n /\ P = 1..Cardinality(P)
<1> DEFINE T == (1..(n + 1)) \ P
<1>1. PICK k \in T : \A m \in T : k <= m
  <2>1. T \subseteq Nat /\ n + 1 \in T
    OBVIOUS
  <2> HIDE DEF T
  <2> QED BY <2>1, LeastNatural
<1>2. P = 1..(k - 1)
  <2>1. \A i \in 1..(k - 1) : i \in P
    BY <1>1
  <2>2. \A i \in P : i \in 1..(k - 1)
    <3>1. k \in 1..(n + 1) /\ k \notin P
      BY <1>1
    <3> SUFFICES ASSUME NEW i \in P, i >= k PROVE FALSE
      BY <3>1
    <3>2. k \in 1..i
      BY <3>1
    <3> QED BY <3>1, <3>2
  <2> QED BY <2>1, <2>2
<1>3. Cardinality(1..(k - 1)) = k - 1
  BY <1>1, FS_Interval
<1> QED BY <1>1, <1>2, <1>3

LEMMA InsertAtIs ==
    ASSUME NEW q, NEW k, NEW e
    PROVE  Scheduler!InsertAt(q, k, e) = SubSeq(q, 1, k - 1) \o <<e>> \o SubSeq(q, k, Len(q))
BY DEF Scheduler!InsertAt

\* r is q with e inserted at position k.
Inserted(r, q, k, e) ==
    /\ Len(r) = Len(q) + 1
    /\ \A i \in 1..(k - 1) : r[i] = q[i]
    /\ r[k] = e
    /\ \A i \in k..Len(q) : r[i + 1] = q[i]

LEMMA InsertedAt ==
    ASSUME NEW S, NEW q \in Seq(S), NEW k \in 1..(Len(q) + 1), NEW e \in S,
           NEW r, r = Scheduler!InsertAt(q, k, e)
    PROVE  r \in Seq(S) /\ Inserted(r, q, k, e)
<1> DEFINE a == SubSeq(q, 1, k - 1)
           b == SubSeq(q, k, Len(q))
<1>1. /\ a \in Seq(S) /\ Len(a) = k - 1 /\ \A i \in 1..(k - 1) : a[i] = q[i]
      /\ b \in Seq(S) /\ Len(b) = Len(q) - k + 1
      /\ \A i \in 1..(Len(q) - k + 1) : b[i] = q[k + i - 1]
  OBVIOUS
<1>3. r = a \o <<e>> \o b
  BY InsertAtIs
<1> HIDE DEF a, b
<1>4. /\ r \in Seq(S) /\ Len(r) = Len(a) + 1 + Len(b)
      /\ \A i \in 1..Len(a) : r[i] = a[i]
      /\ r[Len(a) + 1] = e
      /\ \A i \in 1..Len(b) : r[Len(a) + 1 + i] = b[i]
  <2>1. PICK c : c = a \o <<e>>
    OBVIOUS
  <2>2. /\ c \in Seq(S) /\ Len(c) = Len(a) + 1 /\ c[Len(a) + 1] = e
        /\ \A i \in 1..Len(a) : c[i] = a[i]
    BY <1>1, <2>1
  <2>3. PICK d \in Seq(S) : d = b
    BY <1>1
  <2>6. c \in Seq(S)
    BY <2>2
  <2>4. /\ c \o d \in Seq(S) /\ Len(c \o d) = Len(c) + Len(d)
        /\ \A i \in 1..Len(c) : (c \o d)[i] = c[i]
        /\ \A i \in 1..Len(d) : (c \o d)[Len(c) + i] = d[i]
    BY <2>6
  <2>5. r = c \o d
    BY <1>3, <2>1, <2>3
  <2>7. r \in Seq(S) /\ Len(r) = Len(c) + Len(d)
    BY <2>4, <2>5
  <2>8. \A i \in 1..Len(c) : r[i] = c[i]
    BY <2>4, <2>5
  <2>9. \A i \in 1..Len(d) : r[Len(c) + i] = d[i]
    BY <2>4, <2>5
  <2>10. Len(a) \in Nat /\ Len(b) \in Nat /\ Len(c) = Len(a) + 1 /\ Len(d) = Len(b)
    BY <1>1, <2>2, <2>3
  <2>11. (\A i \in 1..Len(a) : r[i] = a[i]) /\ r[Len(a) + 1] = e
    BY <2>2, <2>8, <2>10
  <2>12. \A i \in 1..Len(b) : r[Len(a) + 1 + i] = b[i]
    BY <2>3, <2>9, <2>10
  <2> QED BY <2>7, <2>10, <2>11, <2>12
<1>5. Len(q) \in Nat /\ Len(r) = Len(q) + 1
  BY <1>1, <1>4
<1>6. ASSUME NEW i \in k..Len(q) PROVE r[i + 1] = q[i]
  <2>1. /\ i - k + 1 \in 1..Len(b) /\ Len(a) + 1 + (i - k + 1) = i + 1
        /\ i - k + 1 \in 1..(Len(q) - k + 1) /\ k + (i - k + 1) - 1 = i
    BY <1>1, <1>5
  <2>2. r[i + 1] = b[i - k + 1]
    BY <1>4, <2>1
  <2>3. b[i - k + 1] = q[i]
    BY <1>1, <2>1
  <2> QED BY <2>2, <2>3
<1>7. \A i \in 1..(k - 1) : r[i] = q[i]
  BY <1>1, <1>4
<1>8. r[k] = e
  BY <1>1, <1>4
<1> QED BY <1>4, <1>5, <1>6, <1>7, <1>8 DEF Inserted

(***************************************************************************)
(* The scheduler of one thread.                                            *)
(***************************************************************************)

Runnable == {c \in Scheduler!Contexts : place[c] \in {"runs", "joined"}}

ReadyLinks == Once(ready) /\ Elements(ready) = Runnable \ {active}

\* The sleep queue holds who sleeps, once each, in the order of their deadlines.
SleepLinks ==
    /\ \A i, j \in DOMAIN sleep_queue_ :
        /\ sleep_queue_[i].ctx = sleep_queue_[j].ctx => i = j
        /\ i < j => sleep_queue_[i].tp <= sleep_queue_[j].tp
    /\ {sleep_queue_[i].ctx : i \in DOMAIN sleep_queue_}
         = {c \in Scheduler!Contexts : place[c] = "sleeps"}

\* Who joins a fiber is in its queue, and holds its fiber object until join() returns.
JoinLinks ==
    /\ \A f \in Launched :
        /\ Once(wait_queue_[f])
        /\ Elements(wait_queue_[f])
             = {c \in Scheduler!Contexts : place[c] = "joins" /\ joining[c] = f}
    /\ \A c \in Scheduler!Contexts : place[c] \in {"joins", "joined"} =>
        joining[c] \in joinable /\ creator[joining[c]] = c

\* The dispatcher runs or idles and main runs until both are gone; whoever is active runs.
Roles ==
    /\ place[Dispatcher] \in {"runs", "idle", "gone"}
    /\ place[Main] \notin {"new", "idle", "terminated"}
    /\ place[Dispatcher] = "idle" => active = Dispatcher
    /\ place[Dispatcher] = "gone" <=> place[Main] = "gone"
    /\ place[Dispatcher] = "gone" => active = Main
    /\ shutdown_ <=> place[Main] \in {"ends", "gone"}
    /\ place[active] \in {"runs", "joined", "idle", "gone"}
    /\ \A f \in Launched : place[f] \notin {"ends", "idle"} /\ (f = active => place[f] # "gone")

\* A fiber's context is destroyed with the last of its two references.
References ==
    /\ \A f \in Launched :
        /\ use_count_[f] = (IF f \in joinable THEN 1 ELSE 0)
                             + (IF f \in worker_queue_ THEN 1 ELSE 0)
        /\ place[f] \in {"new", "gone"} <=> f \notin joinable /\ f \notin worker_queue_
        /\ f \notin worker_queue_ => place[f] \in {"new", "gone", "terminated"}
    /\ \A f \in Elements(terminated_queue_) : f \in worker_queue_ /\ place[f] = "terminated"

SchedulerInv ==
    /\ Scheduler!TypeOK
    /\ ReadyLinks /\ SleepLinks /\ JoinLinks /\ Roles /\ References

LEMMA SwitchOnce ==
    ASSUME NEW q \in Seq(Scheduler!Contexts), Once(q), q # <<>>, Scheduler!SwitchTo(q)
    PROVE  /\ active' \in Scheduler!Contexts /\ active' \in Elements(q)
           /\ ready' \in Seq(Scheduler!Contexts) /\ Once(ready')
           /\ Elements(ready') = Elements(q) \ {active'}
BY TailOnce DEF Scheduler!SwitchTo

LEMMA SchedulerConstants ==
    /\ Main # Dispatcher /\ Main \notin Launched /\ Dispatcher \notin Launched
    /\ NoContext \notin Scheduler!Contexts
    /\ Scheduler!Contexts = Launched \cup {Main, Dispatcher}
    /\ MaxTime \in Nat /\ MaxSwitches \in Nat
BY ThreadsAssumption DEF Scheduler!SchedulerAssumption, Scheduler!Contexts

LEMMA SchedulerInit == Scheduler!Init => SchedulerInv
<1> SUFFICES ASSUME Scheduler!Init PROVE SchedulerInv
  OBVIOUS
<1> USE SchedulerConstants DEF Scheduler!Init
<1>1. Scheduler!TypeOK
  <2>1. /\ ready \in Seq(Scheduler!Contexts)
        /\ wait_queue_ \in [Scheduler!Contexts -> Seq(Scheduler!Contexts)]
        /\ place \in [Scheduler!Contexts -> Scheduler!Places]
    BY DEF Scheduler!Places
  <2>2. /\ use_count_ \in [Launched -> 0..2] /\ now \in 0..MaxTime
        /\ switches \in [Scheduler!Contexts -> 0..MaxSwitches]
        /\ sleep_queue_ \in Seq([ctx : Scheduler!Contexts, tp : 0..MaxTime])
        /\ terminated_queue_ \in Seq(Launched)
    OBVIOUS
  <2> QED BY <2>1, <2>2 DEF Scheduler!TypeOK
<1>2. ReadyLinks
  <2>1. Runnable = {Main, Dispatcher}
    BY DEF Runnable
  <2> QED BY <2>1 DEF ReadyLinks, Once, Elements
<1>3. SleepLinks /\ JoinLinks
  BY DEF SleepLinks, JoinLinks, Once, Elements
<1>4. Roles /\ References
  BY DEF Roles, References, Elements
<1> QED BY <1>1, <1>2, <1>3, <1>4 DEF SchedulerInv

\* Who runs its function can switch away: the dispatcher, at least, is ready.
LEMMA UserRuns ==
    ASSUME SchedulerInv, NEW c \in Scheduler!Contexts, Scheduler!InUserCode(c)
    PROVE  /\ c = active /\ c # Dispatcher /\ place[c] = "runs"
           /\ ready \in Seq(Scheduler!Contexts) /\ Once(ready) /\ ready # <<>>
           /\ Elements(ready) = Runnable \ {c} /\ c \in Runnable
           /\ place[Dispatcher] = "runs" /\ (~shutdown_ \/ c # Main)
           /\ c \in Launched => c \in worker_queue_
<1>1. c = active /\ c # Dispatcher /\ place[c] = "runs"
  BY DEF Scheduler!InUserCode
<1>2. place[Dispatcher] = "runs" /\ (~shutdown_ \/ c # Main)
  BY <1>1 DEF SchedulerInv, Roles
<1>3. ready \in Seq(Scheduler!Contexts) /\ Once(ready) /\ Elements(ready) = Runnable \ {c}
  BY <1>1 DEF SchedulerInv, ReadyLinks, Scheduler!TypeOK
<1>4. Dispatcher \in Elements(ready)
  BY <1>1, <1>2, <1>3, SchedulerConstants DEF Runnable
<1>5. ready # <<>>
  BY <1>4 DEF Elements
<1>6. c \in Launched => c \in worker_queue_
  BY <1>1 DEF SchedulerInv, References
<1>7. c \in Runnable
  BY <1>1 DEF Runnable
<1> QED BY <1>1, <1>2, <1>3, <1>5, <1>6, <1>7

LEMMA SpendTypes ==
    ASSUME SchedulerInv, NEW c \in Scheduler!Contexts, Scheduler!Spend(c)
    PROVE  switches' \in [Scheduler!Contexts -> 0..MaxSwitches]
<1>1. switches \in [Scheduler!Contexts -> 0..MaxSwitches] /\ MaxSwitches \in Nat
  BY SchedulerConstants DEF SchedulerInv, Scheduler!TypeOK
<1>2. switches[c] < MaxSwitches /\ switches' = [switches EXCEPT ![c] = @ + 1]
  BY DEF Scheduler!Spend
<1>3. switches[c] + 1 \in 0..MaxSwitches
  BY <1>1, <1>2
<1> QED BY <1>1, <1>2, <1>3

\* A switch that leaves links, references and places of others alone.
LEMMA YieldStep ==
    ASSUME SchedulerInv, NEW c \in Scheduler!Contexts, Scheduler!Yield(c)
    PROVE  SchedulerInv'
<1> DEFINE q == Append(ready, c)
<1>1. /\ c = active /\ c # Dispatcher /\ place[c] = "runs"
      /\ ready \in Seq(Scheduler!Contexts) /\ Once(ready)
      /\ Elements(ready) = Runnable \ {c} /\ c \in Runnable
      /\ place[Dispatcher] = "runs"
  BY UserRuns DEF Scheduler!Yield
<1>2. q \in Seq(Scheduler!Contexts) /\ Once(q) /\ q # <<>> /\ Elements(q) = Runnable
  <2>1. c \notin Elements(ready)
    BY <1>1
  <2>2. /\ q \in Seq(Scheduler!Contexts) /\ Once(q) /\ q # <<>>
        /\ Elements(q) = Elements(ready) \cup {c}
    BY <1>1, <2>1, AppendOnce
  <2> HIDE DEF q
  <2> QED BY <1>1, <2>2
<1>3. /\ active' \in Scheduler!Contexts /\ active' \in Runnable
      /\ ready' \in Seq(Scheduler!Contexts) /\ Once(ready')
      /\ Elements(ready') = Runnable \ {active'}
  <2>1. Scheduler!SwitchTo(q)
    BY DEF Scheduler!Yield
  <2> HIDE DEF q
  <2> QED BY <1>2, <2>1, SwitchOnce
<1>4. UNCHANGED <<sleep_queue_, worker_queue_, terminated_queue_, wait_queue_, use_count_,
                  creator, joinable, joining, shutdown_, flag_, place, now>>
  BY DEF Scheduler!Yield, Scheduler!handles
<1>5. switches' \in [Scheduler!Contexts -> 0..MaxSwitches]
  BY SpendTypes DEF Scheduler!Yield
<1>6. Scheduler!TypeOK'
  BY <1>3, <1>4, <1>5 DEF SchedulerInv, Scheduler!TypeOK
<1>7. ReadyLinks'
  BY <1>3, <1>4 DEF ReadyLinks, Runnable
<1>8. SleepLinks' /\ JoinLinks' /\ References'
  BY <1>4 DEF SchedulerInv, SleepLinks, JoinLinks, References
<1>9. Roles'
  BY <1>1, <1>3, <1>4 DEF SchedulerInv, Roles, Runnable
<1> QED BY <1>6, <1>7, <1>8, <1>9 DEF SchedulerInv

Sleepers(q) == {q[i].ctx : i \in DOMAIN q}
Sorted(q) ==
    \A i, j \in DOMAIN q :
        /\ q[i].ctx = q[j].ctx => i = j
        /\ i < j => q[i].tp <= q[j].tp

\* Inserting by deadline keeps the order.
LEMMA InsertedByDeadline ==
    ASSUME NEW q \in Seq([ctx : Scheduler!Contexts, tp : 0..MaxTime]), Sorted(q),
           NEW c \in Scheduler!Contexts, c \notin Sleepers(q), NEW tp \in 0..MaxTime,
           NEW r,
           r = Scheduler!InsertAt(q, 1 + Scheduler!Cardinality({i \in DOMAIN q : q[i].tp <= tp}),
                                  [ctx |-> c, tp |-> tp])
    PROVE  /\ r \in Seq([ctx : Scheduler!Contexts, tp : 0..MaxTime]) /\ Sorted(r)
           /\ Sleepers(r) = Sleepers(q) \cup {c}
<1> DEFINE P == {i \in DOMAIN q : q[i].tp <= tp}
           n == Cardinality(P)
           T == [ctx : Scheduler!Contexts, tp : 0..MaxTime]
           e == [ctx |-> c, tp |-> tp]
<1>1. DOMAIN q = 1..Len(q) /\ Len(q) \in Nat /\ e \in T /\ MaxTime \in Nat
      /\ e.ctx = c /\ e.tp = tp
  BY SchedulerConstants
<1>2. \A i \in DOMAIN q : q[i] \in T /\ q[i].tp \in 0..MaxTime
  <2>1. \A i \in DOMAIN q : q[i] \in T
    <3>1. q \in Seq(T)
      OBVIOUS
    <3> HIDE DEF T
    <3> QED BY <3>1
  <2> QED BY <2>1
<1>3. n \in 0..Len(q) /\ P = 1..n
  <2>1. P \subseteq 1..Len(q)
    BY <1>1
  <2>2. ASSUME NEW i \in P, NEW j \in 1..i PROVE j \in P
    <3>1. j \in DOMAIN q /\ i \in DOMAIN q /\ (j = i \/ j < i)
      BY <1>1
    <3>2. q[j].tp <= q[i].tp
      BY <1>1, <1>2, <3>1 DEF Sorted
    <3> QED BY <1>1, <1>2, <3>1, <3>2
  <2> HIDE DEF P
  <2>3. \A i \in P : 1..i \subseteq P
    BY <2>2
  <2> QED BY <1>1, <2>1, <2>3, PrefixIsCounted
<1> HIDE DEF n
<1>4. PICK k \in 1..(Len(q) + 1) : k = n + 1
  BY <1>1, <1>3
<1>5. r = Scheduler!InsertAt(q, k, e)
  <2>1. Scheduler!Cardinality(P) = n
    BY DEF n, Scheduler!Cardinality, Cardinality
  <2>2. 1 + n = k
    BY <1>3, <1>4
  <2> QED BY <2>1, <2>2
<1>6. \A i \in DOMAIN q : IF i < k THEN q[i].tp <= tp ELSE tp <= q[i].tp
  <2>1. \A i \in DOMAIN q : i \in P <=> i < k
    <3> HIDE DEF P
    <3> QED BY <1>1, <1>3, <1>4
  <2> QED BY <1>1, <1>2, <2>1
<1> HIDE DEF P, T, e
<1>7. /\ r \in Seq(T) /\ Len(r) = Len(q) + 1
      /\ \A i \in 1..(k - 1) : r[i] = q[i]
      /\ r[k] = e
      /\ \A i \in k..Len(q) : r[i + 1] = q[i]
  <2>1. q \in Seq(T) /\ e \in T
    BY <1>1 DEF T
  <2>2. r \in Seq(T) /\ Inserted(r, q, k, e)
    BY <1>5, <2>1, InsertedAt
  <2> QED BY <2>2 DEF Inserted
<1>8. DOMAIN r = 1..(Len(q) + 1)
  BY <1>7
<1>9. \A i \in DOMAIN r :
        \/ i < k /\ i \in DOMAIN q /\ r[i] = q[i]
        \/ i = k /\ r[i] = e
        \/ i > k /\ i - 1 \in DOMAIN q /\ r[i] = q[i - 1]
  <2> SUFFICES ASSUME NEW i \in DOMAIN r
               PROVE  \/ i < k /\ i \in DOMAIN q /\ r[i] = q[i]
                      \/ i = k /\ r[i] = e
                      \/ i > k /\ i - 1 \in DOMAIN q /\ r[i] = q[i - 1]
    OBVIOUS
  <2>1. CASE i < k
    BY <1>1, <1>7, <1>8, <2>1
  <2>2. CASE i = k
    BY <1>7, <2>2
  <2>3. CASE i > k
    <3>1. i - 1 \in k..Len(q) /\ i - 1 + 1 = i
      BY <1>1, <1>8, <2>3
    <3>2. r[i - 1 + 1] = q[i - 1]
      BY <1>7, <3>1
    <3> QED BY <1>1, <2>3, <3>1, <3>2
  <2> QED BY <1>8, <2>1, <2>2, <2>3
<1>10. \A i \in DOMAIN q : q[i].ctx # c
  BY DEF Sleepers
<1>11. Sorted(r)
  <2> SUFFICES ASSUME NEW i \in DOMAIN r, NEW j \in DOMAIN r
               PROVE  /\ r[i].ctx = r[j].ctx => i = j
                      /\ i < j => r[i].tp <= r[j].tp
    BY DEF Sorted
  <2>1. i \in Int /\ j \in Int /\ k \in Int
    BY <1>8
  <2>2. CASE i = k
    <3>1. r[i].ctx = c /\ r[i].tp = tp
      BY <1>1, <1>9, <2>2
    <3>2. j # k => r[j].ctx # c
      BY <1>9, <1>10
    <3>3. j > k => tp <= r[j].tp
      <4>1. j > k => j - 1 \in DOMAIN q /\ r[j] = q[j - 1] /\ ~(j - 1 < k)
        BY <1>9, <2>1
      <4> QED BY <1>6, <4>1
    <3> QED BY <1>1, <2>2, <3>1, <3>2, <3>3
  <2>3. CASE i # k /\ j = k
    <3>1. r[j].ctx = c /\ r[j].tp = tp
      BY <1>1, <1>9, <2>3
    <3>2. r[i].ctx # c
      BY <1>9, <1>10, <2>3
    <3>3. i < k => r[i].tp <= tp
      BY <1>6, <1>9, <2>1
    <3> QED BY <2>3, <3>1, <3>2, <3>3
  <2>4. CASE i # k /\ j # k
    <3> DEFINE m(h) == IF h < k THEN h ELSE h - 1
    <3>1. m(i) \in DOMAIN q /\ r[i] = q[m(i)]
      <4>1. CASE i < k
        BY <1>9, <2>1, <4>1
      <4>2. CASE i > k
        BY <1>9, <2>1, <4>2
      <4> QED BY <2>1, <2>4, <4>1, <4>2
    <3>2. m(j) \in DOMAIN q /\ r[j] = q[m(j)]
      <4>1. CASE j < k
        BY <1>9, <2>1, <4>1
      <4>2. CASE j > k
        BY <1>9, <2>1, <4>2
      <4> QED BY <2>1, <2>4, <4>1, <4>2
    <3>3. (m(i) = m(j) => i = j) /\ (i < j => m(i) < m(j))
      BY <2>1, <2>4
    <3> HIDE DEF m
    <3> QED BY <3>1, <3>2, <3>3 DEF Sorted
  <2> QED BY <2>2, <2>3, <2>4
<1>12. Sleepers(r) = Sleepers(q) \cup {c}
  <2>1. ASSUME NEW i \in DOMAIN r PROVE r[i].ctx \in Sleepers(q) \cup {c}
    BY <1>1, <1>9 DEF Sleepers
  <2>2. ASSUME NEW i \in DOMAIN q PROVE q[i].ctx \in Sleepers(r)
    <3>1. CASE i < k
      <4>1. i \in DOMAIN r /\ r[i] = q[i]
        BY <1>1, <1>7, <1>8, <3>1
      <4> QED BY <4>1 DEF Sleepers
    <3>2. CASE ~(i < k)
      <4>1. i \in k..Len(q)
        BY <1>1, <3>2
      <4>2. r[i + 1] = q[i]
        BY <1>7, <4>1
      <4>3. i + 1 \in DOMAIN r
        BY <1>1, <1>8, <3>2
      <4> QED BY <4>2, <4>3 DEF Sleepers
    <3> QED BY <3>1, <3>2
  <2>3. c \in Sleepers(r)
    <3>1. k \in DOMAIN r /\ r[k].ctx = c
      BY <1>1, <1>7, <1>8
    <3> QED BY <3>1 DEF Sleepers
  <2>4. \A x \in Sleepers(r) : x \in Sleepers(q) \cup {c}
    BY <2>1 DEF Sleepers
  <2>5. \A x \in Sleepers(q) : x \in Sleepers(r)
    BY <2>2 DEF Sleepers
  <2> QED BY <2>3, <2>4, <2>5
<1> QED BY <1>7, <1>11, <1>12 DEF T

LEMMA SleepStep ==
    ASSUME SchedulerInv, NEW c \in Scheduler!Contexts, NEW tp \in now..MaxTime,
           Scheduler!Sleep(c, tp)
    PROVE  SchedulerInv'
<1>1. /\ c = active /\ c # Dispatcher /\ place[c] = "runs"
      /\ ready \in Seq(Scheduler!Contexts) /\ Once(ready) /\ ready # <<>>
      /\ Elements(ready) = Runnable \ {c} /\ c \in Runnable
      /\ place[Dispatcher] = "runs" /\ (~shutdown_ \/ c # Main)
      /\ c \in Launched => c \in worker_queue_
  BY UserRuns DEF Scheduler!Sleep
<1>2. /\ active' \in Scheduler!Contexts /\ active' \in Runnable \ {c}
      /\ ready' \in Seq(Scheduler!Contexts) /\ Once(ready')
      /\ Elements(ready') = (Runnable \ {c}) \ {active'}
  BY <1>1, SwitchOnce DEF Scheduler!Sleep
<1>3. /\ UNCHANGED <<worker_queue_, terminated_queue_, wait_queue_, use_count_,
                     creator, joinable, joining, shutdown_, flag_, now>>
      /\ place' = [place EXCEPT ![c] = "sleeps"]
  BY DEF Scheduler!Sleep, Scheduler!handles
<1>4. place \in [Scheduler!Contexts -> Scheduler!Places]
      /\ now \in 0..MaxTime /\ tp \in 0..MaxTime
      /\ sleep_queue_ \in Seq([ctx : Scheduler!Contexts, tp : 0..MaxTime])
  BY SchedulerConstants DEF SchedulerInv, Scheduler!TypeOK
<1>5. /\ sleep_queue_' \in Seq([ctx : Scheduler!Contexts, tp : 0..MaxTime])
      /\ Sorted(sleep_queue_') /\ Sleepers(sleep_queue_') = Sleepers(sleep_queue_) \cup {c}
  <2>1. Sorted(sleep_queue_) /\ c \notin Sleepers(sleep_queue_)
    BY <1>1 DEF SchedulerInv, SleepLinks, Sorted, Sleepers
  <2>2. sleep_queue_'
          = Scheduler!InsertAt(sleep_queue_,
              1 + Scheduler!Cardinality({i \in DOMAIN sleep_queue_ : sleep_queue_[i].tp <= tp}),
              [ctx |-> c, tp |-> tp])
    BY DEF Scheduler!Sleep, Scheduler!InOrderOfDeadline
  <2> QED BY <1>4, <2>1, <2>2, InsertedByDeadline
<1>6. switches' \in [Scheduler!Contexts -> 0..MaxSwitches]
  BY SpendTypes DEF Scheduler!Sleep
<1>7. \A d \in Scheduler!Contexts : place'[d] = IF d = c THEN "sleeps" ELSE place[d]
  BY <1>3, <1>4
<1>8. Scheduler!TypeOK'
  <2>1. place' \in [Scheduler!Contexts -> Scheduler!Places]
    BY <1>3, <1>4 DEF Scheduler!Places
  <2> QED BY <1>2, <1>3, <1>5, <1>6, <2>1 DEF SchedulerInv, Scheduler!TypeOK
<1>9. ReadyLinks'
  <2>1. Runnable' = Runnable \ {c}
    BY <1>7 DEF Runnable
  <2> QED BY <1>2, <2>1 DEF ReadyLinks
<1>10. SleepLinks'
  <2>1. Sleepers(sleep_queue_) = {d \in Scheduler!Contexts : place[d] = "sleeps"}
    BY DEF SchedulerInv, SleepLinks, Sleepers
  <2>2. Sleepers(sleep_queue_') = {d \in Scheduler!Contexts : place'[d] = "sleeps"}
    BY <1>5, <1>7, <2>1
  <2> QED BY <1>5, <2>2 DEF SleepLinks, Sleepers, Sorted
<1>11. JoinLinks'
  BY <1>1, <1>3, <1>7 DEF SchedulerInv, JoinLinks
<1>12. Roles'
  <2>1. place'[active'] = place[active'] /\ active' # c
    BY <1>2, <1>7
  <2>2. /\ place'[Dispatcher] = "runs" /\ place'[Main] \notin {"new", "idle", "terminated", "gone"}
        /\ shutdown_' <=> place'[Main] \in {"ends", "gone"}
    BY <1>1, <1>3, <1>7, SchedulerConstants DEF SchedulerInv, Roles
  <2>3. place[active'] \in {"runs", "joined"}
    BY <1>2 DEF Runnable
  <2>4. \A f \in Launched : place'[f] \notin {"ends", "idle"} /\ (f = active' => place'[f] # "gone")
    BY <1>7, <2>1, <2>3, SchedulerConstants DEF SchedulerInv, Roles
  <2> QED BY <2>1, <2>2, <2>3, <2>4 DEF Roles
<1>13. References'
  BY <1>1, <1>3, <1>7, SchedulerConstants DEF SchedulerInv, References
<1> QED BY <1>8, <1>9, <1>10, <1>11, <1>12, <1>13 DEF SchedulerInv

LEMMA JoinStep ==
    ASSUME SchedulerInv, NEW c \in Scheduler!Contexts, NEW f \in Launched,
           Scheduler!Join(c, f)
    PROVE  SchedulerInv'
<1>1. /\ c = active /\ c # Dispatcher /\ place[c] = "runs"
      /\ ready \in Seq(Scheduler!Contexts) /\ Once(ready) /\ ready # <<>>
      /\ Elements(ready) = Runnable \ {c} /\ c \in Runnable
      /\ place[Dispatcher] = "runs" /\ (~shutdown_ \/ c # Main)
      /\ c \in Launched => c \in worker_queue_
  BY UserRuns DEF Scheduler!Join
<1>2. /\ active' \in Scheduler!Contexts /\ active' \in Runnable \ {c}
      /\ ready' \in Seq(Scheduler!Contexts) /\ Once(ready')
      /\ Elements(ready') = (Runnable \ {c}) \ {active'}
  BY <1>1, SwitchOnce DEF Scheduler!Join
<1>3. /\ UNCHANGED <<sleep_queue_, worker_queue_, terminated_queue_, use_count_,
                     creator, joinable, shutdown_, flag_, now, switches>>
      /\ place' = [place EXCEPT ![c] = "joins"]
      /\ joining' = [joining EXCEPT ![c] = f]
      /\ wait_queue_' = [wait_queue_ EXCEPT ![f] = Append(@, c)]
      /\ f \in joinable /\ creator[f] = c
  BY DEF Scheduler!Join
<1>4. /\ place \in [Scheduler!Contexts -> Scheduler!Places]
      /\ wait_queue_ \in [Scheduler!Contexts -> Seq(Scheduler!Contexts)]
      /\ joining \in [Scheduler!Contexts -> Launched \cup {NoContext}]
      /\ f \in Scheduler!Contexts
  BY SchedulerConstants DEF SchedulerInv, Scheduler!TypeOK
<1>5. /\ Append(wait_queue_[f], c) \in Seq(Scheduler!Contexts) /\ Once(Append(wait_queue_[f], c))
      /\ Elements(Append(wait_queue_[f], c)) = Elements(wait_queue_[f]) \cup {c}
  <2>1. c \notin Elements(wait_queue_[f]) /\ Once(wait_queue_[f])
    BY <1>1 DEF SchedulerInv, JoinLinks
  <2> QED BY <1>4, <2>1, AppendOnce
<1>6. /\ \A d \in Scheduler!Contexts : place'[d] = IF d = c THEN "joins" ELSE place[d]
      /\ \A d \in Scheduler!Contexts : joining'[d] = IF d = c THEN f ELSE joining[d]
      /\ \A d \in Scheduler!Contexts \ {f} : wait_queue_'[d] = wait_queue_[d]
      /\ wait_queue_'[f] = Append(wait_queue_[f], c)
  BY <1>3, <1>4
<1>7. Scheduler!TypeOK'
  <2>1. place' \in [Scheduler!Contexts -> Scheduler!Places]
    BY <1>3, <1>4 DEF Scheduler!Places
  <2>2. wait_queue_' \in [Scheduler!Contexts -> Seq(Scheduler!Contexts)]
    BY <1>3, <1>4, <1>5
  <2>3. joining' \in [Scheduler!Contexts -> Launched \cup {NoContext}]
    BY <1>3, <1>4
  <2> QED BY <1>2, <1>3, <2>1, <2>2, <2>3 DEF SchedulerInv, Scheduler!TypeOK
<1>8. ReadyLinks'
  <2>1. Runnable' = Runnable \ {c}
    BY <1>6 DEF Runnable
  <2> QED BY <1>2, <2>1 DEF ReadyLinks
<1>9. SleepLinks'
  BY <1>1, <1>3, <1>6 DEF SchedulerInv, SleepLinks
<1>10. JoinLinks'
  <2>1. ASSUME NEW g \in Launched
        PROVE  /\ Once(wait_queue_'[g])
               /\ Elements(wait_queue_'[g])
                    = {d \in Scheduler!Contexts : place'[d] = "joins" /\ joining'[d] = g}
    <3>1. Elements(wait_queue_[g])
            = {d \in Scheduler!Contexts : place[d] = "joins" /\ joining[d] = g}
          /\ Once(wait_queue_[g]) /\ g \in Scheduler!Contexts
      BY SchedulerConstants DEF SchedulerInv, JoinLinks
    <3>2. CASE g = f
      <4>1. PICK w : w = wait_queue_'[g]
        OBVIOUS
      <4>2. Once(w) /\ Elements(w) = Elements(wait_queue_[g]) \cup {c}
        BY <1>5, <1>6, <3>2, <4>1
      <4>3. Elements(w) = {d \in Scheduler!Contexts : place'[d] = "joins" /\ joining'[d] = g}
        BY <1>1, <1>6, <3>1, <3>2, <4>2
      <4> QED BY <4>1, <4>2, <4>3
    <3>3. CASE g # f
      BY <1>1, <1>6, <3>1, <3>3
    <3> QED BY <3>2, <3>3
  <2>2. \A d \in Scheduler!Contexts : place'[d] \in {"joins", "joined"} =>
          joining'[d] \in joinable' /\ creator'[joining'[d]] = d
    BY <1>3, <1>6 DEF SchedulerInv, JoinLinks
  <2> QED BY <2>1, <2>2 DEF JoinLinks
<1>11. Roles'
  <2>1. place'[active'] = place[active'] /\ active' # c
    BY <1>2, <1>6
  <2>2. /\ place'[Dispatcher] = "runs" /\ place'[Main] \notin {"new", "idle", "terminated", "gone"}
        /\ shutdown_' <=> place'[Main] \in {"ends", "gone"}
    BY <1>1, <1>3, <1>6, SchedulerConstants DEF SchedulerInv, Roles
  <2>3. place[active'] \in {"runs", "joined"}
    BY <1>2 DEF Runnable
  <2>4. \A g \in Launched : place'[g] \notin {"ends", "idle"} /\ (g = active' => place'[g] # "gone")
    BY <1>6, <2>1, <2>3, SchedulerConstants DEF SchedulerInv, Roles
  <2> QED BY <2>1, <2>2, <2>3, <2>4 DEF Roles
<1>12. References'
  BY <1>1, <1>3, <1>6, SchedulerConstants DEF SchedulerInv, References
<1> QED BY <1>7, <1>8, <1>9, <1>10, <1>11, <1>12 DEF SchedulerInv

\* The fiber object of f is reset by c, whose it is; c goes on running.
LEMMA ResetStep ==
    ASSUME SchedulerInv, NEW c \in Scheduler!Contexts, NEW f \in Launched,
           c = active, place[c] \in {"runs", "joined"},
           place[c] = "joined" => joining[c] = f,
           f \in joinable, creator[f] = c,
           Scheduler!Reset(f, [place EXCEPT ![c] = "runs"]),
           \/ UNCHANGED joining
           \/ joining' = [joining EXCEPT ![c] = NoContext],
           UNCHANGED <<active, ready, sleep_queue_, worker_queue_, terminated_queue_,
                       wait_queue_, shutdown_, flag_, now, switches>>
    PROVE  SchedulerInv'
<1>1. /\ place \in [Scheduler!Contexts -> Scheduler!Places]
      /\ use_count_ \in [Launched -> 0..2]
      /\ joining \in [Scheduler!Contexts -> Launched \cup {NoContext}]
      /\ joinable \subseteq Launched /\ f \in Scheduler!Contexts
  BY SchedulerConstants DEF SchedulerInv, Scheduler!TypeOK
<1>2. /\ joinable' = joinable \ {f} /\ creator' = creator
      /\ use_count_' = [use_count_ EXCEPT ![f] = @ - 1]
  <2>1. use_count_' = [g \in Launched |-> IF g \in {f} THEN use_count_[g] - 1 ELSE use_count_[g]]
    BY DEF Scheduler!Reset, Scheduler!Release
  <2> QED BY <1>1, <2>1 DEF Scheduler!Reset
<1>3. use_count_[f] = IF f \in worker_queue_ THEN 2 ELSE 1
  BY <1>1 DEF SchedulerInv, References
<1>4. \A d \in Scheduler!Contexts :
        place'[d] = IF d = f /\ f \notin worker_queue_ THEN "gone"
                    ELSE IF d = c THEN "runs" ELSE place[d]
  BY <1>1, <1>3 DEF Scheduler!Reset, Scheduler!Release, Scheduler!LastReference
<1>5. f \notin worker_queue_ => place[f] = "terminated" /\ f # c
  BY <1>1 DEF SchedulerInv, References
<1>6. place' \in [Scheduler!Contexts -> Scheduler!Places]
  <2>1. DOMAIN place' = Scheduler!Contexts /\ place' = [d \in Scheduler!Contexts |-> place'[d]]
    BY DEF Scheduler!Reset, Scheduler!Release
  <2>2. \A d \in Scheduler!Contexts : place'[d] \in Scheduler!Places
    BY <1>1, <1>4 DEF Scheduler!Places
  <2> QED BY <2>1, <2>2
<1>7. Scheduler!TypeOK'
  <2>1. use_count_' \in [Launched -> 0..2]
    BY <1>1, <1>2, <1>3
  <2>2. joining' \in [Scheduler!Contexts -> Launched \cup {NoContext}]
    BY <1>1
  <2> QED BY <1>2, <1>6, <2>1, <2>2 DEF SchedulerInv, Scheduler!TypeOK
<1>8. ReadyLinks'
  <2>1. Runnable' = Runnable
    BY <1>4, <1>5 DEF Runnable
  <2> QED BY <2>1 DEF SchedulerInv, ReadyLinks
<1>9. \A d \in Scheduler!Contexts, p \in {"sleeps", "joins"} : place'[d] = p <=> place[d] = p
  BY <1>4, <1>5
<1>10. SleepLinks'
  BY <1>9 DEF SchedulerInv, SleepLinks
<1>11. \A d \in Scheduler!Contexts \ {c} : joining'[d] = joining[d]
  BY <1>1
<1>12. JoinLinks'
  <2>1. ASSUME NEW g \in Launched
        PROVE  {d \in Scheduler!Contexts : place'[d] = "joins" /\ joining'[d] = g}
                 = {d \in Scheduler!Contexts : place[d] = "joins" /\ joining[d] = g}
    BY <1>9, <1>11
  <2>2. ASSUME NEW d \in Scheduler!Contexts, place'[d] \in {"joins", "joined"}
        PROVE  joining'[d] \in joinable' /\ creator'[joining'[d]] = d
    <3>1. d # c /\ place[d] \in {"joins", "joined"}
      BY <1>4, <1>5, <2>2
    <3>2. joining[d] \in joinable /\ creator[joining[d]] = d
      BY <3>1 DEF SchedulerInv, JoinLinks
    <3> QED BY <1>2, <1>11, <3>1, <3>2
  <2> QED BY <2>1, <2>2 DEF SchedulerInv, JoinLinks
<1>13. Roles'
  <2>1. \A p \in {"idle", "gone", "new", "terminated", "ends"} :
          /\ place'[Dispatcher] = p <=> place[Dispatcher] = p
          /\ place'[Main] = p <=> place[Main] = p
    BY <1>4, <1>5, SchedulerConstants
  <2>2. place'[Dispatcher] \in {"runs", "idle", "gone"}
    BY <1>4, <1>5, SchedulerConstants DEF SchedulerInv, Roles
  <2>3. place'[active] = "runs"
    BY <1>4, <1>5
  <2>4. \A g \in Launched : place'[g] \notin {"ends", "idle"}
                            /\ (g = active => place'[g] # "gone")
    BY <1>4, <2>3, SchedulerConstants DEF SchedulerInv, Roles
  <2> QED BY <2>1, <2>2, <2>3, <2>4 DEF SchedulerInv, Roles
<1>14. References'
  <2>1. ASSUME NEW g \in Launched
        PROVE  /\ use_count_'[g] = (IF g \in joinable' THEN 1 ELSE 0)
                                     + (IF g \in worker_queue_ THEN 1 ELSE 0)
               /\ place'[g] \in {"new", "gone"} <=> g \notin joinable' /\ g \notin worker_queue_
               /\ g \notin worker_queue_ => place'[g] \in {"new", "gone", "terminated"}
    <3>1. /\ use_count_[g] = (IF g \in joinable THEN 1 ELSE 0)
                               + (IF g \in worker_queue_ THEN 1 ELSE 0)
          /\ place[g] \in {"new", "gone"} <=> g \notin joinable /\ g \notin worker_queue_
          /\ g \notin worker_queue_ => place[g] \in {"new", "gone", "terminated"}
      BY DEF SchedulerInv, References
    <3>2. CASE g = f
      BY <1>1, <1>2, <1>3, <1>4, <1>5, <3>1, <3>2, SchedulerConstants
    <3>3. CASE g # f
      BY <1>1, <1>2, <1>4, <3>1, <3>3, SchedulerConstants
    <3> QED BY <3>2, <3>3
  <2>2. ASSUME NEW g \in Elements(terminated_queue_)
        PROVE  g \in worker_queue_ /\ place'[g] = "terminated"
    <3>1. g \in worker_queue_ /\ place[g] = "terminated" /\ g \in Scheduler!Contexts
      BY SchedulerConstants DEF SchedulerInv, References, Scheduler!TypeOK
    <3> QED BY <1>4, <3>1
  <2> QED BY <2>1, <2>2 DEF References
<1> QED BY <1>7, <1>8, <1>10, <1>12, <1>13, <1>14 DEF SchedulerInv

LEMMA ResettingSteps ==
    ASSUME SchedulerInv, NEW c \in Scheduler!Contexts,
           \/ Scheduler!JoinReturns(c)
           \/ \E f \in Launched : Scheduler!JoinTerminated(c, f) \/ Scheduler!Detach(c, f)
    PROVE  SchedulerInv'
<1>1. place \in [Scheduler!Contexts -> Scheduler!Places]
  BY DEF SchedulerInv, Scheduler!TypeOK
<1>2. CASE Scheduler!JoinReturns(c)
  <2>1. /\ c = active /\ place[c] = "joined"
        /\ Scheduler!Reset(joining[c], [place EXCEPT ![c] = "runs"])
        /\ joining' = [joining EXCEPT ![c] = NoContext]
        /\ UNCHANGED <<active, ready, sleep_queue_, worker_queue_, terminated_queue_,
                       wait_queue_, shutdown_, flag_, now, switches>>
    BY <1>2 DEF Scheduler!JoinReturns, Scheduler!links
  <2>2. joining[c] \in joinable /\ creator[joining[c]] = c /\ joining[c] \in Launched
    BY <2>1 DEF SchedulerInv, JoinLinks, Scheduler!TypeOK
  <2> QED BY <2>1, <2>2, ResetStep
<1>3. ASSUME NEW f \in Launched, Scheduler!JoinTerminated(c, f) \/ Scheduler!Detach(c, f)
      PROVE  SchedulerInv'
  <2>1. /\ c = active /\ place[c] = "runs" /\ f \in joinable /\ creator[f] = c
        /\ Scheduler!Reset(f, place)
        /\ UNCHANGED <<active, ready, sleep_queue_, worker_queue_, terminated_queue_,
                       wait_queue_, joining, shutdown_, flag_, now, switches>>
    BY <1>3 DEF Scheduler!JoinTerminated, Scheduler!Detach, Scheduler!InUserCode, Scheduler!links
  <2>2. [place EXCEPT ![c] = "runs"] = place
    BY <1>1, <2>1
  <2> QED BY <2>1, <2>2, ResetStep
<1> QED BY <1>2, <1>3

LEMMA CreateStep ==
    ASSUME SchedulerInv, NEW c \in Scheduler!Contexts, NEW f \in Launched,
           Scheduler!Post(c, f) \/ Scheduler!LaunchDispatch(c, f)
    PROVE  SchedulerInv'
<1>1. Scheduler!Create(c, f)
  BY DEF Scheduler!Post, Scheduler!LaunchDispatch
<1>2. /\ c = active /\ c # Dispatcher /\ place[c] = "runs"
      /\ ready \in Seq(Scheduler!Contexts) /\ Once(ready)
      /\ Elements(ready) = Runnable \ {c} /\ c \in Runnable
      /\ c \in Launched => c \in worker_queue_
  BY <1>1, UserRuns DEF Scheduler!Create
<1>3. /\ UNCHANGED <<sleep_queue_, terminated_queue_, wait_queue_, joining, shutdown_, flag_,
                     now, switches>>
      /\ place[f] = "new"
      /\ place' = [place EXCEPT ![f] = "runs"]
      /\ use_count_' = [use_count_ EXCEPT ![f] = 2]
      /\ creator' = [creator EXCEPT ![f] = c]
      /\ joinable' = joinable \cup {f}
      /\ worker_queue_' = worker_queue_ \cup {f}
  BY <1>1 DEF Scheduler!Create
<1>4. /\ place \in [Scheduler!Contexts -> Scheduler!Places]
      /\ use_count_ \in [Launched -> 0..2]
      /\ creator \in [Launched -> Scheduler!Contexts \cup {NoContext}]
      /\ joinable \subseteq Launched /\ worker_queue_ \subseteq Launched
      /\ f \in Scheduler!Contexts /\ f # c
  BY <1>2, <1>3, SchedulerConstants DEF SchedulerInv, Scheduler!TypeOK
<1>5. f \notin joinable /\ f \notin worker_queue_ /\ f \notin Elements(ready)
  BY <1>2, <1>3 DEF SchedulerInv, References, Runnable
<1>6. /\ \A d \in Scheduler!Contexts : place'[d] = IF d = f THEN "runs" ELSE place[d]
      /\ \A g \in Launched : use_count_'[g] = IF g = f THEN 2 ELSE use_count_[g]
      /\ \A g \in Launched : creator'[g] = IF g = f THEN c ELSE creator[g]
  BY <1>3, <1>4
<1>7. Runnable' = Runnable \cup {f}
  BY <1>4, <1>6 DEF Runnable
<1>8. /\ active' \in {c, f} /\ active' \in Scheduler!Contexts
      /\ ready' \in Seq(Scheduler!Contexts) /\ Once(ready')
      /\ Elements(ready') = Runnable' \ {active'}
  <2>1. CASE Scheduler!Post(c, f)
    <3>1. active' = c /\ ready' = Append(ready, f)
      BY <1>2, <2>1 DEF Scheduler!Post
    <3>2. ready' \in Seq(Scheduler!Contexts) /\ Once(ready')
          /\ Elements(ready') = Elements(ready) \cup {f}
      BY <1>2, <1>4, <1>5, <3>1, AppendOnce
    <3> QED BY <1>2, <1>4, <1>7, <3>1, <3>2
  <2>2. CASE Scheduler!LaunchDispatch(c, f)
    <3>1. active' = f /\ ready' = Append(ready, c) /\ c \notin Elements(ready)
      BY <1>2, <2>2 DEF Scheduler!LaunchDispatch
    <3>2. ready' \in Seq(Scheduler!Contexts) /\ Once(ready')
          /\ Elements(ready') = Elements(ready) \cup {c}
      BY <1>2, <3>1, AppendOnce
    <3>3. f \notin Runnable
      BY <1>3 DEF Runnable
    <3> QED BY <1>2, <1>4, <1>7, <3>1, <3>2, <3>3
  <2> QED BY <2>1, <2>2
<1>9. Scheduler!TypeOK'
  <2>1. place' \in [Scheduler!Contexts -> Scheduler!Places]
    BY <1>3, <1>4 DEF Scheduler!Places
  <2>2. /\ use_count_' \in [Launched -> 0..2]
        /\ creator' \in [Launched -> Scheduler!Contexts \cup {NoContext}]
        /\ joinable' \subseteq Launched /\ worker_queue_' \subseteq Launched
    BY <1>3, <1>4
  <2> QED BY <1>3, <1>8, <2>1, <2>2 DEF SchedulerInv, Scheduler!TypeOK
<1>10. ReadyLinks'
  BY <1>8 DEF ReadyLinks
<1>11. \A d \in Scheduler!Contexts, p \in {"sleeps", "joins", "joined", "gone", "terminated", "idle", "ends"} :
         place'[d] = p <=> place[d] = p /\ d # f
  BY <1>3, <1>6
<1>12. SleepLinks'
  BY <1>3, <1>11 DEF SchedulerInv, SleepLinks
<1>13. JoinLinks'
  <2>1. ASSUME NEW g \in Launched
        PROVE  {d \in Scheduler!Contexts : place'[d] = "joins" /\ joining'[d] = g}
                 = {d \in Scheduler!Contexts : place[d] = "joins" /\ joining[d] = g}
    BY <1>3, <1>11
  <2>2. ASSUME NEW d \in Scheduler!Contexts, place'[d] \in {"joins", "joined"}
        PROVE  joining'[d] \in joinable' /\ creator'[joining'[d]] = d
    <3>1. place[d] \in {"joins", "joined"}
      BY <1>11, <2>2
    <3>2. joining[d] \in joinable /\ creator[joining[d]] = d
      BY <3>1 DEF SchedulerInv, JoinLinks
    <3> QED BY <1>3, <1>4, <1>5, <1>6, <3>2
  <2> QED BY <1>3, <2>1, <2>2 DEF SchedulerInv, JoinLinks
<1>14. Roles'
  <2>1. place'[Dispatcher] = place[Dispatcher] /\ place'[Main] = place[Main]
    BY <1>6, SchedulerConstants
  <2>2. place'[active'] = "runs"
    BY <1>2, <1>4, <1>6, <1>8
  <2>3. place[Dispatcher] \notin {"idle", "gone"}
    BY <1>2 DEF SchedulerInv, Roles
  <2>4. \A g \in Launched : place'[g] \notin {"ends", "idle"} /\ (g = active' => place'[g] # "gone")
    BY <1>6, <2>2, SchedulerConstants DEF SchedulerInv, Roles
  <2> QED BY <1>3, <2>1, <2>2, <2>3, <2>4 DEF SchedulerInv, Roles
<1>15. References'
  <2>1. ASSUME NEW g \in Launched
        PROVE  /\ use_count_'[g] = (IF g \in joinable' THEN 1 ELSE 0)
                                     + (IF g \in worker_queue_' THEN 1 ELSE 0)
               /\ place'[g] \in {"new", "gone"} <=> g \notin joinable' /\ g \notin worker_queue_'
               /\ g \notin worker_queue_' => place'[g] \in {"new", "gone", "terminated"}
    <3>1. /\ use_count_[g] = (IF g \in joinable THEN 1 ELSE 0)
                               + (IF g \in worker_queue_ THEN 1 ELSE 0)
          /\ place[g] \in {"new", "gone"} <=> g \notin joinable /\ g \notin worker_queue_
          /\ g \notin worker_queue_ => place[g] \in {"new", "gone", "terminated"}
      BY DEF SchedulerInv, References
    <3>2. CASE g = f
      BY <1>3, <1>4, <1>6, <3>2
    <3>3. CASE g # f
      BY <1>3, <1>6, <3>1, <3>3, SchedulerConstants
    <3> QED BY <3>2, <3>3
  <2>2. ASSUME NEW g \in Elements(terminated_queue_)
        PROVE  g \in worker_queue_' /\ place'[g] = "terminated"
    <3>1. g \in worker_queue_ /\ place[g] = "terminated" /\ g \in Scheduler!Contexts
      BY SchedulerConstants DEF SchedulerInv, References, Scheduler!TypeOK
    <3> QED BY <1>3, <1>5, <1>6, <3>1
  <2> QED BY <1>3, <2>1, <2>2 DEF References
<1> QED BY <1>9, <1>10, <1>12, <1>13, <1>14, <1>15 DEF SchedulerInv

LEMMA TerminateStep ==
    ASSUME SchedulerInv, NEW f \in Launched, Scheduler!Terminate(f)
    PROVE  SchedulerInv'
<1> DEFINE w == wait_queue_[f]
           q == ready \o w
<1>1. /\ f = active /\ f # Dispatcher /\ place[f] = "runs" /\ f \in Scheduler!Contexts
      /\ ready \in Seq(Scheduler!Contexts) /\ Once(ready) /\ ready # <<>>
      /\ Elements(ready) = Runnable \ {f} /\ f \in Runnable
      /\ f \in worker_queue_
  BY UserRuns, SchedulerConstants DEF Scheduler!Terminate
<1>2. /\ UNCHANGED <<sleep_queue_, worker_queue_, use_count_, creator, joinable, joining,
                     shutdown_, flag_, now, switches>>
      /\ wait_queue_' = [wait_queue_ EXCEPT ![f] = <<>>]
      /\ terminated_queue_' = Append(terminated_queue_, f)
      /\ Scheduler!SwitchTo(q)
      /\ \A g \in joinable : creator[g] # f
  BY DEF Scheduler!Terminate, Scheduler!handles, Scheduler!Woken, Scheduler!HoldsNoFiber
<1>3. /\ place \in [Scheduler!Contexts -> Scheduler!Places]
      /\ wait_queue_ \in [Scheduler!Contexts -> Seq(Scheduler!Contexts)]
      /\ terminated_queue_ \in Seq(Launched)
      /\ joining \in [Scheduler!Contexts -> Launched \cup {NoContext}]
  BY DEF SchedulerInv, Scheduler!TypeOK
<1>4. /\ w \in Seq(Scheduler!Contexts) /\ Once(w)
      /\ Elements(w) = {d \in Scheduler!Contexts : place[d] = "joins" /\ joining[d] = f}
  BY <1>1, <1>3 DEF SchedulerInv, JoinLinks
<1>5. /\ q \in Seq(Scheduler!Contexts) /\ Once(q) /\ Elements(q) = Elements(ready) \cup Elements(w)
  <2>1. Elements(ready) \cap Elements(w) = {}
    BY <1>1, <1>4 DEF Runnable
  <2> HIDE DEF w
  <2> QED BY <1>1, <1>4, <2>1, ConcatOnce
<1>6. q # <<>>
  BY <1>1, <1>4
<1>7. /\ active' \in Scheduler!Contexts /\ active' \in Elements(q)
      /\ ready' \in Seq(Scheduler!Contexts) /\ Once(ready')
      /\ Elements(ready') = Elements(q) \ {active'}
  <2> HIDE DEF q
  <2> QED BY <1>2, <1>5, <1>6, SwitchOnce
<1>8. /\ DOMAIN place' = Scheduler!Contexts /\ place' = [d \in Scheduler!Contexts |-> place'[d]]
      /\ \A d \in Scheduler!Contexts :
           place'[d] = IF d = f THEN "terminated" ELSE IF d \in Elements(w) THEN "joined" ELSE place[d]
  <2>1. Scheduler!ToSet(w) = Elements(w)
    BY DEF Scheduler!ToSet, Elements
  <2>2. place' = [d \in Scheduler!Contexts |->
                    CASE d = f -> "terminated" [] d \in Scheduler!ToSet(w) -> "joined"
                      [] OTHER -> place[d]]
    BY DEF Scheduler!Terminate, Scheduler!Woken
  <2> HIDE DEF w
  <2>3. \A d \in Scheduler!Contexts :
          place'[d] = CASE d = f -> "terminated" [] d \in Elements(w) -> "joined"
                        [] OTHER -> place[d]
    BY <2>1, <2>2
  <2>4. ASSUME NEW d \in Scheduler!Contexts
        PROVE  place'[d] = IF d = f THEN "terminated"
                           ELSE IF d \in Elements(w) THEN "joined" ELSE place[d]
    <3>1. CASE d = f
      BY <1>1, <1>4, <2>3, <3>1
    <3>2. CASE d # f
      BY <2>3, <3>2
    <3> QED BY <3>1, <3>2
  <2> QED BY <2>2, <2>4
<1> HIDE DEF w, q
<1>9. Runnable' = (Runnable \ {f}) \cup Elements(w)
  BY <1>1, <1>4, <1>8 DEF Runnable
<1>10. Scheduler!TypeOK'
  <2>1. place' \in [Scheduler!Contexts -> Scheduler!Places]
    <3>1. \A d \in Scheduler!Contexts : place'[d] \in Scheduler!Places
      BY <1>3, <1>8 DEF Scheduler!Places
    <3> QED BY <1>8, <3>1
  <2>2. terminated_queue_' \in Seq(Launched)
    BY <1>2, <1>3
  <2>3. wait_queue_' \in [Scheduler!Contexts -> Seq(Scheduler!Contexts)]
    <3>1. <<>> \in Seq(Scheduler!Contexts)
      OBVIOUS
    <3> QED BY <1>2, <1>3, <3>1
  <2> QED BY <1>2, <1>7, <2>1, <2>2, <2>3 DEF SchedulerInv, Scheduler!TypeOK
<1>11. ReadyLinks'
  <2>1. f \notin Elements(w)
    BY <1>1, <1>4
  <2>2. Elements(q) = Runnable'
    BY <1>1, <1>5, <1>9, <2>1
  <2> QED BY <1>7, <2>2 DEF ReadyLinks
<1>12. SleepLinks'
  <2>1. \A d \in Scheduler!Contexts : place'[d] = "sleeps" <=> place[d] = "sleeps"
    BY <1>1, <1>4, <1>8
  <2> QED BY <1>2, <2>1 DEF SchedulerInv, SleepLinks
<1>13. JoinLinks'
  <2>1. ASSUME NEW g \in Launched
        PROVE  /\ Once(wait_queue_'[g])
               /\ Elements(wait_queue_'[g])
                    = {d \in Scheduler!Contexts : place'[d] = "joins" /\ joining'[d] = g}
    <3>1. CASE g = f
      <4>1. wait_queue_'[g] = <<>>
        BY <1>1, <1>2, <1>3, <3>1
      <4>2. {d \in Scheduler!Contexts : place'[d] = "joins" /\ joining'[d] = g} = {}
        BY <1>2, <1>4, <1>8, <3>1
      <4> QED BY <4>1, <4>2 DEF Once, Elements
    <3>2. CASE g # f
      <4>1. wait_queue_'[g] = wait_queue_[g]
        BY <1>1, <1>2, <1>3, <3>2, SchedulerConstants
      <4>2. {d \in Scheduler!Contexts : place'[d] = "joins" /\ joining'[d] = g}
              = {d \in Scheduler!Contexts : place[d] = "joins" /\ joining[d] = g}
        BY <1>1, <1>2, <1>4, <1>8, <3>2
      <4> QED BY <4>1, <4>2 DEF SchedulerInv, JoinLinks
    <3> QED BY <3>1, <3>2
  <2>2. ASSUME NEW d \in Scheduler!Contexts, place'[d] \in {"joins", "joined"}
        PROVE  joining'[d] \in joinable' /\ creator'[joining'[d]] = d
    <3>1. place[d] \in {"joins", "joined"}
      BY <1>4, <1>8, <2>2
    <3>2. joining[d] \in joinable /\ creator[joining[d]] = d
      BY <3>1 DEF SchedulerInv, JoinLinks
    <3> QED BY <1>2, <3>2
  <2> QED BY <2>1, <2>2 DEF JoinLinks
<1>14. Roles'
  <2>1. \A p \in {"idle", "gone", "new", "ends"}, d \in Scheduler!Contexts :
          place'[d] = p <=> place[d] = p /\ d # f
    BY <1>4, <1>8
  <2>2. place'[Main] # "terminated" /\ place'[Dispatcher] \in {"runs", "idle", "gone"}
    <3>1. Main \in Scheduler!Contexts /\ Dispatcher \in Scheduler!Contexts
          /\ Main # f /\ Dispatcher # f
      BY SchedulerConstants
    <3>2. place[Dispatcher] \in {"runs", "idle", "gone"} /\ place[Main] # "terminated"
      BY DEF SchedulerInv, Roles
    <3> QED BY <1>4, <1>8, <3>1, <3>2
  <2>3. place'[active'] \in {"runs", "joined"}
    BY <1>1, <1>4, <1>5, <1>7, <1>8 DEF Runnable
  <2>4. Main \in Scheduler!Contexts /\ Dispatcher \in Scheduler!Contexts
        /\ Main # f /\ Dispatcher # f
    BY SchedulerConstants
  <2>5. /\ place[Dispatcher] \notin {"idle", "gone"}
        /\ place[Main] \notin {"new", "idle", "gone"}
        /\ shutdown_ <=> place[Main] \in {"ends", "gone"}
    BY <1>1, SchedulerConstants DEF SchedulerInv, Roles
  <2>6. \A g \in Launched : place'[g] \notin {"ends", "idle"} /\ (g = active' => place'[g] # "gone")
    BY <2>1, <2>3, SchedulerConstants DEF SchedulerInv, Roles
  <2> QED BY <1>2, <2>1, <2>2, <2>3, <2>4, <2>5, <2>6 DEF Roles
<1>15. References'
  <2>1. ASSUME NEW g \in Launched
        PROVE  /\ use_count_'[g] = (IF g \in joinable' THEN 1 ELSE 0)
                                     + (IF g \in worker_queue_' THEN 1 ELSE 0)
               /\ place'[g] \in {"new", "gone"} <=> g \notin joinable' /\ g \notin worker_queue_'
               /\ g \notin worker_queue_' => place'[g] \in {"new", "gone", "terminated"}
    <3>1. /\ use_count_[g] = (IF g \in joinable THEN 1 ELSE 0)
                               + (IF g \in worker_queue_ THEN 1 ELSE 0)
          /\ place[g] \in {"new", "gone"} <=> g \notin joinable /\ g \notin worker_queue_
          /\ g \notin worker_queue_ => place[g] \in {"new", "gone", "terminated"}
          /\ g \in Scheduler!Contexts
      BY SchedulerConstants DEF SchedulerInv, References
    <3> QED BY <1>1, <1>2, <1>4, <1>8, <3>1
  <2>2. ASSUME NEW g \in Elements(terminated_queue_')
        PROVE  g \in worker_queue_ /\ place'[g] = "terminated"
    <3>1. g \in Elements(terminated_queue_) \/ g = f
      <4>1. PICK i \in DOMAIN Append(terminated_queue_, f) : g = Append(terminated_queue_, f)[i]
        BY <1>2 DEF Elements
      <4>2. i \in DOMAIN terminated_queue_ \/ i = Len(terminated_queue_) + 1
        BY <1>3, <4>1
      <4> QED BY <1>3, <4>1, <4>2 DEF Elements
    <3>2. CASE g = f
      BY <1>1, <1>8, <3>2
    <3>3. CASE g \in Elements(terminated_queue_)
      <4>1. g \in worker_queue_ /\ place[g] = "terminated" /\ g \in Scheduler!Contexts
        BY <3>3, SchedulerConstants DEF SchedulerInv, References, Scheduler!TypeOK
      <4> QED BY <1>4, <1>8, <4>1
    <3> QED BY <3>1, <3>2, <3>3
  <2> QED BY <1>2, <2>1, <2>2 DEF References
<1> QED BY <1>10, <1>11, <1>12, <1>13, <1>14, <1>15 DEF SchedulerInv

\* The context that idles alone is the dispatcher; a step that leaves links and
\* references alone and moves only it.
LEMMA WakeUpStep ==
    ASSUME SchedulerInv, Scheduler!WakeUp
    PROVE  SchedulerInv'
<1>1. /\ active = Dispatcher /\ place[Dispatcher] = "idle" /\ flag_' = FALSE
      /\ place' = [place EXCEPT ![Dispatcher] = "runs"]
      /\ UNCHANGED <<active, ready, sleep_queue_, worker_queue_, terminated_queue_, wait_queue_,
                     use_count_, creator, joinable, joining, shutdown_, now, switches>>
  BY DEF Scheduler!WakeUp, Scheduler!links, Scheduler!handles
<1>2. place \in [Scheduler!Contexts -> Scheduler!Places]
  BY DEF SchedulerInv, Scheduler!TypeOK
<1>3. \A d \in Scheduler!Contexts : place'[d] = IF d = Dispatcher THEN "runs" ELSE place[d]
  BY <1>1, <1>2
<1>4. Scheduler!TypeOK'
  <2>1. place' \in [Scheduler!Contexts -> Scheduler!Places]
    BY <1>1, <1>2 DEF Scheduler!Places
  <2> QED BY <1>1, <2>1 DEF SchedulerInv, Scheduler!TypeOK
<1>5. ReadyLinks'
  <2>1. Runnable' \ {active} = Runnable \ {active}
    BY <1>1, <1>3 DEF Runnable
  <2> QED BY <1>1, <2>1 DEF SchedulerInv, ReadyLinks
<1>6. \A d \in Scheduler!Contexts, p \in {"sleeps", "joins", "joined"} :
        place'[d] = p <=> place[d] = p
  BY <1>1, <1>3
<1>7. SleepLinks'
  BY <1>1, <1>6 DEF SchedulerInv, SleepLinks
<1>8. JoinLinks'
  BY <1>1, <1>6 DEF SchedulerInv, JoinLinks
<1>9. Roles'
  <2>1. place'[Dispatcher] = "runs" /\ place'[Main] = place[Main]
    BY <1>3, SchedulerConstants
  <2>2. \A f \in Launched : place'[f] = place[f]
    BY <1>3, SchedulerConstants
  <2> QED BY <1>1, <2>1, <2>2, SchedulerConstants DEF SchedulerInv, Roles
<1>10. References'
  <2>1. \A f \in Launched : place'[f] = place[f]
    BY <1>3, SchedulerConstants
  <2>2. \A f \in Elements(terminated_queue_) : f \in Launched
    BY DEF Elements, SchedulerInv, Scheduler!TypeOK
  <2> QED BY <1>1, <2>1, <2>2 DEF SchedulerInv, References
<1> QED BY <1>4, <1>5, <1>7, <1>8, <1>9, <1>10 DEF SchedulerInv

LEMMA ShutdownStep ==
    ASSUME SchedulerInv, Scheduler!Shutdown
    PROVE  SchedulerInv'
<1>1. /\ Main = active /\ place[Main] = "runs" /\ Main \in Scheduler!Contexts
      /\ ready \in Seq(Scheduler!Contexts) /\ Once(ready) /\ ready # <<>>
      /\ Elements(ready) = Runnable \ {Main} /\ Main \in Runnable
      /\ place[Dispatcher] = "runs"
  BY UserRuns, SchedulerConstants DEF Scheduler!Shutdown
<1>2. /\ active' \in Scheduler!Contexts /\ active' \in Runnable \ {Main}
      /\ ready' \in Seq(Scheduler!Contexts) /\ Once(ready')
      /\ Elements(ready') = (Runnable \ {Main}) \ {active'}
  BY <1>1, SwitchOnce DEF Scheduler!Shutdown
<1>3. /\ UNCHANGED <<sleep_queue_, worker_queue_, terminated_queue_, use_count_,
                     creator, joinable, joining, flag_, now, switches>>
      /\ shutdown_' = TRUE
      /\ place' = [place EXCEPT ![Main] = "ends"]
      /\ wait_queue_' = [wait_queue_ EXCEPT ![Dispatcher] = Append(@, Main)]
  BY DEF Scheduler!Shutdown, Scheduler!handles
<1>4. /\ place \in [Scheduler!Contexts -> Scheduler!Places]
      /\ wait_queue_ \in [Scheduler!Contexts -> Seq(Scheduler!Contexts)]
      /\ Dispatcher \in Scheduler!Contexts
  BY SchedulerConstants DEF SchedulerInv, Scheduler!TypeOK
<1>5. \A d \in Scheduler!Contexts : place'[d] = IF d = Main THEN "ends" ELSE place[d]
  BY <1>3, <1>4
<1>6. Scheduler!TypeOK'
  <2>1. place' \in [Scheduler!Contexts -> Scheduler!Places]
    BY <1>3, <1>4 DEF Scheduler!Places
  <2>2. wait_queue_' \in [Scheduler!Contexts -> Seq(Scheduler!Contexts)]
    <3>1. Append(wait_queue_[Dispatcher], Main) \in Seq(Scheduler!Contexts)
      BY <1>1, <1>4
    <3> QED BY <1>3, <1>4, <3>1
  <2> QED BY <1>2, <1>3, <2>1, <2>2 DEF SchedulerInv, Scheduler!TypeOK
<1>7. ReadyLinks'
  <2>1. Runnable' = Runnable \ {Main}
    BY <1>5 DEF Runnable
  <2> QED BY <1>2, <2>1 DEF ReadyLinks
<1>8. \A d \in Scheduler!Contexts, p \in {"sleeps", "joins", "joined"} :
        place'[d] = p <=> place[d] = p
           /\ d # Main
  BY <1>1, <1>5
<1>9. SleepLinks'
  BY <1>1, <1>3, <1>8 DEF SchedulerInv, SleepLinks
<1>10. JoinLinks'
  <2>1. \A g \in Launched : wait_queue_'[g] = wait_queue_[g]
    BY <1>3, <1>4, SchedulerConstants
  <2>2. \A d \in Scheduler!Contexts, p \in {"joins", "joined"} : place'[d] = p <=> place[d] = p
    BY <1>1, <1>8
  <2> QED BY <1>3, <2>1, <2>2 DEF SchedulerInv, JoinLinks
<1>11. Roles'
  <2>1. place'[active'] \in {"runs", "joined"} /\ active' # Main
    BY <1>2, <1>5 DEF Runnable
  <2>2. place'[Dispatcher] = "runs" /\ place'[Main] = "ends"
    BY <1>1, <1>4, <1>5, SchedulerConstants
  <2>3. \A g \in Launched : place'[g] \notin {"ends", "idle"} /\ (g = active' => place'[g] # "gone")
    BY <1>5, <2>1, SchedulerConstants DEF SchedulerInv, Roles
  <2> QED BY <1>3, <2>1, <2>2, <2>3 DEF Roles
<1>12. References'
  <2>1. \A f \in Launched : place'[f] = place[f]
    BY <1>5, SchedulerConstants
  <2>2. \A f \in Elements(terminated_queue_) : f \in Launched
    BY DEF Elements, SchedulerInv, Scheduler!TypeOK
  <2> QED BY <1>3, <2>1, <2>2 DEF SchedulerInv, References
<1> QED BY <1>6, <1>7, <1>9, <1>10, <1>11, <1>12 DEF SchedulerInv

LEMMA DispatchEndsStep ==
    ASSUME SchedulerInv, Scheduler!DispatchEnds
    PROVE  SchedulerInv'
<1>1. /\ active = Dispatcher /\ place[Dispatcher] = "runs"
      /\ shutdown_ /\ worker_queue_ = {}
      /\ active' = Main
      /\ wait_queue_' = [wait_queue_ EXCEPT ![Dispatcher] = <<>>]
      /\ place' = [place EXCEPT ![Main] = "gone", ![Dispatcher] = "gone"]
      /\ UNCHANGED <<ready, sleep_queue_, worker_queue_, terminated_queue_, use_count_, creator,
                     joinable, joining, shutdown_, flag_, now, switches>>
  BY DEF Scheduler!DispatchEnds, Scheduler!LoopEnds, Scheduler!handles
<1>2. /\ place \in [Scheduler!Contexts -> Scheduler!Places]
      /\ wait_queue_ \in [Scheduler!Contexts -> Seq(Scheduler!Contexts)]
      /\ Dispatcher \in Scheduler!Contexts /\ Main \in Scheduler!Contexts /\ Main # Dispatcher
  BY SchedulerConstants DEF SchedulerInv, Scheduler!TypeOK
<1>3. \A d \in Scheduler!Contexts :
        place'[d] = IF d \in {Main, Dispatcher} THEN "gone" ELSE place[d]
  BY <1>1, <1>2
<1>4. place[Main] = "ends"
  BY <1>1 DEF SchedulerInv, Roles
<1>5. place[Dispatcher] = "runs" /\ UNCHANGED <<sleep_queue_, creator, joinable, joining>>
  BY <1>1
\* With no worker left nobody can run: only main is to be resumed.
<1>6. \A f \in Launched : place[f] \in {"new", "gone", "terminated"}
  BY <1>1 DEF SchedulerInv, References
<1>7. Scheduler!TypeOK'
  <2>1. place' \in [Scheduler!Contexts -> Scheduler!Places]
    BY <1>1, <1>2 DEF Scheduler!Places
  <2>2. wait_queue_' \in [Scheduler!Contexts -> Seq(Scheduler!Contexts)]
    <3>1. <<>> \in Seq(Scheduler!Contexts)
      OBVIOUS
    <3> QED BY <1>1, <1>2, <3>1
  <2> QED BY <1>1, <1>2, <2>1, <2>2 DEF SchedulerInv, Scheduler!TypeOK
<1>8. ReadyLinks'
  <2>1. Runnable = {Dispatcher} /\ Runnable' = {}
    BY <1>1, <1>2, <1>3, <1>4, <1>6, SchedulerConstants DEF Runnable
  <2> QED BY <1>1, <2>1 DEF SchedulerInv, ReadyLinks
<1>9. \A d \in Scheduler!Contexts, p \in {"sleeps", "joins", "joined"} :
        place'[d] = p <=> place[d] = p
  BY <1>3, <1>4, <1>5
<1>10. SleepLinks'
  BY <1>9, <1>5 DEF SchedulerInv, SleepLinks
<1>11. JoinLinks'
  <2>1. \A g \in Launched : wait_queue_'[g] = wait_queue_[g]
    BY <1>1, <1>2, SchedulerConstants
  <2> QED BY <1>9, <1>5, <2>1 DEF SchedulerInv, JoinLinks
<1>12. Roles'
  <2>1. place'[Main] = "gone" /\ place'[Dispatcher] = "gone"
    BY <1>2, <1>3
  <2>2. \A f \in Launched : place'[f] = place[f] /\ f # active'
    BY <1>1, <1>3, SchedulerConstants
  <2>3. \A f \in Launched : place[f] \notin {"ends", "idle"}
    BY <1>6
  <2> QED BY <1>1, <2>1, <2>2, <2>3 DEF Roles
<1>13. References'
  <2>1. \A f \in Launched : place'[f] = place[f]
    BY <1>3, SchedulerConstants
  <2>2. \A f \in Elements(terminated_queue_) : f \in Launched
    BY DEF Elements, SchedulerInv, Scheduler!TypeOK
  <2> QED BY <1>1, <2>1, <2>2 DEF SchedulerInv, References
<1> QED BY <1>7, <1>8, <1>10, <1>11, <1>12, <1>13 DEF SchedulerInv

LEMMA TickStep ==
    ASSUME SchedulerInv, Scheduler!Tick \/ UNCHANGED schedulerVars
    PROVE  SchedulerInv'
<1>1. UNCHANGED <<active, ready, sleep_queue_, worker_queue_, terminated_queue_, wait_queue_,
                  use_count_, creator, joinable, joining, shutdown_, flag_, place, switches>>
  BY DEF Scheduler!Tick, Scheduler!links, Scheduler!handles, schedulerVars
<1>2. now' \in 0..MaxTime
  <2>1. now \in 0..MaxTime /\ MaxTime \in Nat
    BY SchedulerConstants DEF SchedulerInv, Scheduler!TypeOK
  <2> QED BY <2>1 DEF Scheduler!Tick, schedulerVars
<1>3. Scheduler!TypeOK'
  BY <1>1, <1>2 DEF SchedulerInv, Scheduler!TypeOK
<1>4. ReadyLinks' /\ SleepLinks'
  BY <1>1 DEF SchedulerInv, ReadyLinks, Runnable, SleepLinks
<1>5. JoinLinks' /\ Roles' /\ References'
  BY <1>1 DEF SchedulerInv, JoinLinks, Roles, References
<1> QED BY <1>3, <1>4, <1>5 DEF SchedulerInv

\* A sequence without its first k elements.
Dropped(q, k) == SubSeq(q, k + 1, Len(q))

LEMMA DroppedFirst ==
    ASSUME NEW S, NEW q \in Seq(S), NEW k \in 0..Len(q), NEW r, r = Dropped(q, k)
    PROVE  /\ r \in Seq(S) /\ DOMAIN r = 1..(Len(q) - k)
           /\ \A i \in DOMAIN r : k + i \in DOMAIN q /\ r[i] = q[k + i]
<1>1. SubSeq(q, k + 1, Len(q)) \in Seq(S)
  OBVIOUS
<1>2. /\ Len(SubSeq(q, k + 1, Len(q))) = Len(q) - k
      /\ \A i \in 1..(Len(q) - k) : SubSeq(q, k + 1, Len(q))[i] = q[k + i]
  OBVIOUS
<1>3. Len(q) \in Nat /\ DOMAIN q = 1..Len(q)
  OBVIOUS
<1>7. r = SubSeq(q, k + 1, Len(q))
  BY DEF Dropped
<1>4. r \in Seq(S) /\ Len(r) = Len(q) - k
  BY <1>1, <1>2, <1>7
<1>5. DOMAIN r = 1..(Len(q) - k)
  BY <1>4
<1>6. ASSUME NEW i \in DOMAIN r PROVE k + i \in DOMAIN q /\ r[i] = q[k + i]
  <2>1. i \in 1..(Len(q) - k)
    BY <1>5
  <2>2. k + i \in 1..Len(q)
    BY <1>3, <2>1
  <2> QED BY <1>2, <1>3, <1>7, <2>1, <2>2
<1> QED BY <1>4, <1>5, <1>6

\* Whose deadline is reached is at the front of the sleep queue; the rest stays.
LEMMA DueContexts ==
    ASSUME SchedulerInv, NEW due, due = Scheduler!Due,
           NEW rest,
           rest = SubSeq(sleep_queue_, Scheduler!DueCount + 1, Len(sleep_queue_))
    PROVE  /\ due \in Seq(Scheduler!Contexts) /\ Once(due)
           /\ \A i \in DOMAIN sleep_queue_ :
                sleep_queue_[i].ctx \in Elements(due) <=> sleep_queue_[i].tp <= now
           /\ Elements(due) \subseteq Sleepers(sleep_queue_)
           /\ rest \in Seq([ctx : Scheduler!Contexts, tp : 0..MaxTime]) /\ Sorted(rest)
           /\ Sleepers(rest) = Sleepers(sleep_queue_) \ Elements(due)
<1> DEFINE q == sleep_queue_
           T == [ctx : Scheduler!Contexts, tp : 0..MaxTime]
           P == {i \in DOMAIN q : \A j \in 1..i : q[j].tp <= now}
           n == Cardinality(P)
<1>1. /\ q \in Seq(T) /\ DOMAIN q = 1..Len(q) /\ Len(q) \in Nat
      /\ Sorted(q) /\ now \in Nat
  BY SchedulerConstants DEF SchedulerInv, Scheduler!TypeOK, SleepLinks, Sorted
<1>2. \A i \in DOMAIN q : q[i].ctx \in Scheduler!Contexts /\ q[i].tp \in Nat
  <2>1. \A i \in DOMAIN q : q[i] \in T
    <3> HIDE DEF T
    <3> QED BY <1>1
  <2> QED BY <2>1, SchedulerConstants
<1>3. n \in 0..Len(q) /\ P = 1..n
  <2>1. P \subseteq 1..Len(q)
    BY <1>1
  <2>2. ASSUME NEW i \in P, NEW j \in 1..i PROVE j \in P
    BY <1>1
  <2> HIDE DEF P
  <2>3. \A i \in P : 1..i \subseteq P
    BY <2>2
  <2> QED BY <1>1, <2>1, <2>3, PrefixIsCounted
<1>4. Scheduler!DueCount = n
  BY DEF Scheduler!DueCount, n, Scheduler!Cardinality, Cardinality
<1> HIDE DEF n
<1>5. PICK k \in 0..Len(q) : k = n
  BY <1>3
<1>6. \A i \in DOMAIN q : i <= k <=> q[i].tp <= now
  <2> SUFFICES ASSUME NEW i \in DOMAIN q PROVE i <= k <=> q[i].tp <= now
    OBVIOUS
  <2>1. i <= k <=> i \in P
    <3> HIDE DEF P
    <3> QED BY <1>1, <1>3, <1>5
  <2>2. i \in P => q[i].tp <= now
    BY <1>1
  <2>3. ASSUME q[i].tp <= now PROVE i \in P
    <3>1. ASSUME NEW j \in 1..i PROVE q[j].tp <= now
      <4>1. j \in DOMAIN q /\ (j = i \/ j < i)
        BY <1>1
      <4>2. q[j].tp <= q[i].tp
        BY <1>1, <1>2, <4>1 DEF Sorted
      <4> QED BY <1>1, <1>2, <2>3, <4>1, <4>2, SMTT(30)
    <3> QED BY <3>1
  <2> QED BY <2>1, <2>2, <2>3
<1> HIDE DEF P
<1>7. due = [i \in 1..k |-> q[i].ctx] /\ rest = SubSeq(q, k + 1, Len(q))
  BY <1>4, <1>5 DEF Scheduler!Due
<1>8. k \in Nat /\ k <= Len(q) /\ 1..k \subseteq DOMAIN q
  BY <1>1
<1>9. /\ due \in Seq(Scheduler!Contexts) /\ DOMAIN due = 1..k
      /\ \A i \in 1..k : due[i] = q[i].ctx
  BY <1>2, <1>7, <1>8
<1>10. Once(due)
  <2>1. \A i, j \in 1..k : q[i].ctx = q[j].ctx => i = j
    BY <1>1, <1>8 DEF Sorted
  <2> HIDE DEF q
  <2> QED BY <1>9, <2>1 DEF Once
<1>11. ASSUME NEW i \in DOMAIN q PROVE q[i].ctx \in Elements(due) <=> i <= k
  <2>1. ASSUME i <= k PROVE q[i].ctx \in Elements(due)
    <3>1. i \in 1..k
      BY <1>1, <2>1
    <3>2. i \in DOMAIN due /\ due[i] = q[i].ctx
      BY <1>9, <3>1
    <3> QED BY <3>2 DEF Elements
  <2>2. ASSUME q[i].ctx \in Elements(due) PROVE i <= k
    <3>1. PICK j \in 1..k : q[j].ctx = q[i].ctx
      BY <1>9, <2>2 DEF Elements
    <3>2. j = i
      BY <1>1, <1>8, <3>1 DEF Sorted
    <3> QED BY <1>8, <3>1, <3>2
  <2> QED BY <2>1, <2>2
<1>12. Elements(due) \subseteq Sleepers(q)
  BY <1>8, <1>9 DEF Elements, Sleepers
<1> HIDE DEF T
<1>13. /\ rest \in Seq(T) /\ DOMAIN rest = 1..(Len(q) - k)
       /\ \A i \in DOMAIN rest : k + i \in DOMAIN q /\ rest[i] = q[k + i]
  <2>1. q \in Seq(T) /\ k \in 0..Len(q) /\ rest = Dropped(q, k)
    BY <1>1, <1>7 DEF Dropped
  <2> HIDE DEF q
  <2> QED BY <2>1, DroppedFirst
<1>14. \A i \in DOMAIN rest : i \in Nat /\ ~(k + i <= k)
  BY <1>8, <1>13
<1>15. \A i \in DOMAIN rest : k + i \in DOMAIN q /\ rest[i] = q[k + i] /\ ~(k + i <= k)
  BY <1>13, <1>14
<1>16. Sorted(rest)
  <2> SUFFICES ASSUME NEW i \in DOMAIN rest, NEW j \in DOMAIN rest
               PROVE  /\ rest[i].ctx = rest[j].ctx => i = j
                      /\ i < j => rest[i].tp <= rest[j].tp
    BY DEF Sorted
  <2>1. (k + i = k + j => i = j) /\ (i < j => k + i < k + j)
    BY <1>8, <1>14
  <2>2. /\ k + i \in DOMAIN q /\ rest[i] = q[k + i]
        /\ k + j \in DOMAIN q /\ rest[j] = q[k + j]
    BY <1>15
  <2>3. PICK g \in DOMAIN q, h \in DOMAIN q : g = k + i /\ h = k + j
    BY <2>2
  <2>4. /\ q[g].ctx = q[h].ctx => g = h
        /\ g < h => q[g].tp <= q[h].tp
    BY <1>1 DEF Sorted
  <2> QED BY <2>1, <2>2, <2>3, <2>4
<1>17. Sleepers(rest) = Sleepers(q) \ Elements(due)
  <2>1. ASSUME NEW i \in DOMAIN rest PROVE rest[i].ctx \in Sleepers(q) \ Elements(due)
    <3>1. PICK j \in DOMAIN q : rest[i] = q[j] /\ ~(j <= k)
      BY <1>15
    <3>2. q[j].ctx \notin Elements(due)
      BY <1>11, <3>1
    <3> QED BY <3>1, <3>2 DEF Sleepers
  <2>2. ASSUME NEW i \in DOMAIN q, q[i].ctx \notin Elements(due) PROVE q[i].ctx \in Sleepers(rest)
    <3>1. ~(i <= k)
      BY <1>11, <2>2
    <3>2. i - k \in 1..(Len(q) - k) /\ k + (i - k) = i
      BY <1>1, <1>8, <3>1
    <3>3. i - k \in DOMAIN rest /\ rest[i - k] = q[i]
      BY <1>13, <3>2
    <3> QED BY <3>3 DEF Sleepers
  <2>3. \A c \in Sleepers(rest) : c \in Sleepers(q) \ Elements(due)
    BY <2>1 DEF Sleepers
  <2>4. \A c \in Sleepers(q) \ Elements(due) : c \in Sleepers(rest)
    BY <2>2 DEF Sleepers
  <2> QED BY <2>3, <2>4
<1> QED BY <1>6, <1>9, <1>10, <1>11, <1>12, <1>13, <1>16, <1>17 DEF T

\* What a turn of the dispatcher does to the contexts.
LEMMA DispatchPlaces ==
    ASSUME SchedulerInv, Scheduler!Dispatch,
           NEW due, due = Scheduler!Due, NEW released, released = Elements(terminated_queue_)
    PROVE  /\ active = Dispatcher /\ place[Dispatcher] = "runs"
           /\ \A f \in released : f \in Launched /\ f \in worker_queue_ /\ place[f] = "terminated"
           /\ DOMAIN place' = Scheduler!Contexts
           /\ place' = [c \in Scheduler!Contexts |-> place'[c]]
           /\ \A c \in Scheduler!Contexts :
                place'[c] = IF c \in released /\ c \notin joinable THEN "gone"
                            ELSE IF c \in Elements(due) THEN "runs"
                            ELSE IF c = Dispatcher /\ ready \o due = <<>> THEN "idle"
                            ELSE place[c]
           /\ use_count_' = [f \in Launched |-> IF f \in released THEN use_count_[f] - 1
                                                ELSE use_count_[f]]
           /\ worker_queue_' = worker_queue_ \ released
<1> DEFINE queued == ready \o due
           places == [c \in Scheduler!Contexts |->
                        CASE c \in Scheduler!ToSet(due) -> "runs"
                          [] c = Dispatcher /\ queued = <<>> -> "idle"
                          [] OTHER -> place[c]]
<1>1. /\ active = Dispatcher /\ place[Dispatcher] = "runs"
      /\ worker_queue_' = worker_queue_ \ Scheduler!ToSet(terminated_queue_)
      /\ Scheduler!Release(Scheduler!ToSet(terminated_queue_), places)
  BY DEF Scheduler!Dispatch
<1>2. Scheduler!ToSet(terminated_queue_) = released /\ Scheduler!ToSet(due) = Elements(due)
  BY DEF Scheduler!ToSet, Elements
<1>3. \A f \in released : f \in Launched /\ f \in worker_queue_ /\ place[f] = "terminated"
  BY DEF SchedulerInv, References, Scheduler!TypeOK
<1>4. \A f \in released : Scheduler!LastReference(f) <=> f \notin joinable
  BY <1>3 DEF Scheduler!LastReference, SchedulerInv, References
<1>5. Elements(due) \subseteq Sleepers(sleep_queue_)
  BY DueContexts
<1>6. \A c \in Elements(due) : place[c] = "sleeps"
  BY <1>5 DEF SchedulerInv, SleepLinks, Sleepers
<1> HIDE DEF queued
<1>7. \A c \in Scheduler!Contexts :
        places[c] = IF c \in Elements(due) THEN "runs"
                    ELSE IF c = Dispatcher /\ queued = <<>> THEN "idle" ELSE place[c]
  <2> SUFFICES ASSUME NEW c \in Scheduler!Contexts
               PROVE  places[c] = IF c \in Elements(due) THEN "runs"
                                  ELSE IF c = Dispatcher /\ queued = <<>> THEN "idle" ELSE place[c]
    OBVIOUS
  <2>1. ~(c \in Elements(due) /\ c = Dispatcher)
    BY <1>1, <1>6
  <2> QED BY <1>2, <2>1
<1> HIDE DEF places
<1>8. /\ use_count_' = [f \in Launched |-> IF f \in released THEN use_count_[f] - 1
                                           ELSE use_count_[f]]
      /\ place' = [c \in Scheduler!Contexts |->
                     IF c \in released /\ Scheduler!LastReference(c) THEN "gone" ELSE places[c]]
  BY <1>1, <1>2 DEF Scheduler!Release
<1>9. \A c \in Scheduler!Contexts :
        place'[c] = IF c \in released /\ c \notin joinable THEN "gone" ELSE places[c]
  BY <1>4, <1>8
<1>10. DOMAIN place' = Scheduler!Contexts /\ place' = [c \in Scheduler!Contexts |-> place'[c]]
  BY <1>8
<1>11. \A c \in Scheduler!Contexts :
         place'[c] = IF c \in released /\ c \notin joinable THEN "gone"
                     ELSE IF c \in Elements(due) THEN "runs"
                     ELSE IF c = Dispatcher /\ queued = <<>> THEN "idle"
                     ELSE place[c]
  BY <1>7, <1>9
<1> QED BY <1>1, <1>2, <1>3, <1>8, <1>10, <1>11 DEF queued

LEMMA DispatchStep ==
    ASSUME SchedulerInv, Scheduler!Dispatch
    PROVE  SchedulerInv'
<1>1. PICK due : due = Scheduler!Due
  OBVIOUS
<1>2. PICK T : T = Elements(terminated_queue_)
  OBVIOUS
<1>3. PICK rest : rest = SubSeq(sleep_queue_, Scheduler!DueCount + 1, Len(sleep_queue_))
  OBVIOUS
<1>4. /\ due \in Seq(Scheduler!Contexts) /\ Once(due)
      /\ Elements(due) \subseteq Sleepers(sleep_queue_)
      /\ rest \in Seq([ctx : Scheduler!Contexts, tp : 0..MaxTime]) /\ Sorted(rest)
      /\ Sleepers(rest) = Sleepers(sleep_queue_) \ Elements(due)
  BY <1>1, <1>3, DueContexts
<1>5. /\ active = Dispatcher /\ place[Dispatcher] = "runs"
      /\ \A f \in T : f \in Launched /\ f \in worker_queue_ /\ place[f] = "terminated"
      /\ DOMAIN place' = Scheduler!Contexts
      /\ place' = [c \in Scheduler!Contexts |-> place'[c]]
      /\ use_count_' = [f \in Launched |-> IF f \in T THEN use_count_[f] - 1 ELSE use_count_[f]]
      /\ worker_queue_' = worker_queue_ \ T
  BY <1>1, <1>2, DispatchPlaces
<1> DEFINE queued == ready \o due
<1>6. \A c \in Scheduler!Contexts :
        place'[c] = IF c \in T /\ c \notin joinable THEN "gone"
                    ELSE IF c \in Elements(due) THEN "runs"
                    ELSE IF c = Dispatcher /\ queued = <<>> THEN "idle"
                    ELSE place[c]
  BY <1>1, <1>2, DispatchPlaces
<1>7. /\ UNCHANGED <<wait_queue_, creator, joinable, joining, shutdown_, now, switches>>
      /\ terminated_queue_' = <<>> /\ sleep_queue_' = rest /\ flag_' = Scheduler!Notified
      /\ queued = <<>> => active' = active /\ ready' = ready
      /\ queued # <<>> => Scheduler!SwitchTo(Append(queued, Dispatcher))
  BY <1>1, <1>3 DEF Scheduler!Dispatch, Scheduler!DispatcherLast
<1>8. Sleepers(sleep_queue_) = {c \in Scheduler!Contexts : place[c] = "sleeps"}
  BY DEF SchedulerInv, SleepLinks, Sleepers
<1>9. /\ ready \in Seq(Scheduler!Contexts) /\ Once(ready)
      /\ Elements(ready) = Runnable \ {Dispatcher}
      /\ Dispatcher \in Scheduler!Contexts /\ Dispatcher \in Runnable
  BY <1>5, SchedulerConstants DEF SchedulerInv, ReadyLinks, Scheduler!TypeOK, Runnable
<1>10. Dispatcher \notin T /\ Main \notin T /\ Dispatcher \notin Elements(due)
  BY <1>4, <1>5, <1>8, SchedulerConstants
<1>11. /\ queued \in Seq(Scheduler!Contexts) /\ Once(queued)
       /\ Elements(queued) = Elements(ready) \cup Elements(due)
  <2>1. Elements(ready) \cap Elements(due) = {}
    BY <1>4, <1>8, <1>9 DEF Runnable
  <2> QED BY <1>4, <1>9, <2>1, ConcatOnce
<1>12. queued = <<>> => Elements(queued) = {}
  <2> HIDE DEF queued
  <2> QED BY DEF Elements
<1> HIDE DEF queued
<1>13. /\ \A c \in Scheduler!Contexts : c \in Elements(due) => place[c] = "sleeps"
       /\ \A c \in Elements(due) : c \in Scheduler!Contexts /\ c \notin T
  BY <1>4, <1>5, <1>8
<1>14. \A c \in Scheduler!Contexts :
         /\ c \in Runnable' => c \in Runnable \/ c \in Elements(due)
         /\ c \in Runnable /\ ~(c = Dispatcher /\ queued = <<>>) => c \in Runnable'
         /\ c \in Elements(due) => c \in Runnable'
         /\ c = Dispatcher /\ queued = <<>> => c \notin Runnable'
  BY <1>5, <1>6, <1>10, <1>13 DEF Runnable
<1>15. /\ active' \in Scheduler!Contexts /\ ready' \in Seq(Scheduler!Contexts) /\ Once(ready')
       /\ Elements(ready') = Runnable' \ {active'}
       /\ queued = <<>> => active' = Dispatcher
       /\ queued # <<>> => active' \in Runnable'
  <2>1. CASE queued = <<>>
    <3>1. Elements(ready) = {} /\ Elements(due) = {}
      BY <1>11, <1>12, <2>1
    <3>2. Runnable' = {}
      BY <1>9, <1>14, <2>1, <3>1 DEF Runnable
    <3> QED BY <1>5, <1>7, <1>9, <2>1, <3>1, <3>2
  <2>2. CASE queued # <<>>
    <3> DEFINE q == Append(queued, Dispatcher)
    <3>1. Dispatcher \notin Elements(queued)
      BY <1>9, <1>10, <1>11
    <3>2. /\ q \in Seq(Scheduler!Contexts) /\ Once(q) /\ q # <<>>
          /\ Elements(q) = Elements(queued) \cup {Dispatcher}
      BY <1>9, <1>11, <3>1, AppendOnce
    <3>3. Scheduler!SwitchTo(q)
      BY <1>7, <2>2
    <3> HIDE DEF q
    <3>4. /\ active' \in Scheduler!Contexts /\ active' \in Elements(q)
          /\ ready' \in Seq(Scheduler!Contexts) /\ Once(ready')
          /\ Elements(ready') = Elements(q) \ {active'}
      BY <3>2, <3>3, SwitchOnce
    <3>5. \A c \in Scheduler!Contexts : c \in Elements(q) <=> c \in Runnable'
      BY <1>9, <1>11, <1>14, <2>2, <3>2
    <3>6. Elements(q) \subseteq Scheduler!Contexts /\ Runnable' \subseteq Scheduler!Contexts
      BY <3>2 DEF Elements, Runnable
    <3>7. Elements(q) = Runnable'
      BY <3>5, <3>6
    <3> QED BY <2>2, <3>4, <3>7
  <2> QED BY <2>1, <2>2
<1>16. Scheduler!TypeOK'
  <2>1. place' \in [Scheduler!Contexts -> Scheduler!Places]
    <3>1. place \in [Scheduler!Contexts -> Scheduler!Places]
      BY DEF SchedulerInv, Scheduler!TypeOK
    <3>2. \A c \in Scheduler!Contexts : place'[c] \in Scheduler!Places
      BY <1>6, <3>1 DEF Scheduler!Places
    <3> QED BY <1>5, <3>2
  <2>2. use_count_' \in [Launched -> 0..2]
    <3>1. \A f \in Launched : use_count_[f] \in 0..2 /\ (f \in T => use_count_[f] >= 1)
      BY <1>5 DEF SchedulerInv, Scheduler!TypeOK, References
    <3>2. \A f \in Launched : (IF f \in T THEN use_count_[f] - 1 ELSE use_count_[f]) \in 0..2
      BY <3>1
    <3> QED BY <1>5, <3>2
  <2>3. flag_' \in BOOLEAN
    BY <1>7 DEF Scheduler!Notified
  <2>4. terminated_queue_' \in Seq(Launched)
    BY <1>7
  <2>5. worker_queue_' \subseteq Launched
    BY <1>5 DEF SchedulerInv, Scheduler!TypeOK
  <2> QED BY <1>4, <1>7, <1>15, <2>1, <2>2, <2>3, <2>4, <2>5 DEF SchedulerInv, Scheduler!TypeOK
<1>17. ReadyLinks'
  BY <1>15 DEF ReadyLinks
<1>18. SleepLinks'
  <2>1. \A c \in Scheduler!Contexts :
          place'[c] = "sleeps" <=> place[c] = "sleeps" /\ c \notin Elements(due)
    BY <1>5, <1>6, <1>10
  <2>2. Sleepers(rest) = {c \in Scheduler!Contexts : place'[c] = "sleeps"}
    BY <1>4, <1>8, <2>1
  <2> QED BY <1>4, <1>7, <2>2 DEF SleepLinks, Sorted, Sleepers
<1>19. \A c \in Scheduler!Contexts, p \in {"joins", "joined", "ends", "new"} :
         place'[c] = p <=> place[c] = p
  BY <1>5, <1>6, <1>13
<1>20. JoinLinks'
  BY <1>7, <1>19 DEF SchedulerInv, JoinLinks
<1>21. Roles'
  <2>1. /\ place'[Dispatcher] = (IF queued = <<>> THEN "idle" ELSE "runs")
        /\ queued = <<>> => active' = Dispatcher
    BY <1>5, <1>6, <1>9, <1>10, <1>15
  <2>2. Main \in Scheduler!Contexts /\ Main # Dispatcher
    BY SchedulerConstants
  <2>3. /\ place[Main] \notin {"new", "idle", "terminated", "gone"}
        /\ shutdown_ <=> place[Main] \in {"ends", "gone"}
    BY <1>5 DEF SchedulerInv, Roles
  <2>4. \A p \in {"new", "idle", "terminated", "gone", "ends"} : place'[Main] = p <=> place[Main] = p
    BY <1>6, <1>10, <1>13, <2>2
  <2>5. place'[active'] \in {"runs", "joined", "idle"} /\ (active' \in Launched => place'[active'] # "gone")
    BY <1>15, <2>1 DEF Runnable
  <2>6. \A f \in Launched : place'[f] \notin {"ends", "idle"}
    <3>1. ASSUME NEW f \in Launched PROVE place'[f] \notin {"ends", "idle"}
      <4>1. f \in Scheduler!Contexts /\ f # Dispatcher
        BY SchedulerConstants
      <4>2. place[f] \notin {"ends", "idle"}
        BY DEF SchedulerInv, Roles
      <4> QED BY <1>6, <4>1, <4>2
    <3> QED BY <3>1
  <2> QED BY <1>7, <2>1, <2>2, <2>3, <2>4, <2>5, <2>6 DEF Roles
<1>22. References'
  <2>1. ASSUME NEW g \in Launched
        PROVE  /\ use_count_'[g] = (IF g \in joinable' THEN 1 ELSE 0)
                                     + (IF g \in worker_queue_' THEN 1 ELSE 0)
               /\ place'[g] \in {"new", "gone"} <=> g \notin joinable' /\ g \notin worker_queue_'
               /\ g \notin worker_queue_' => place'[g] \in {"new", "gone", "terminated"}
    <3>1. /\ use_count_[g] = (IF g \in joinable THEN 1 ELSE 0)
                               + (IF g \in worker_queue_ THEN 1 ELSE 0)
          /\ place[g] \in {"new", "gone"} <=> g \notin joinable /\ g \notin worker_queue_
          /\ g \notin worker_queue_ => place[g] \in {"new", "gone", "terminated"}
          /\ g \in Scheduler!Contexts /\ g # Dispatcher
      BY SchedulerConstants DEF SchedulerInv, References
    <3>2. use_count_'[g] = IF g \in T THEN use_count_[g] - 1 ELSE use_count_[g]
      BY <1>5
    <3>3. place'[g] = IF g \in T /\ g \notin joinable THEN "gone"
                      ELSE IF g \in Elements(due) THEN "runs" ELSE place[g]
      BY <1>6, <3>1
    <3>4. CASE g \in T
      BY <1>5, <1>7, <1>13, <3>1, <3>2, <3>3, <3>4
    <3>5. CASE g \notin T
      BY <1>5, <1>7, <1>13, <3>1, <3>2, <3>3, <3>5
    <3> QED BY <3>4, <3>5
  <2>2. Elements(terminated_queue_') = {}
    BY <1>7 DEF Elements
  <2> QED BY <2>1, <2>2 DEF References
<1> QED BY <1>16, <1>17, <1>18, <1>20, <1>21, <1>22 DEF SchedulerInv

LEMMA SchedulerStep == SchedulerInv /\ [ThreadsNext]_threadVars => SchedulerInv'
<1> SUFFICES ASSUME SchedulerInv, [ThreadsNext]_threadVars PROVE SchedulerInv'
  OBVIOUS
<1>1. Scheduler!Next \/ UNCHANGED schedulerVars
  BY DEF ThreadsNext, Of, threadVars
<1>2. CASE Scheduler!Tick \/ UNCHANGED schedulerVars
  BY <1>2, TickStep
<1>3. ASSUME NEW c \in Scheduler!Contexts,
             \/ Scheduler!Yield(c) \/ Scheduler!JoinReturns(c)
             \/ \E tp \in now..MaxTime : Scheduler!Sleep(c, tp)
             \/ \E f \in Launched :
                   \/ Scheduler!Post(c, f) \/ Scheduler!LaunchDispatch(c, f)
                   \/ Scheduler!Join(c, f) \/ Scheduler!JoinTerminated(c, f)
                   \/ Scheduler!Detach(c, f)
      PROVE  SchedulerInv'
  BY <1>3, YieldStep, SleepStep, CreateStep, JoinStep, ResettingSteps
<1>4. CASE \E f \in Launched : Scheduler!Terminate(f)
  BY <1>4, TerminateStep
<1>5. CASE Scheduler!Dispatch \/ Scheduler!WakeUp \/ Scheduler!Shutdown \/ Scheduler!DispatchEnds
  BY <1>5, DispatchStep, WakeUpStep, ShutdownStep, DispatchEndsStep
<1> QED BY <1>1, <1>2, <1>3, <1>4, <1>5 DEF Scheduler!Next, Scheduler!Step

\* The invariant of the scheduler: what its lists, places and references say of
\* each other, in every reachable state.
THEOREM SchedulerLists == ThreadsSpec => []SchedulerInv
<1>1. ThreadsInit => SchedulerInv
  BY SchedulerInit DEF ThreadsInit
<1> QED BY <1>1, SchedulerStep, PTL DEF ThreadsSpec

\* However fibers are launched, joined, put to sleep and ended, a context is in the
\* one list its place calls for, once, for any contexts and any clock.
THEOREM ContextsAreLinkedOnce == ThreadsSpec => []LinkedWhereItBelongs
<1>1. SchedulerInv => LinkedWhereItBelongs
  <2> SUFFICES ASSUME SchedulerInv PROVE LinkedWhereItBelongs
    OBVIOUS
  <2>1. Scheduler!TypeOK
    BY DEF SchedulerInv
  <2>2. /\ Scheduler!IsInjective(ready)
        /\ Scheduler!ToSet(ready)
             = {c \in Scheduler!Contexts \ {active} : place[c] \in {"runs", "joined"}}
    <3>1. Once(ready) /\ Elements(ready) = Runnable \ {active}
      BY DEF SchedulerInv, ReadyLinks
    <3>2. Scheduler!ToSet(ready) = Elements(ready)
      BY DEF Scheduler!ToSet, Elements
    <3> QED BY <3>1, <3>2 DEF Once, Scheduler!IsInjective, Runnable
  <2>3. /\ Scheduler!IsInjective([i \in DOMAIN sleep_queue_ |-> sleep_queue_[i].ctx])
        /\ {sleep_queue_[i].ctx : i \in DOMAIN sleep_queue_}
             = {c \in Scheduler!Contexts : place[c] = "sleeps"}
    BY DEF SchedulerInv, SleepLinks, Scheduler!IsInjective
  <2>4. \A f \in Launched : Scheduler!ToSet(wait_queue_[f])
             = {c \in Scheduler!Contexts : place[c] = "joins" /\ joining[c] = f}
    BY DEF SchedulerInv, JoinLinks, Scheduler!ToSet, Elements
  <2> QED BY <2>1, <2>2, <2>3, <2>4 DEF LinkedWhereItBelongs, Scheduler!LinkedWhereItBelongs
<1> QED BY <1>1, SchedulerLists, PTL

\* A fiber's context is destroyed with the last of the two references to it, not
\* under a join() and not twice, for any fibers.
THEOREM ContextsAreReleasedOnce == ThreadsSpec => []DestroyedWithLastReference
<1>1. SchedulerInv => DestroyedWithLastReference
  <2> SUFFICES ASSUME SchedulerInv, NEW f \in Launched, place[f] # "new"
               PROVE  /\ use_count_[f] = Scheduler!Cardinality({f} \cap joinable)
                                           + Scheduler!Cardinality({f} \cap worker_queue_)
                      /\ place[f] = "gone" <=> use_count_[f] = 0
                      /\ place[f] # "gone" /\ f \notin worker_queue_ => place[f] = "terminated"
    BY DEF DestroyedWithLastReference, Scheduler!DestroyedWithLastReference
  <2>1. ASSUME NEW S PROVE Scheduler!Cardinality({f} \cap S) = IF f \in S THEN 1 ELSE 0
    <3>1. Scheduler!Cardinality({f} \cap S) = Cardinality({f} \cap S)
      BY DEF Scheduler!Cardinality, Cardinality
    <3>2. CASE f \in S
      <4>1. {f} \cap S = {f}
        BY <3>2
      <4> QED BY <3>1, <3>2, <4>1, FS_Singleton
    <3>3. CASE f \notin S
      <4>1. {f} \cap S = {}
        BY <3>3
      <4> QED BY <3>1, <3>3, <4>1, FS_EmptySet
    <3> QED BY <3>2, <3>3
  <2>2. /\ use_count_[f] = (IF f \in joinable THEN 1 ELSE 0)
                             + (IF f \in worker_queue_ THEN 1 ELSE 0)
        /\ place[f] \in {"new", "gone"} <=> f \notin joinable /\ f \notin worker_queue_
        /\ f \notin worker_queue_ => place[f] \in {"new", "gone", "terminated"}
    BY DEF SchedulerInv, References
  <2>3. /\ Scheduler!Cardinality({f} \cap joinable) = IF f \in joinable THEN 1 ELSE 0
        /\ Scheduler!Cardinality({f} \cap worker_queue_) = IF f \in worker_queue_ THEN 1 ELSE 0
    BY <2>1
  <2> QED BY <2>2, <2>3
<1> QED BY <1>1, SchedulerLists, PTL

\* In every turn the dispatcher wakes the contexts whose deadline is reached and no
\* other, for any number of them: the multiset ordered by deadline hides none.
THEOREM DueSleepersAreWoken == ThreadsSpec => SleepersWakeOnTime
<1> DEFINE Wakes == Scheduler!Dispatch => \A i \in DOMAIN sleep_queue_ :
                      place'[sleep_queue_[i].ctx] = "runs" <=> sleep_queue_[i].tp <= now
<1>1. SchedulerInv => Wakes
  <2> SUFFICES ASSUME SchedulerInv, Scheduler!Dispatch, NEW i \in DOMAIN sleep_queue_
               PROVE  place'[sleep_queue_[i].ctx] = "runs" <=> sleep_queue_[i].tp <= now
    OBVIOUS
  <2>1. PICK due, T : due = Scheduler!Due /\ T = Elements(terminated_queue_)
    OBVIOUS
  <2>2. PICK rest : rest = SubSeq(sleep_queue_, Scheduler!DueCount + 1, Len(sleep_queue_))
    OBVIOUS
  <2>3. PICK c : c = sleep_queue_[i].ctx
    OBVIOUS
  <2>4. c \in Elements(due) <=> sleep_queue_[i].tp <= now
    BY <2>1, <2>2, <2>3, DueContexts
  <2>5. c \in Scheduler!Contexts /\ place[c] = "sleeps"
    BY <2>3 DEF SchedulerInv, SleepLinks
  <2>6. /\ place[Dispatcher] = "runs"
        /\ \A f \in T : place[f] = "terminated"
        /\ \A d \in Scheduler!Contexts :
             place'[d] = IF d \in T /\ d \notin joinable THEN "gone"
                         ELSE IF d \in Elements(due) THEN "runs"
                         ELSE IF d = Dispatcher /\ ready \o due = <<>> THEN "idle"
                         ELSE place[d]
    BY <2>1, DispatchPlaces
  <2>7. place'[c] = IF c \in Elements(due) THEN "runs" ELSE place[c]
    BY <2>5, <2>6
  <2> QED BY <2>3, <2>4, <2>5, <2>7
<1>2. SchedulerInv /\ [ThreadsNext]_threadVars => [Wakes]_(Scheduler!vars)
  BY <1>1
<1> QED BY <1>2, SchedulerLists, PTL
     DEF ThreadsSpec, SleepersWakeOnTime, Scheduler!SleepersWakeOnTime

(***************************************************************************)
(* The thread pool of a reactor.                                           *)
(***************************************************************************)

\* The worker that release() stops, which is in neither of the pool's lists.
Leaving ==
    IF owner.at \in {"stops", "joins"} /\ owner.task # NoTask THEN {owner.worker} ELSE {}

\* The busy workers that run() has given their message.
Running == busy \ {owner.worker}

PoolLists ==
    /\ Once(free) /\ Len(free) <= MinSize
    /\ IsFiniteSet(busy) /\ Cardinality(busy) <= MaxSize
    /\ \A w \in Workers :
        /\ thread[w] # "none" <=> w \in Elements(free) \/ w \in busy \/ w \in Leaving
        /\ ~ (w \in Elements(free) /\ w \in busy)
        /\ w \in Leaving => w \notin Elements(free) /\ w \notin busy

\* What the owner does, and to which worker; it stops the free ones last.
OwnerKnows ==
    /\ owner.at \in {"idle", "closes", "closed"} => owner.worker = NoWorker /\ owner.task = NoTask
    /\ owner.at = "hands" =>
        owner.worker \in busy /\ owner.task \in Tasks /\ state[owner.task] = "given"
    /\ owner.at \in {"stops", "joins"} =>
        /\ owner.worker \in Workers
        /\ owner.task = NoTask => owner.worker \in Elements(free) /\ owner.worker \notin joined
    /\ joined \subseteq Elements(free)
    /\ owner.at = "idle" \/ owner.task # NoTask => joined = {}

\* Each message that was handed over is with one worker until it is released.
Messages ==
    /\ \A w \in Running :
        /\ task[w] \in Tasks /\ state[task[w]] \in {"given", "replied"}
        /\ owner.at = "hands" => task[w] # owner.task
        /\ \A v \in Running : task[v] = task[w] => v = w
    /\ \A m \in Tasks : state[m] = "replied" =>
        /\ data[m] \in Running /\ task[data[m]] = m
        /\ thread[data[m]] \in {"loops", "waits"}
        /\ thread[data[m]] = "waits" => ~ isReady[data[m]]

\* What each worker's thread may assume.
WorkerKnows(w) ==
    /\ thread[w] \in {"processes", "submits"} => w \in Running /\ state[task[w]] = "given"
    /\ thread[w] = "submits" => data[task[w]] = w
    /\ thread[w] = "loops" => task[w] \in Tasks /\ state[task[w]] \in {"replied", "released"}
    /\ thread[w] = "waits" /\ isReady[w] /\ ~ isStopped[w] =>
        w \in Running /\ state[task[w]] = "given"
    /\ thread[w] = "finished" => isStopped[w]
    /\ thread[w] = "none" => ~ isReady[w]
    /\ isStopped[w] =>
        /\ thread[w] \in {"started", "waits", "finished"} /\ w \notin busy
        /\ w \in joined \/ (owner.at = "joins" /\ owner.worker = w)

PoolInv ==
    /\ Pool!TypeOK
    /\ PoolLists /\ OwnerKnows /\ Messages
    /\ \A w \in Workers : WorkerKnows(w)

LEMMA FrontOnce ==
    ASSUME NEW S, NEW q \in Seq(S), q # <<>>, Once(q)
    PROVE  /\ Pool!Last(q) \in S /\ Pool!Last(q) \in Elements(q)
           /\ Pool!Front(q) \in Seq(S) /\ Once(Pool!Front(q)) /\ Len(Pool!Front(q)) = Len(q) - 1
           /\ Elements(Pool!Front(q)) = Elements(q) \ {Pool!Last(q)}
<1> DEFINE r == SubSeq(q, 1, Len(q) - 1)
<1>1. /\ r \in Seq(S) /\ Len(r) = Len(q) - 1
      /\ \A i \in 1..(Len(q) - 1) : r[i] = q[i]
  <2>1. PICK k \in 1..(Len(q) + 1) : k = Len(q)
    OBVIOUS
  <2>2. /\ SubSeq(q, 1, k - 1) \in Seq(S) /\ Len(SubSeq(q, 1, k - 1)) = k - 1
        /\ \A i \in 1..(k - 1) : SubSeq(q, 1, k - 1)[i] = q[i]
    OBVIOUS
  <2> QED BY <2>1, <2>2
<1>2. DOMAIN r = 1..(Len(q) - 1) /\ DOMAIN q = 1..Len(q) /\ Len(q) \in Nat /\ Len(q) >= 1
      /\ q[Len(q)] \in S
  BY <1>1
<1> HIDE DEF r
<1>3. \A i \in DOMAIN r : i \in DOMAIN q /\ r[i] = q[i] /\ i # Len(q)
  BY <1>1, <1>2
<1>4. Len(q) \in DOMAIN q
  BY <1>2
<1>5. Once(r)
  BY <1>3 DEF Once
<1>6. \A x \in Elements(r) : x \in Elements(q) /\ x # q[Len(q)]
  BY <1>3, <1>4 DEF Elements, Once
<1>7. ASSUME NEW i \in DOMAIN q, q[i] # q[Len(q)] PROVE q[i] \in Elements(r)
  <2>1. i \in DOMAIN r /\ r[i] = q[i]
    BY <1>1, <1>2, <1>7
  <2> QED BY <2>1 DEF Elements
<1>8. Elements(r) = Elements(q) \ {q[Len(q)]}
  BY <1>6, <1>7 DEF Elements
<1>9. q[Len(q)] \in Elements(q)
  BY <1>4 DEF Elements
<1>10. Pool!Front(q) = r /\ Pool!Last(q) = q[Len(q)]
  BY DEF Pool!Front, Pool!Last, r
<1> QED BY <1>1, <1>2, <1>5, <1>8, <1>9, <1>10

LEMMA CountOnce ==
    ASSUME NEW S, NEW q \in Seq(S), Once(q)
    PROVE  Cardinality(Elements(q)) = Len(q)
<1>1. Len(q) \in Nat /\ DOMAIN q = 1..Len(q) /\ q \in [1..Len(q) -> Elements(q)]
  BY DEF Elements
<1>2. q \in Bijection(1..Len(q), Elements(q))
  <2>1. \A i, j \in 1..Len(q) : q[i] = q[j] => i = j
    BY <1>1 DEF Once
  <2>2. \A x \in Elements(q) : \E i \in 1..Len(q) : q[i] = x
    BY <1>1 DEF Elements
  <2>3. q \in Injection(1..Len(q), Elements(q)) /\ q \in Surjection(1..Len(q), Elements(q))
    BY <1>1, <2>1, <2>2 DEF Injection, Surjection, IsInjective
  <2> QED BY <2>3 DEF Bijection
<1>3. ExistsBijection(1..Len(q), Elements(q))
  BY <1>2 DEF ExistsBijection
<1> QED BY <1>1, <1>3, FS_CountingElements

LEMMA PoolConstants ==
    /\ NoTask \notin Tasks /\ NoWorker \notin Workers
    /\ MinSize \in Nat /\ MaxSize \in Nat
BY ThreadsAssumption DEF Pool!PoolAssumption

LEMMA PoolInit == Pool!Init => PoolInv
<1> SUFFICES ASSUME Pool!Init PROVE PoolInv
  OBVIOUS
<1>1. free \in Seq(Workers) /\ Once(free) /\ Len(free) = MinSize
  <2>1. free \in [1..MinSize -> Workers] /\ \A i, j \in DOMAIN free : free[i] = free[j] => i = j
    BY DEF Pool!Init, Pool!IsInjective
  <2> QED BY <2>1, PoolConstants DEF Once
<1>2. /\ busy = {} /\ joined = {}
      /\ owner = [at |-> "idle", worker |-> NoWorker, task |-> NoTask]
      /\ task = [w \in Workers |-> NoTask]
      /\ isReady = [w \in Workers |-> FALSE] /\ isStopped = [w \in Workers |-> FALSE]
      /\ state = [m \in Tasks |-> "new"] /\ data = [m \in Tasks |-> NoWorker]
  BY DEF Pool!Init, Pool!Idle
<1>3. thread = [w \in Workers |-> IF w \in Elements(free) THEN "started" ELSE "none"]
  BY DEF Pool!Init, Pool!ToSet, Elements
<1>4. Pool!TypeOK
  BY <1>1, <1>2, <1>3 DEF Pool!TypeOK, Pool!Stages
<1>5. PoolLists
  BY <1>1, <1>2, <1>3, PoolConstants, FS_EmptySet DEF PoolLists, Leaving
<1>6. OwnerKnows /\ Messages
  BY <1>2 DEF OwnerKnows, Messages, Running
<1>7. \A w \in Workers : WorkerKnows(w)
  BY <1>2, <1>3 DEF WorkerKnows
<1> QED BY <1>4, <1>5, <1>6, <1>7 DEF PoolInv

LEMMA PoolTypes ==
    ASSUME PoolInv
    PROVE  /\ free \in Seq(Workers) /\ busy \subseteq Workers /\ joined \subseteq Workers
           /\ owner.at \in {"idle", "hands", "stops", "joins", "closes", "closed"}
           /\ owner.worker \in Workers \cup {NoWorker} /\ owner.task \in Tasks \cup {NoTask}
           /\ thread \in [Workers -> Pool!Stages] /\ task \in [Workers -> Tasks \cup {NoTask}]
           /\ isReady \in [Workers -> BOOLEAN] /\ isStopped \in [Workers -> BOOLEAN]
           /\ state \in [Tasks -> {"new", "given", "replied", "released"}]
           /\ data \in [Tasks -> Workers \cup {NoWorker}]
BY DEF PoolInv, Pool!TypeOK

LEMMA StartWaits ==
    ASSUME PoolInv, NEW w \in Workers, Pool!Start(w) \/ Pool!WaitAgain(w)
    PROVE  PoolInv'
<1>1. /\ thread[w] \in {"started", "loops"}
      /\ isReady' = [isReady EXCEPT ![w] = FALSE] /\ thread' = [thread EXCEPT ![w] = "waits"]
      /\ UNCHANGED <<free, busy, owner, joined, task, isStopped, state, data>>
  BY DEF Pool!Start, Pool!WaitAgain
<1>2. /\ \A v \in Workers : thread'[v] = IF v = w THEN "waits" ELSE thread[v]
      /\ ~ isReady'[w] /\ \A v \in Workers \ {w} : isReady'[v] = isReady[v]
  BY <1>1, PoolTypes
<1>3. Pool!TypeOK'
  <2>1. thread' \in [Workers -> Pool!Stages] /\ isReady' \in [Workers -> BOOLEAN]
    BY <1>1, PoolTypes DEF Pool!Stages
  <2> QED BY <1>1, <2>1 DEF PoolInv, Pool!TypeOK
<1>4. Leaving' = Leaving /\ Running' = Running
  BY <1>1 DEF Leaving, Running
<1>5. PoolLists'
  BY <1>1, <1>2, <1>4 DEF PoolInv, PoolLists
<1>6. OwnerKnows'
  BY <1>1 DEF PoolInv, OwnerKnows
<1>7. Messages'
  <2>1. ASSUME NEW m \in Tasks, state[m] = "replied"
        PROVE  /\ data[m] \in Running /\ task[data[m]] = m
               /\ thread'[data[m]] \in {"loops", "waits"}
               /\ thread'[data[m]] = "waits" => ~ isReady'[data[m]]
    <3>1. /\ data[m] \in Running /\ task[data[m]] = m
          /\ thread[data[m]] \in {"loops", "waits"}
          /\ thread[data[m]] = "waits" => ~ isReady[data[m]]
          /\ data[m] \in Workers
      BY <2>1, PoolTypes DEF PoolInv, Messages, Running
    <3> QED BY <1>2, <3>1
  <2> QED BY <1>1, <1>4, <2>1 DEF PoolInv, Messages
<1>8. ASSUME NEW v \in Workers PROVE WorkerKnows(v)'
  <2>1. WorkerKnows(v) /\ WorkerKnows(w)
    BY DEF PoolInv
  <2>2. CASE v = w
    BY <1>1, <1>2, <1>4, <2>1, <2>2 DEF WorkerKnows
  <2>3. CASE v # w
    BY <1>1, <1>2, <1>4, <2>1, <2>3 DEF WorkerKnows
  <2> QED BY <2>2, <2>3
<1> QED BY <1>3, <1>5, <1>6, <1>7, <1>8 DEF PoolInv

LEMMA WakeStep ==
    ASSUME PoolInv, NEW w \in Workers, Pool!Wake(w)
    PROVE  PoolInv'
<1> DEFINE s == IF isStopped[w] THEN "finished" ELSE "processes"
<1>1. /\ thread[w] = "waits" /\ isReady[w]
      /\ thread' = [thread EXCEPT ![w] = s]
      /\ UNCHANGED <<free, busy, owner, joined, task, isReady, isStopped, state, data>>
  BY DEF Pool!Wake
<1>2. s \in {"finished", "processes"} /\ (s = "finished" <=> isStopped[w])
  BY PoolTypes
<1> HIDE DEF s
<1>3. \A v \in Workers : thread'[v] = IF v = w THEN s ELSE thread[v]
  BY <1>1, PoolTypes
<1>4. Pool!TypeOK'
  <2>1. thread' \in [Workers -> Pool!Stages]
    BY <1>1, <1>2, PoolTypes DEF Pool!Stages
  <2> QED BY <1>1, <2>1 DEF PoolInv, Pool!TypeOK
<1>5. Leaving' = Leaving /\ Running' = Running
  BY <1>1 DEF Leaving, Running
<1>6. PoolLists'
  BY <1>1, <1>2, <1>3, <1>5 DEF PoolInv, PoolLists
<1>7. OwnerKnows'
  BY <1>1 DEF PoolInv, OwnerKnows
<1>8. Messages'
  <2>1. ASSUME NEW m \in Tasks, state[m] = "replied"
        PROVE  data[m] # w /\ data[m] \in Workers
    BY <1>1, <2>1, PoolTypes DEF PoolInv, Messages, Running, WorkerKnows
  <2> QED BY <1>1, <1>3, <1>5, <2>1 DEF PoolInv, Messages
<1>9. ASSUME NEW v \in Workers PROVE WorkerKnows(v)'
  <2>1. WorkerKnows(v) /\ WorkerKnows(w)
    BY DEF PoolInv
  <2>2. CASE v = w
    BY <1>1, <1>2, <1>3, <1>5, <2>1, <2>2 DEF WorkerKnows
  <2>3. CASE v # w
    BY <1>1, <1>3, <1>5, <2>1, <2>3 DEF WorkerKnows
  <2> QED BY <2>2, <2>3
<1> QED BY <1>4, <1>6, <1>7, <1>8, <1>9 DEF PoolInv

LEMMA ProcessStep ==
    ASSUME PoolInv, NEW w \in Workers, Pool!Process(w)
    PROVE  PoolInv'
<1>1. /\ thread[w] = "processes"
      /\ data' = [data EXCEPT ![task[w]] = w]
      /\ thread' = [thread EXCEPT ![w] = "submits"]
      /\ UNCHANGED <<free, busy, owner, joined, task, isReady, isStopped, state>>
  BY DEF Pool!Process, Pool!SetData
<1>2. w \in Running /\ task[w] \in Tasks /\ state[task[w]] = "given"
  BY <1>1 DEF PoolInv, WorkerKnows, Messages
<1>3. /\ \A v \in Workers : thread'[v] = IF v = w THEN "submits" ELSE thread[v]
      /\ \A m \in Tasks : data'[m] = IF m = task[w] THEN w ELSE data[m]
  BY <1>1, <1>2, PoolTypes
<1>4. Pool!TypeOK'
  <2>1. thread' \in [Workers -> Pool!Stages] /\ data' \in [Tasks -> Workers \cup {NoWorker}]
    BY <1>1, PoolTypes DEF Pool!Stages
  <2> QED BY <1>1, <2>1 DEF PoolInv, Pool!TypeOK
<1>5. Leaving' = Leaving /\ Running' = Running
  BY <1>1 DEF Leaving, Running
<1>6. PoolLists'
  BY <1>1, <1>3, <1>5 DEF PoolInv, PoolLists
<1>7. OwnerKnows'
  BY <1>1 DEF PoolInv, OwnerKnows
<1>8. Messages'
  <2>1. ASSUME NEW m \in Tasks, state[m] = "replied"
        PROVE  m # task[w] /\ data[m] # w /\ data[m] \in Workers
    BY <1>1, <1>2, <2>1, PoolTypes DEF PoolInv, Messages, Running
  <2> QED BY <1>1, <1>3, <1>5, <2>1 DEF PoolInv, Messages
<1>9. ASSUME NEW v \in Workers PROVE WorkerKnows(v)'
  <2>1. WorkerKnows(v) /\ WorkerKnows(w)
    BY DEF PoolInv
  <2>2. CASE v = w
    BY <1>1, <1>2, <1>3, <1>5, <2>1, <2>2 DEF WorkerKnows
  <2>3. CASE v # w
    <3>1. thread[v] = "submits" => task[v] \in Tasks /\ task[v] # task[w]
      BY <1>2, <2>1, <2>3 DEF PoolInv, Messages, WorkerKnows
    <3> QED BY <1>1, <1>3, <1>5, <2>1, <2>3, <3>1 DEF WorkerKnows
  <2> QED BY <2>2, <2>3
<1> QED BY <1>4, <1>6, <1>7, <1>8, <1>9 DEF PoolInv

LEMMA SubmitStep ==
    ASSUME PoolInv, NEW w \in Workers, Pool!SubmitTo(w)
    PROVE  PoolInv'
<1>1. /\ thread[w] = "submits"
      /\ state' = [state EXCEPT ![task[w]] = "replied"]
      /\ thread' = [thread EXCEPT ![w] = "loops"]
      /\ UNCHANGED <<free, busy, owner, joined, task, isReady, isStopped, data>>
  BY DEF Pool!SubmitTo
<1>2. w \in Running /\ task[w] \in Tasks /\ state[task[w]] = "given" /\ data[task[w]] = w
  BY <1>1 DEF PoolInv, WorkerKnows, Messages
<1>3. /\ \A v \in Workers : thread'[v] = IF v = w THEN "loops" ELSE thread[v]
      /\ \A m \in Tasks : state'[m] = IF m = task[w] THEN "replied" ELSE state[m]
  BY <1>1, <1>2, PoolTypes
<1>4. Pool!TypeOK'
  <2>1. thread' \in [Workers -> Pool!Stages]
        /\ state' \in [Tasks -> {"new", "given", "replied", "released"}]
    BY <1>1, PoolTypes DEF Pool!Stages
  <2> QED BY <1>1, <2>1 DEF PoolInv, Pool!TypeOK
<1>5. Leaving' = Leaving /\ Running' = Running
  BY <1>1 DEF Leaving, Running
<1>6. PoolLists'
  BY <1>1, <1>3, <1>5 DEF PoolInv, PoolLists
<1>7. OwnerKnows'
  <2>1. owner.at = "hands" => owner.task # task[w]
    BY <1>2 DEF PoolInv, Messages
  <2> QED BY <1>1, <1>3, <2>1 DEF PoolInv, OwnerKnows
<1>8. Messages'
  <2>1. ASSUME NEW v \in Running
        PROVE  /\ task[v] \in Tasks /\ state'[task[v]] \in {"given", "replied"}
               /\ owner.at = "hands" => task[v] # owner.task
               /\ \A u \in Running : task[u] = task[v] => u = v
    BY <1>3 DEF PoolInv, Messages
  <2>2. ASSUME NEW m \in Tasks, state'[m] = "replied"
        PROVE  /\ data[m] \in Running /\ task[data[m]] = m
               /\ thread'[data[m]] \in {"loops", "waits"}
               /\ thread'[data[m]] = "waits" => ~ isReady[data[m]]
    <3>1. CASE m = task[w]
      BY <1>2, <1>3, <3>1
    <3>2. CASE m # task[w]
      <4>1. state[m] = "replied"
        BY <1>3, <2>2, <3>2
      <4>2. /\ data[m] \in Running /\ task[data[m]] = m
            /\ thread[data[m]] \in {"loops", "waits"}
            /\ thread[data[m]] = "waits" => ~ isReady[data[m]]
            /\ data[m] \in Workers
        BY <4>1, PoolTypes DEF PoolInv, Messages, Running
      <4> QED BY <1>3, <3>2, <4>2
    <3> QED BY <3>1, <3>2
  <2> QED BY <1>1, <1>5, <2>1, <2>2 DEF Messages
<1>9. ASSUME NEW v \in Workers PROVE WorkerKnows(v)'
  <2>1. WorkerKnows(v) /\ WorkerKnows(w)
    BY DEF PoolInv
  <2>2. CASE v = w
    BY <1>1, <1>2, <1>3, <1>5, <2>1, <2>2 DEF WorkerKnows
  <2>3. CASE v # w
    <3>1. v \in Running => task[v] \in Tasks /\ task[v] # task[w]
      BY <1>2, <2>3 DEF PoolInv, Messages
    <3> QED BY <1>1, <1>3, <1>5, <2>1, <2>3, <3>1 DEF WorkerKnows
  <2> QED BY <2>2, <2>3
<1> QED BY <1>4, <1>6, <1>7, <1>8, <1>9 DEF PoolInv

\* An owner that is idle or closes has none in hand.
LEMMA OwnerAtRest ==
    ASSUME PoolInv, owner.at \in {"idle", "closes", "closed"}
    PROVE  /\ owner.worker = NoWorker /\ owner.task = NoTask
           /\ Leaving = {} /\ Running = busy
<1>1. owner.worker = NoWorker /\ owner.task = NoTask
  BY DEF PoolInv, OwnerKnows
<1>2. NoWorker \notin busy
  BY PoolTypes, PoolConstants
<1> QED BY <1>1, <1>2 DEF Leaving, Running

LEMMA TryRunStep ==
    ASSUME PoolInv, NEW m \in Tasks, Pool!TryRun(m)
    PROVE  PoolInv'
<1>1. /\ owner.at = "idle" /\ state[m] = "new" /\ Pool!Cardinality(busy) < MaxSize
      /\ state' = [state EXCEPT ![m] = "given"]
      /\ data' = data
      /\ Pool!AcquireFree(m) \/ \E w \in Workers : Pool!AcquireNew(m, w)
  BY DEF Pool!TryRun, Pool!Idle
<1>2. owner.worker = NoWorker /\ owner.task = NoTask /\ Leaving = {} /\ Running = busy
      /\ joined = {}
  BY <1>1, OwnerAtRest DEF PoolInv, OwnerKnows
<1>3. PICK w \in Workers :
        /\ UNCHANGED <<joined, task, isReady, isStopped>>
        /\ owner' = [at |-> "hands", worker |-> w, task |-> m]
        /\ busy' = busy \cup {w} /\ w \notin busy
        /\ free' \in Seq(Workers) /\ Once(free') /\ Len(free') <= MinSize
        /\ Elements(free') = Elements(free) \ {w}
        /\ thread' \in [Workers -> Pool!Stages]
        /\ \A v \in Workers : thread'[v] = IF v = w /\ thread[w] = "none" THEN "started" ELSE thread[v]
        /\ w \in Elements(free) \/ thread[w] = "none"
  <2>1. CASE Pool!AcquireFree(m)
    <3>1. /\ free # <<>> /\ free' = Pool!Front(free) /\ busy' = busy \cup {Pool!Last(free)}
          /\ owner' = [at |-> "hands", worker |-> Pool!Last(free), task |-> m]
          /\ UNCHANGED <<thread, joined, task, isReady, isStopped>>
      BY <2>1 DEF Pool!AcquireFree, Pool!FreeButLast, Pool!Owner, Pool!workerVars
    <3>2. free \in Seq(Workers) /\ Once(free) /\ Len(free) <= MinSize /\ thread \in [Workers -> Pool!Stages]
      BY PoolTypes DEF PoolInv, PoolLists
    <3>3. PICK w \in Workers :
            /\ w = Pool!Last(free) /\ w \in Elements(free)
            /\ Pool!Front(free) \in Seq(Workers) /\ Once(Pool!Front(free))
            /\ Len(Pool!Front(free)) = Len(free) - 1
            /\ Elements(Pool!Front(free)) = Elements(free) \ {w}
      BY <3>1, <3>2, FrontOnce
    <3>4. w \notin busy /\ thread[w] # "none"
      BY <3>3 DEF PoolInv, PoolLists
    <3>5. Len(free) - 1 <= MinSize
      BY <3>2, PoolConstants
    <3> QED BY <3>1, <3>2, <3>3, <3>4, <3>5
  <2>2. ASSUME NEW w \in Workers, Pool!AcquireNew(m, w)
        PROVE  /\ UNCHANGED <<joined, task, isReady, isStopped>>
               /\ owner' = [at |-> "hands", worker |-> w, task |-> m]
               /\ busy' = busy \cup {w} /\ w \notin busy
               /\ free' \in Seq(Workers) /\ Once(free') /\ Len(free') <= MinSize
               /\ Elements(free') = Elements(free) \ {w}
               /\ thread' \in [Workers -> Pool!Stages]
               /\ \A v \in Workers :
                    thread'[v] = IF v = w /\ thread[w] = "none" THEN "started" ELSE thread[v]
               /\ thread[w] = "none"
    <3>1. /\ thread[w] = "none" /\ thread' = [thread EXCEPT ![w] = "started"]
          /\ busy' = busy \cup {w} /\ owner' = [at |-> "hands", worker |-> w, task |-> m]
          /\ UNCHANGED <<free, joined, task, isReady, isStopped>>
      BY <2>2 DEF Pool!AcquireNew, Pool!Owner
    <3>2. w \notin busy /\ w \notin Elements(free)
      BY <3>1 DEF PoolInv, PoolLists
    <3>3. /\ thread' \in [Workers -> Pool!Stages]
          /\ \A v \in Workers :
               thread'[v] = IF v = w /\ thread[w] = "none" THEN "started" ELSE thread[v]
      BY <3>1, PoolTypes DEF Pool!Stages
    <3>4. free \in Seq(Workers) /\ Once(free) /\ Len(free) <= MinSize
      BY PoolTypes DEF PoolInv, PoolLists
    <3> QED BY <3>1, <3>2, <3>3, <3>4
  <2> QED BY <1>1, <2>1, <2>2
<1>4. \A k \in Tasks : state'[k] = IF k = m THEN "given" ELSE state[k]
  BY <1>1, PoolTypes
<1>5. owner'.at = "hands" /\ owner'.worker = w /\ owner'.task = m
  BY <1>3
<1>6. Leaving' = {} /\ Running' = Running
  BY <1>2, <1>3, <1>5 DEF Leaving, Running
<1>7. Pool!TypeOK'
  <2>1. state' \in [Tasks -> {"new", "given", "replied", "released"}]
    BY <1>1, PoolTypes
  <2>2. busy' \subseteq Workers
    BY <1>3, PoolTypes
  <2> QED BY <1>1, <1>3, <2>1, <2>2 DEF PoolInv, Pool!TypeOK
<1>8. PoolLists'
  <2>1. IsFiniteSet(busy') /\ Cardinality(busy') <= MaxSize
    <3>1. IsFiniteSet(busy) /\ Cardinality(busy) < MaxSize
      BY <1>1 DEF Pool!Cardinality, Cardinality, PoolInv, PoolLists
    <3>2. IsFiniteSet(busy \cup {w}) /\ Cardinality(busy \cup {w}) = Cardinality(busy) + 1
      BY <1>3, <3>1, FS_AddElement
    <3>3. Cardinality(busy) \in Nat
      BY <3>1, FS_CardinalityType
    <3> QED BY <1>3, <3>1, <3>2, <3>3, PoolConstants
  <2>2. ASSUME NEW v \in Workers
        PROVE  /\ thread'[v] # "none" <=> v \in Elements(free') \/ v \in busy'
               /\ ~ (v \in Elements(free') /\ v \in busy')
    <3>1. /\ thread[v] # "none" <=> v \in Elements(free) \/ v \in busy
          /\ ~ (v \in Elements(free) /\ v \in busy)
      BY <1>2 DEF PoolInv, PoolLists
    <3> QED BY <1>3, <3>1
  <2> QED BY <1>3, <1>6, <2>1, <2>2 DEF PoolLists
<1>9. OwnerKnows'
  <2>1. m # NoTask
    BY PoolConstants
  <2> QED BY <1>2, <1>3, <1>4, <1>5, <2>1 DEF OwnerKnows
<1>10. Messages'
  <2>1. ASSUME NEW v \in Running
        PROVE  /\ task[v] \in Tasks /\ state'[task[v]] \in {"given", "replied"}
               /\ task[v] # m
               /\ \A u \in Running : task[u] = task[v] => u = v
    BY <1>1, <1>4 DEF PoolInv, Messages
  <2>2. ASSUME NEW k \in Tasks, state'[k] = "replied"
        PROVE  /\ data[k] \in Running /\ task[data[k]] = k
               /\ thread'[data[k]] \in {"loops", "waits"}
               /\ thread'[data[k]] = "waits" => ~ isReady[data[k]]
    <3>1. state[k] = "replied"
      BY <1>4, <2>2
    <3>2. /\ data[k] \in Running /\ task[data[k]] = k
          /\ thread[data[k]] \in {"loops", "waits"}
          /\ thread[data[k]] = "waits" => ~ isReady[data[k]]
          /\ data[k] \in Workers /\ data[k] # w
      BY <1>2, <1>3, <3>1, PoolTypes DEF PoolInv, Messages
    <3> QED BY <1>3, <3>2
  <2> QED BY <1>1, <1>3, <1>5, <1>6, <2>1, <2>2 DEF Messages
<1>11. ASSUME NEW v \in Workers PROVE WorkerKnows(v)'
  <2>1. WorkerKnows(v)
    BY DEF PoolInv
  <2>2. ~ isStopped[w]
    <3>1. w \notin joined /\ owner.at # "joins" /\ WorkerKnows(w)
      BY <1>1, <1>2 DEF PoolInv
    <3> QED BY <3>1 DEF WorkerKnows
  <2>3. \A u \in Running : task[u] \in Tasks /\ task[u] # m
    BY <1>1 DEF PoolInv, Messages
  <2>4. CASE v = w
    BY <1>1, <1>2, <1>3, <1>4, <1>5, <1>6, <2>1, <2>2, <2>3, <2>4 DEF WorkerKnows
  <2>5. CASE v # w
    BY <1>1, <1>2, <1>3, <1>4, <1>5, <1>6, <2>1, <2>3, <2>5 DEF WorkerKnows
  <2> QED BY <2>4, <2>5
<1> QED BY <1>7, <1>8, <1>9, <1>10, <1>11 DEF PoolInv

LEMMA RunStep ==
    ASSUME PoolInv, Pool!Run
    PROVE  PoolInv'
<1> DEFINE w == owner.worker
           m == owner.task
<1>1. /\ owner.at = "hands" /\ thread[w] \in {"started", "waits", "finished"}
      /\ task' = [task EXCEPT ![w] = m] /\ isReady' = [isReady EXCEPT ![w] = TRUE]
      /\ owner' = [at |-> "idle", worker |-> NoWorker, task |-> NoTask]
      /\ UNCHANGED <<free, busy, thread, joined, isStopped, state, data>>
  BY DEF Pool!Run, Pool!MutexIsFree, Pool!Idle
<1>2. w \in busy /\ w \in Workers /\ m \in Tasks /\ state[m] = "given" /\ m # NoTask
      /\ joined = {} /\ w \notin Running
  BY <1>1, PoolTypes, PoolConstants DEF PoolInv, OwnerKnows, Running
<1> HIDE DEF w, m
<1>3. /\ \A v \in Workers : task'[v] = IF v = w THEN m ELSE task[v]
      /\ isReady'[w] /\ \A v \in Workers \ {w} : isReady'[v] = isReady[v]
  BY <1>1, <1>2, PoolTypes
<1>4. owner'.at = "idle" /\ owner'.worker = NoWorker /\ owner'.task = NoTask
  BY <1>1
<1>5. Leaving = {} /\ Leaving' = {} /\ Running' = busy /\ Running' = Running \cup {w}
      /\ Running = busy \ {w}
  <2>1. NoWorker \notin busy
    BY PoolTypes, PoolConstants
  <2> QED BY <1>1, <1>2, <1>4, <2>1 DEF Leaving, Running, w
<1>6. Pool!TypeOK'
  <2>1. task' \in [Workers -> Tasks \cup {NoTask}] /\ isReady' \in [Workers -> BOOLEAN]
    BY <1>1, <1>2, PoolTypes
  <2> QED BY <1>1, <2>1 DEF PoolInv, Pool!TypeOK
<1>7. PoolLists'
  BY <1>1, <1>5 DEF PoolInv, PoolLists
<1>8. OwnerKnows'
  BY <1>1, <1>2, <1>4 DEF OwnerKnows, PoolInv
<1>9. Messages'
  <2>1. \A v \in Running : task[v] # m /\ task[v] \in Tasks /\ v \in Workers /\ v # w
    BY <1>1, <1>2, PoolTypes DEF PoolInv, Messages, m, Running
  <2>2. ASSUME NEW v \in Running'
        PROVE  /\ task'[v] \in Tasks /\ state[task'[v]] \in {"given", "replied"}
               /\ \A u \in Running' : task'[u] = task'[v] => u = v
    <3>1. \A u \in Running' : u \in Workers /\ (u = w \/ u \in Running)
      BY <1>2, <1>5, <2>1
    <3>2. CASE v = w
      BY <1>2, <1>3, <2>1, <3>1, <3>2
    <3>3. CASE v # w
      BY <1>2, <1>3, <2>1, <2>2, <3>1, <3>3 DEF PoolInv, Messages
    <3> QED BY <3>2, <3>3
  <2>3. ASSUME NEW k \in Tasks, state[k] = "replied"
        PROVE  /\ data[k] \in Running /\ task'[data[k]] = k
               /\ thread[data[k]] \in {"loops", "waits"}
               /\ thread[data[k]] = "waits" => ~ isReady'[data[k]]
    <3>1. /\ data[k] \in Running /\ task[data[k]] = k
          /\ thread[data[k]] \in {"loops", "waits"}
          /\ thread[data[k]] = "waits" => ~ isReady[data[k]]
      BY <2>3 DEF PoolInv, Messages
    <3> QED BY <1>3, <2>1, <3>1
  <2> QED BY <1>1, <1>4, <1>5, <2>2, <2>3 DEF Messages
<1>10. ASSUME NEW v \in Workers PROVE WorkerKnows(v)'
  <2>1. WorkerKnows(v)
    BY DEF PoolInv
  <2>2. CASE v = w
    BY <1>1, <1>2, <1>3, <1>4, <1>5, <2>1, <2>2 DEF WorkerKnows
  <2>3. CASE v # w
    BY <1>1, <1>2, <1>3, <1>4, <1>5, <2>1, <2>3 DEF WorkerKnows
  <2> QED BY <2>2, <2>3
<1> QED BY <1>6, <1>7, <1>8, <1>9, <1>10 DEF PoolInv

LEMMA ReleaseStep ==
    ASSUME PoolInv, NEW m \in Tasks, Pool!Release(m)
    PROVE  PoolInv'
<1> DEFINE w == data[m]
<1>1. /\ owner.at = "idle" /\ state[m] = "replied"
      /\ state' = [state EXCEPT ![m] = "released"]
      /\ busy' = busy \ {w}
      /\ UNCHANGED <<thread, joined, task, isReady, isStopped, data>>
      /\ \/ Len(free) < MinSize /\ free' = Append(free, w) /\ owner' = owner
         \/ owner' = [at |-> "stops", worker |-> w, task |-> m] /\ free' = free
  BY DEF Pool!Release, Pool!Idle, Pool!Returned, Pool!workerVars, Pool!KeepsWorker, Pool!Owner
<1>2. /\ owner.worker = NoWorker /\ owner.task = NoTask /\ Leaving = {} /\ Running = busy
      /\ joined = {}
  BY <1>1, OwnerAtRest DEF PoolInv, OwnerKnows
<1>3. /\ w \in busy /\ w \in Workers /\ task[w] = m /\ thread[w] \in {"loops", "waits"}
      /\ thread[w] = "waits" => ~ isReady[w]
  BY <1>1, <1>2, PoolTypes DEF PoolInv, Messages
<1>4. w \notin Elements(free) /\ free \in Seq(Workers) /\ Once(free) /\ Len(free) <= MinSize
  BY <1>3, PoolTypes DEF PoolInv, PoolLists
<1> HIDE DEF w
<1>5. \A k \in Tasks : state'[k] = IF k = m THEN "released" ELSE state[k]
  BY <1>1, PoolTypes
<1>6. \/ /\ owner' = owner /\ free' \in Seq(Workers) /\ Once(free') /\ Len(free') <= MinSize
         /\ Elements(free') = Elements(free) \cup {w} /\ Leaving' = {}
      \/ /\ owner'.at = "stops" /\ owner'.worker = w /\ owner'.task = m
         /\ free' = free /\ Leaving' = {w}
  <2>1. CASE Len(free) < MinSize /\ free' = Append(free, w) /\ owner' = owner
    <3>1. /\ free' \in Seq(Workers) /\ Once(free') /\ Elements(free') = Elements(free) \cup {w}
      BY <1>3, <1>4, <2>1, AppendOnce
    <3>2. Len(free') <= MinSize
      BY <1>3, <1>4, <2>1, PoolConstants
    <3>3. Leaving' = {}
      BY <1>1, <2>1 DEF Leaving
    <3> QED BY <2>1, <3>1, <3>2, <3>3
  <2>2. CASE owner' = [at |-> "stops", worker |-> w, task |-> m] /\ free' = free
    <3>1. owner'.at = "stops" /\ owner'.worker = w /\ owner'.task = m
      BY <2>2
    <3>2. Leaving' = {w}
      BY <3>1, PoolConstants DEF Leaving
    <3> QED BY <2>2, <3>1, <3>2
  <2> QED BY <1>1, <2>1, <2>2
<1>7. owner' = owner \/ owner' = [at |-> "stops", worker |-> w, task |-> m]
  BY <1>1
<1>8. Running' = busy \ {w}
  <2>1. NoWorker \notin busy
    BY PoolTypes, PoolConstants
  <2>2. owner'.worker \in {NoWorker, w}
    BY <1>2, <1>6
  <2> QED BY <1>1, <2>1, <2>2 DEF Running
<1>9. Pool!TypeOK'
  <2>1. state' \in [Tasks -> {"new", "given", "replied", "released"}]
    BY <1>1, PoolTypes
  <2>2. busy' \subseteq Workers
    BY <1>1, PoolTypes
  <2>3. free' \in Seq(Workers)
    BY <1>4, <1>6
  <2>4. owner' \in [at : {"idle", "hands", "stops", "joins", "closes", "closed"},
                    worker : Workers \cup {NoWorker}, task : Tasks \cup {NoTask}]
    BY <1>3, <1>7 DEF PoolInv, Pool!TypeOK
  <2> QED BY <1>1, <2>1, <2>2, <2>3, <2>4 DEF PoolInv, Pool!TypeOK
<1>10. PoolLists'
  <2>1. IsFiniteSet(busy') /\ Cardinality(busy') <= MaxSize
    <3>1. IsFiniteSet(busy) /\ Cardinality(busy) <= MaxSize
      BY DEF PoolInv, PoolLists
    <3>2. IsFiniteSet(busy \ {w}) /\ Cardinality(busy \ {w}) = Cardinality(busy) - 1
      BY <1>3, <3>1, FS_RemoveElement
    <3>3. Cardinality(busy) \in Nat
      BY <3>1, FS_CardinalityType
    <3> QED BY <1>1, <3>1, <3>2, <3>3, PoolConstants
  <2>2. ASSUME NEW v \in Workers
        PROVE  /\ thread[v] # "none" <=> v \in Elements(free') \/ v \in busy' \/ v \in Leaving'
               /\ ~ (v \in Elements(free') /\ v \in busy')
               /\ v \in Leaving' => v \notin Elements(free') /\ v \notin busy'
    <3>1. /\ thread[v] # "none" <=> v \in Elements(free) \/ v \in busy
          /\ ~ (v \in Elements(free) /\ v \in busy)
      BY <1>2 DEF PoolInv, PoolLists
    <3> QED BY <1>1, <1>3, <1>4, <1>6, <3>1
  <2>3. Once(free') /\ Len(free') <= MinSize
    BY <1>4, <1>6
  <2> QED BY <1>1, <2>1, <2>2, <2>3 DEF PoolLists
<1>11. OwnerKnows'
  <2>1. m # NoTask
    BY PoolConstants
  <2> QED BY <1>1, <1>2, <1>3, <1>6, <2>1 DEF OwnerKnows
<1>12. Messages'
  <2>1. \A v \in Workers : v \in Running' => v \in Running /\ v # w
    BY <1>2, <1>8
  <2>2. owner'.at # "hands"
    BY <1>1, <1>6
  <2>3. ASSUME NEW v \in Running'
        PROVE  /\ task[v] \in Tasks /\ state'[task[v]] \in {"given", "replied"}
               /\ \A u \in Running' : task[u] = task[v] => u = v
    <3>1. v \in Running /\ v # w /\ w \in Running /\ Running' \subseteq Running
      BY <1>2, <1>3, <1>8
    <3>2. task[v] \in Tasks /\ task[v] # m /\ state[task[v]] \in {"given", "replied"}
      BY <1>3, <3>1 DEF PoolInv, Messages
    <3> QED BY <1>5, <3>1, <3>2 DEF PoolInv, Messages
  <2>4. ASSUME NEW k \in Tasks, state'[k] = "replied"
        PROVE  /\ data[k] \in Running' /\ task[data[k]] = k
               /\ thread[data[k]] \in {"loops", "waits"}
               /\ thread[data[k]] = "waits" => ~ isReady[data[k]]
    <3>1. state[k] = "replied" /\ k # m
      BY <1>5, <2>4
    <3>2. /\ data[k] \in Running /\ task[data[k]] = k
          /\ thread[data[k]] \in {"loops", "waits"}
          /\ thread[data[k]] = "waits" => ~ isReady[data[k]]
      BY <3>1 DEF PoolInv, Messages
    <3> QED BY <1>2, <1>3, <1>8, <3>1, <3>2
  <2> QED BY <1>1, <2>2, <2>3, <2>4 DEF Messages
<1>13. ASSUME NEW v \in Workers PROVE WorkerKnows(v)'
  <2>1. WorkerKnows(v) /\ owner.at # "joins" /\ v \notin joined
    BY <1>1, <1>2 DEF PoolInv
  <2>2. ~ isStopped[v]
    BY <2>1 DEF WorkerKnows
  <2>3. CASE v = w
    BY <1>1, <1>3, <1>5, <2>1, <2>2, <2>3 DEF WorkerKnows
  <2>4. CASE v # w
    <3>1. v \in Running => v \in Running' /\ task[v] \in Tasks /\ task[v] # m
      BY <1>2, <1>3, <1>8, <2>4 DEF PoolInv, Messages
    <3> QED BY <1>1, <1>5, <2>1, <2>2, <2>4, <3>1 DEF WorkerKnows
  <2> QED BY <2>3, <2>4
<1> QED BY <1>9, <1>10, <1>11, <1>12, <1>13 DEF PoolInv

LEMMA StopStep ==
    ASSUME PoolInv, Pool!Stop
    PROVE  PoolInv'
<1> DEFINE w == owner.worker
<1>1. /\ owner.at = "stops" /\ thread[w] \in {"started", "waits", "finished"}
      /\ isStopped' = [isStopped EXCEPT ![w] = TRUE]
      /\ isReady' = [isReady EXCEPT ![w] = TRUE]
      /\ task' = [task EXCEPT ![w] = NoTask]
      /\ owner' = [owner EXCEPT !.at = "joins"]
      /\ UNCHANGED <<free, busy, thread, joined, state, data>>
  BY DEF Pool!Stop, Pool!MutexIsFree
<1>2. owner'.at = "joins" /\ owner'.worker = w /\ owner'.task = owner.task
  BY <1>1 DEF PoolInv, Pool!TypeOK
<1>3. w \in Workers /\ w \notin busy /\ w \notin Running
  <2>1. w \in Workers /\ (owner.task = NoTask => w \in Elements(free))
    BY <1>1 DEF PoolInv, OwnerKnows
  <2>2. owner.task # NoTask => w \in Leaving
    BY <1>1 DEF Leaving
  <2> QED BY <2>1, <2>2 DEF PoolInv, PoolLists, Running
<1>4. Leaving' = Leaving /\ Running' = Running
  BY <1>1, <1>2 DEF Leaving, Running
<1> HIDE DEF w
<1>5. /\ \A v \in Workers \ {w} : task'[v] = task[v] /\ isReady'[v] = isReady[v]
                                 /\ isStopped'[v] = isStopped[v]
      /\ isStopped'[w]
  BY <1>1, <1>3, PoolTypes
<1>6. Pool!TypeOK'
  <2>1. /\ task' \in [Workers -> Tasks \cup {NoTask}] /\ isReady' \in [Workers -> BOOLEAN]
        /\ isStopped' \in [Workers -> BOOLEAN]
    BY <1>1, PoolTypes
  <2>2. owner' \in [at : {"idle", "hands", "stops", "joins", "closes", "closed"},
                    worker : Workers \cup {NoWorker}, task : Tasks \cup {NoTask}]
    BY <1>1 DEF PoolInv, Pool!TypeOK
  <2> QED BY <1>1, <2>1, <2>2 DEF PoolInv, Pool!TypeOK
<1>7. PoolLists'
  BY <1>1, <1>4 DEF PoolInv, PoolLists
<1>8. OwnerKnows'
  BY <1>1, <1>2 DEF PoolInv, OwnerKnows, w
<1>9. Messages'
  <2>1. \A v \in Running : v \in Workers /\ v # w
    BY <1>3, PoolTypes DEF Running
  <2> QED BY <1>1, <1>2, <1>4, <1>5, <2>1 DEF PoolInv, Messages
<1>10. ASSUME NEW v \in Workers PROVE WorkerKnows(v)'
  <2>1. WorkerKnows(v)
    BY DEF PoolInv
  <2>2. CASE v = w
    BY <1>1, <1>2, <1>3, <1>5, <2>1, <2>2 DEF WorkerKnows
  <2>3. CASE v # w
    BY <1>1, <1>2, <1>4, <1>5, <2>1, <2>3 DEF WorkerKnows
  <2> QED BY <2>2, <2>3
<1> QED BY <1>6, <1>7, <1>8, <1>9, <1>10 DEF PoolInv

LEMMA JoinAndDeleteStep ==
    ASSUME PoolInv, Pool!JoinAndDelete
    PROVE  PoolInv'
<1> DEFINE w == owner.worker
<1>1. /\ owner.at = "joins" /\ owner.task # NoTask /\ thread[w] = "finished"
      /\ thread' = [thread EXCEPT ![w] = "none"]
      /\ isStopped' = [isStopped EXCEPT ![w] = FALSE]
      /\ isReady' = [isReady EXCEPT ![w] = FALSE]
      /\ owner' = [at |-> "idle", worker |-> NoWorker, task |-> NoTask]
      /\ UNCHANGED <<free, busy, joined, task, state, data>>
  BY DEF Pool!JoinAndDelete, Pool!Idle
<1>2. /\ w \in Workers /\ Leaving = {w} /\ w \notin busy /\ w \notin Elements(free)
      /\ joined = {} /\ Running = busy
  <2>1. w \in Workers /\ Leaving = {w} /\ joined = {}
    BY <1>1 DEF PoolInv, OwnerKnows, Leaving
  <2>2. w \notin busy /\ w \notin Elements(free)
    BY <2>1 DEF PoolInv, PoolLists
  <2> QED BY <2>1, <2>2 DEF Running
<1>3. owner'.at = "idle" /\ owner'.worker = NoWorker /\ owner'.task = NoTask
  BY <1>1
<1>4. Leaving' = {} /\ Running' = busy
  <2>1. NoWorker \notin busy
    BY PoolTypes, PoolConstants
  <2> QED BY <1>1, <1>3, <2>1 DEF Leaving, Running
<1> HIDE DEF w
<1>5. /\ \A v \in Workers \ {w} : thread'[v] = thread[v] /\ isReady'[v] = isReady[v]
                                 /\ isStopped'[v] = isStopped[v]
      /\ thread'[w] = "none" /\ ~ isReady'[w] /\ ~ isStopped'[w]
  BY <1>1, <1>2, PoolTypes
<1>6. Pool!TypeOK'
  <2>1. /\ thread' \in [Workers -> Pool!Stages] /\ isReady' \in [Workers -> BOOLEAN]
        /\ isStopped' \in [Workers -> BOOLEAN]
    BY <1>1, PoolTypes DEF Pool!Stages
  <2> QED BY <1>1, <2>1 DEF PoolInv, Pool!TypeOK
<1>7. PoolLists'
  BY <1>1, <1>2, <1>4, <1>5 DEF PoolInv, PoolLists
<1>8. OwnerKnows'
  BY <1>1, <1>2, <1>3 DEF OwnerKnows
<1>9. Messages'
  <2>1. \A v \in Running : v \in Workers /\ v # w
    BY <1>2, PoolTypes
  <2> QED BY <1>1, <1>2, <1>3, <1>4, <1>5, <2>1 DEF PoolInv, Messages
<1>10. ASSUME NEW v \in Workers PROVE WorkerKnows(v)'
  <2>1. WorkerKnows(v)
    BY DEF PoolInv
  <2>2. CASE v = w
    BY <1>5, <2>2 DEF WorkerKnows
  <2>3. CASE v # w
    <3>1. ~ isStopped[v]
      BY <1>2, <2>1, <2>3 DEF WorkerKnows, w
    <3> QED BY <1>1, <1>2, <1>4, <1>5, <2>1, <2>3, <3>1 DEF WorkerKnows
  <2> QED BY <2>2, <2>3
<1> QED BY <1>6, <1>7, <1>8, <1>9, <1>10 DEF PoolInv

LEMMA PoolJoinStep ==
    ASSUME PoolInv, Pool!Join
    PROVE  PoolInv'
<1> DEFINE w == owner.worker
<1>1. /\ owner.at = "joins" /\ owner.task = NoTask /\ thread[w] = "finished"
      /\ joined' = joined \cup {w}
      /\ owner' = [at |-> "closes", worker |-> NoWorker, task |-> NoTask]
      /\ UNCHANGED <<free, busy, thread, task, isReady, isStopped, state, data>>
  BY DEF Pool!Join, Pool!Owner
<1>2. w \in Workers /\ w \in Elements(free) /\ Leaving = {} /\ w \notin busy /\ Running = busy
  <2>1. w \in Workers /\ w \in Elements(free) /\ Leaving = {}
    BY <1>1 DEF PoolInv, OwnerKnows, Leaving
  <2>2. w \notin busy
    BY <2>1 DEF PoolInv, PoolLists
  <2> QED BY <2>1, <2>2 DEF Running
<1>3. owner'.at = "closes" /\ owner'.worker = NoWorker /\ owner'.task = NoTask
  BY <1>1
<1>4. Leaving' = {} /\ Running' = busy
  <2>1. NoWorker \notin busy
    BY PoolTypes, PoolConstants
  <2> QED BY <1>1, <1>3, <2>1 DEF Leaving, Running
<1> HIDE DEF w
<1>5. Pool!TypeOK'
  <2>1. joined' \subseteq Workers
    BY <1>1, <1>2, PoolTypes
  <2> QED BY <1>1, <2>1 DEF PoolInv, Pool!TypeOK
<1>6. PoolLists'
  BY <1>1, <1>2, <1>4 DEF PoolInv, PoolLists
<1>7. OwnerKnows'
  <2>1. joined' \subseteq Elements(free)
    BY <1>1, <1>2 DEF PoolInv, OwnerKnows
  <2> QED BY <1>1, <1>3, <2>1 DEF OwnerKnows
<1>8. Messages'
  BY <1>1, <1>2, <1>3, <1>4 DEF PoolInv, Messages
<1>9. ASSUME NEW v \in Workers PROVE WorkerKnows(v)'
  <2>1. WorkerKnows(v)
    BY DEF PoolInv
  <2>2. owner.worker = v => v \in joined'
    BY <1>1 DEF w
  <2> QED BY <1>1, <1>2, <1>4, <2>1, <2>2 DEF WorkerKnows
<1> QED BY <1>5, <1>6, <1>7, <1>8, <1>9 DEF PoolInv

LEMMA StopWorkersStep ==
    ASSUME PoolInv, Pool!StopWorkers
    PROVE  PoolInv'
<1>1. /\ owner.at \in {"idle", "closes"}
      /\ UNCHANGED <<free, busy, thread, joined, task, isReady, isStopped, state, data>>
  BY DEF Pool!StopWorkers, Pool!Idle, Pool!workerVars
<1>2. owner.worker = NoWorker /\ owner.task = NoTask /\ Leaving = {} /\ Running = busy
  BY <1>1, OwnerAtRest
<1>3. PICK w \in Workers \cup {NoWorker} :
        /\ owner'.worker = w /\ owner'.task = NoTask
        /\ \/ owner'.at = "closed" /\ w = NoWorker
           \/ owner'.at = "stops" /\ w \in Elements(free) /\ w \notin joined
        /\ owner' \in [at : {"idle", "hands", "stops", "joins", "closes", "closed"},
                       worker : Workers \cup {NoWorker}, task : Tasks \cup {NoTask}]
  <2>1. CASE owner' = [at |-> "closed", worker |-> NoWorker, task |-> NoTask]
    BY <2>1
  <2>2. ASSUME NEW i \in DOMAIN free, free[i] \notin joined,
               owner' = [at |-> "stops", worker |-> free[i], task |-> NoTask]
        PROVE  \E w \in Workers :
                 /\ owner'.worker = w /\ owner'.task = NoTask
                 /\ owner'.at = "stops" /\ w \in Elements(free) /\ w \notin joined
                 /\ owner' \in [at : {"idle", "hands", "stops", "joins", "closes", "closed"},
                                worker : Workers \cup {NoWorker}, task : Tasks \cup {NoTask}]
    <3>1. PICK w \in Workers : w = free[i]
      BY PoolTypes
    <3>2. w \in Elements(free)
      BY <3>1 DEF Elements
    <3> QED BY <2>2, <3>1, <3>2
  <2> QED BY <2>1, <2>2 DEF Pool!StopWorkers, Pool!Owner
<1>4. Leaving' = {} /\ Running' = busy
  <2>1. NoWorker \notin busy
    BY PoolTypes, PoolConstants
  <2>2. w \notin busy
    BY <1>3, <2>1 DEF PoolInv, PoolLists
  <2> QED BY <1>1, <1>3, <2>2 DEF Leaving, Running
<1>5. Pool!TypeOK'
  BY <1>1, <1>3 DEF PoolInv, Pool!TypeOK
<1>6. PoolLists'
  BY <1>1, <1>2, <1>4 DEF PoolInv, PoolLists
<1>7. OwnerKnows'
  <2>1. w \in Elements(free) => w \in Workers
    BY PoolTypes DEF Elements
  <2> QED BY <1>1, <1>3, <2>1 DEF PoolInv, OwnerKnows
<1>8. Messages'
  BY <1>1, <1>2, <1>3, <1>4 DEF PoolInv, Messages
<1>9. ASSUME NEW v \in Workers PROVE WorkerKnows(v)'
  <2>1. WorkerKnows(v) /\ owner.at # "joins"
    BY <1>1 DEF PoolInv
  <2> QED BY <1>1, <1>2, <1>4, <2>1 DEF WorkerKnows
<1> QED BY <1>5, <1>6, <1>7, <1>8, <1>9 DEF PoolInv

LEMMA PoolStep == PoolInv /\ [ThreadsNext]_threadVars => PoolInv'
<1> SUFFICES ASSUME PoolInv, [ThreadsNext]_threadVars PROVE PoolInv'
  OBVIOUS
<1>1. Pool!Next \/ UNCHANGED poolVars
  BY DEF ThreadsNext, Of, threadVars
<1>2. CASE UNCHANGED poolVars
  <2>1. UNCHANGED <<free, busy, owner, thread, joined, task, isReady, isStopped, state, data>>
    BY <1>2 DEF poolVars
  <2>2. Leaving' = Leaving /\ Running' = Running
    BY <2>1 DEF Leaving, Running
  <2>3. Pool!TypeOK' /\ PoolLists'
    BY <2>1, <2>2 DEF PoolInv, Pool!TypeOK, PoolLists
  <2>4. OwnerKnows' /\ Messages'
    BY <2>1, <2>2 DEF PoolInv, OwnerKnows, Messages
  <2>5. \A w \in Workers : WorkerKnows(w)'
    BY <2>1, <2>2 DEF PoolInv, WorkerKnows
  <2> QED BY <2>3, <2>4, <2>5 DEF PoolInv
<1>3. CASE Pool!OwnerStep
  BY <1>3, TryRunStep, ReleaseStep, RunStep, StopStep, JoinAndDeleteStep, PoolJoinStep,
     StopWorkersStep DEF Pool!OwnerStep
<1>4. ASSUME NEW w \in Workers, Pool!Worker(w) PROVE PoolInv'
  BY <1>4, StartWaits, WakeStep, ProcessStep, SubmitStep DEF Pool!Worker
<1> QED BY <1>1, <1>2, <1>3, <1>4 DEF Pool!Next

\* The workers of a pool are free, busy or about to be stopped, within the pool's
\* sizes, and release() never reuses one that is still at its message, for any
\* number of workers and messages and any sizes.
THEOREM PoolAccountsForWorkers == ThreadsSpec => []WorkersAccountedFor
<1>1. ThreadsInit => PoolInv
  BY PoolInit DEF ThreadsInit
<1>2. PoolInv => WorkersAccountedFor
  <2> SUFFICES ASSUME PoolInv PROVE WorkersAccountedFor
    OBVIOUS
  <2>1. Pool!ToSet(free) = Elements(free) /\ Pool!Cardinality(busy) = Cardinality(busy)
        /\ Pool!Cardinality(Pool!ToSet(free)) = Cardinality(Elements(free))
    BY DEF Pool!ToSet, Elements, Pool!Cardinality, Cardinality
  <2>2. /\ Pool!TypeOK /\ Len(free) = Cardinality(Elements(free)) /\ Len(free) <= MinSize
        /\ Cardinality(busy) <= MaxSize
    <3>1. Len(free) = Cardinality(Elements(free))
      BY CountOnce, PoolTypes DEF PoolInv, PoolLists
    <3> QED BY <3>1 DEF PoolInv, PoolLists
  <2>3. /\ Elements(free) \cap busy = {} /\ (Elements(free) \cup busy) \cap Leaving = {}
        /\ Elements(free) \cup busy \cup Leaving = {w \in Workers : thread[w] # "none"}
    <3>1. Elements(free) \subseteq Workers /\ busy \subseteq Workers /\ Leaving \subseteq Workers
      BY PoolTypes DEF Elements, Leaving, PoolInv, OwnerKnows
    <3>2. \A w \in Workers :
            /\ thread[w] # "none" <=> w \in Elements(free) \/ w \in busy \/ w \in Leaving
            /\ ~ (w \in Elements(free) /\ w \in busy)
            /\ w \in Leaving => w \notin Elements(free) /\ w \notin busy
      BY DEF PoolInv, PoolLists
    <3> QED BY <3>1, <3>2
  <2>4. /\ \A w \in Workers \ busy : thread[w] \notin {"processes", "submits"}
        /\ \A w \in Workers : thread[w] = "loops" =>
              ~ isStopped[w] /\ state[task[w]] \in {"replied", "released"}
    BY DEF PoolInv, WorkerKnows, Running
  <2> QED BY <2>1, <2>2, <2>3, <2>4 DEF WorkersAccountedFor, Pool!WorkersAccountedFor, Leaving
<1> QED BY <1>1, <1>2, PoolStep, PTL DEF ThreadsSpec
================================================================================
