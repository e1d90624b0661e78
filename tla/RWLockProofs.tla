---------------------------- MODULE RWLockProofs ----------------------------
(***************************************************************************)
(* The read/write lock is correct for every finite set of threads.         *)
(* WriterExclusion is not inductive: the code admits a writer by looking   *)
(* at havelock and a reader by looking at writers, so the proof carries    *)
(* CountersExact along, which ties the two counters to the program         *)
(* counters of the threads.                                                *)
(***************************************************************************)
EXTENDS RWLock, FiniteSetTheorems, TLAPS

IInv == TypeOK /\ CountersExact /\ WriterExclusion /\ SleepersHaveReason

\* Adding one thread to a set of threads adds one to its size, taking one out
\* subtracts one, and a set is empty exactly when its size is 0.
LEMMA CountLemma ==
  ASSUME NEW S \in SUBSET Thread
  PROVE  /\ IsFiniteSet(S)
         /\ Cardinality(S) \in Nat
         /\ Cardinality(S) = 0 <=> S = {}
         /\ \A t \in Thread \ S : Cardinality(S \cup {t}) = Cardinality(S) + 1
         /\ \A t \in S : Cardinality(S \ {t}) = Cardinality(S) - 1
<1>1. IsFiniteSet(S)
  BY ThreadAssumption, FS_Subset
<1>2. Cardinality(S) \in Nat
  BY <1>1, FS_CardinalityType
<1>3. Cardinality(S) = 0 <=> S = {}
  BY <1>1, FS_EmptySet
<1>4. \A t \in Thread \ S : Cardinality(S \cup {t}) = Cardinality(S) + 1
  BY <1>1, FS_AddElement
<1>5. \A t \in S : Cardinality(S \ {t}) = Cardinality(S) - 1
  BY <1>1, FS_RemoveElement
<1> QED BY <1>1, <1>2, <1>3, <1>4, <1>5

\* What a step does to the two counted sets, for a thread t that moves from one
\* group of labels to another while the others at most wake up.
Others(t) == \A u \in Thread \ {t} :
               (pc'[u] \in {"reading", "writing"} <=> pc[u] \in {"reading", "writing"})
            /\ (pc'[u] = "writing" <=> pc[u] = "writing")
            /\ (pc'[u] = "reading" <=> pc[u] = "reading")
            /\ (pc'[u] \in {"w_asleep", "w_woken", "writing"}
                  <=> pc[u] \in {"w_asleep", "w_woken", "writing"})
            /\ (pc'[u] = "r_asleep" => pc[u] = "r_asleep")
            /\ (pc'[u] = "w_asleep" => pc[u] = "w_asleep")

\* A broadcast moves sleepers to the woken labels and nobody else.
LEMMA BroadcastLemma ==
  ASSUME NEW p \in [Thread -> Control]
  PROVE  /\ Broadcast(p) \in [Thread -> Control]
         /\ \A u \in Thread :
              /\ Broadcast(p)[u] \notin {"r_asleep", "w_asleep"}
              /\ p[u] \in {"out", "reading", "writing"} => Broadcast(p)[u] = p[u]
              /\ Broadcast(p)[u] \in {"out", "reading", "writing"} => Broadcast(p)[u] = p[u]
              /\ Broadcast(p)[u] \in {"w_woken"} <=> p[u] \in {"w_asleep", "w_woken"}
BY DEF Broadcast, Control

\* When one thread moves and the others at most wake up, the size of the two
\* counted sets changes by what that thread contributes.
LEMMA MoveLemma ==
  ASSUME NEW t \in Thread, TypeOK, TypeOK', Others(t)
  PROVE  /\ (pc[t] \in {"reading", "writing"} <=> pc'[t] \in {"reading", "writing"})
              => Cardinality(Inside') = Cardinality(Inside)
         /\ pc[t] \notin {"reading", "writing"} /\ pc'[t] \in {"reading", "writing"}
              => Cardinality(Inside') = Cardinality(Inside) + 1
         /\ pc[t] \in {"reading", "writing"} /\ pc'[t] \notin {"reading", "writing"}
              => Cardinality(Inside') = Cardinality(Inside) - 1
         /\ (pc[t] \in {"w_asleep", "w_woken", "writing"}
               <=> pc'[t] \in {"w_asleep", "w_woken", "writing"})
              => Cardinality(Writers') = Cardinality(Writers)
         /\ pc[t] \notin {"w_asleep", "w_woken", "writing"}
              /\ pc'[t] \in {"w_asleep", "w_woken", "writing"}
              => Cardinality(Writers') = Cardinality(Writers) + 1
         /\ pc[t] \in {"w_asleep", "w_woken", "writing"}
              /\ pc'[t] \notin {"w_asleep", "w_woken", "writing"}
              => Cardinality(Writers') = Cardinality(Writers) - 1
<1> USE DEF Inside, Writers, At
<1>1. Inside \in SUBSET Thread /\ Writers \in SUBSET Thread
  OBVIOUS
<1>2. ASSUME pc[t] \in {"reading", "writing"} <=> pc'[t] \in {"reading", "writing"}
      PROVE  Inside' = Inside
  BY <1>2 DEF Others
<1>3. ASSUME pc[t] \notin {"reading", "writing"}, pc'[t] \in {"reading", "writing"}
      PROVE  Inside' = Inside \cup {t} /\ t \in Thread \ Inside
  BY <1>3 DEF Others
<1>4. ASSUME pc[t] \in {"reading", "writing"}, pc'[t] \notin {"reading", "writing"}
      PROVE  Inside' = Inside \ {t} /\ t \in Inside
  BY <1>4 DEF Others
<1>5. ASSUME pc[t] \in {"w_asleep", "w_woken", "writing"}
               <=> pc'[t] \in {"w_asleep", "w_woken", "writing"}
      PROVE  Writers' = Writers
  BY <1>5 DEF Others
<1>6. ASSUME pc[t] \notin {"w_asleep", "w_woken", "writing"},
             pc'[t] \in {"w_asleep", "w_woken", "writing"}
      PROVE  Writers' = Writers \cup {t} /\ t \in Thread \ Writers
  BY <1>6 DEF Others
<1>7. ASSUME pc[t] \in {"w_asleep", "w_woken", "writing"},
             pc'[t] \notin {"w_asleep", "w_woken", "writing"}
      PROVE  Writers' = Writers \ {t} /\ t \in Writers
  BY <1>7 DEF Others
<1> HIDE DEF Inside, Writers, At
<1> QED BY <1>1, <1>2, <1>3, <1>4, <1>5, <1>6, <1>7, CountLemma

\* The invariant holds when the lock has just been initialised.
LEMMA InitInv == rw_lock_init => IInv
<1> SUFFICES ASSUME rw_lock_init PROVE IInv
  OBVIOUS
<1>1. TypeOK
  BY DEF rw_lock_init, TypeOK, Control
<1>2. Inside = {} /\ Writers = {}
  BY DEF rw_lock_init, Inside, Writers, At
<1>3. CountersExact
  BY <1>2, CountLemma DEF rw_lock_init, CountersExact
<1>4. WriterExclusion /\ SleepersHaveReason
  BY DEF rw_lock_init, WriterExclusion, SleepersHaveReason, At
<1> QED BY <1>1, <1>3, <1>4 DEF IInv

\* What the counters say about who is where.
LEMMA CountersRead ==
  ASSUME IInv
  PROVE  /\ havelock = 0 => \A u \in Thread : pc[u] \notin {"reading", "writing"}
         /\ writers = 0 => \A u \in Thread : pc[u] \notin {"w_asleep", "w_woken", "writing"}
BY CountLemma DEF IInv, CountersExact, Inside, Writers, At

\* Every step of rw_lock.c preserves the invariant.
LEMMA StepInv == IInv /\ [Next]_vars => IInv'
<1> SUFFICES ASSUME IInv, [Next]_vars PROVE IInv'
  OBVIOUS
<1> USE DEF IInv
<1>0. CASE UNCHANGED vars
  BY <1>0 DEF vars, TypeOK, CountersExact, WriterExclusion, SleepersHaveReason,
              Inside, Writers, At
<1>1. ASSUME NEW t \in Thread,
             TRIE_R_LOCK(t) \/ RetryRead(t)
      PROVE  IInv'
  <2>1. TypeOK' /\ Others(t)
    <3>1. trie_locked' \in [Thread -> BOOLEAN]
      BY <1>1, Zenon DEF TRIE_R_LOCK, RetryRead, TypeOK
    <3>2. TypeOK'
      BY <1>1, <3>1 DEF TRIE_R_LOCK, RetryRead, ReadLoop, TypeOK, Goto, Control
    <3>3. Others(t)
      BY <1>1 DEF TRIE_R_LOCK, RetryRead, ReadLoop, TypeOK, Others, Goto
    <3> QED BY <3>2, <3>3
  <2>2. CountersExact'
    BY <1>1, <2>1, MoveLemma DEF TRIE_R_LOCK, RetryRead, ReadLoop, TypeOK, CountersExact, Goto
  <2>3. WriterExclusion'
    BY <1>1, <2>1, CountersRead
    DEF TRIE_R_LOCK, RetryRead, ReadLoop, TypeOK, WriterExclusion, Goto, Others
  <2>4. SleepersHaveReason'
    BY <1>1, <2>1 DEF TRIE_R_LOCK, RetryRead, ReadLoop, TypeOK, SleepersHaveReason, At, Goto, Others
  <2> QED BY <2>1, <2>2, <2>3, <2>4
<1>2. ASSUME NEW t \in Thread,
             TRIE_W_LOCK(t) \/ RetryWrite(t)
      PROVE  IInv'
  <2>1. TypeOK' /\ Others(t)
    BY <1>2 DEF TRIE_W_LOCK, RetryWrite, WriteLoop, TypeOK, Others, Goto, Control
  <2>2. CountersExact'
    BY <1>2, <2>1, MoveLemma DEF TRIE_W_LOCK, RetryWrite, WriteLoop, TypeOK, CountersExact, Goto
  <2>3. WriterExclusion'
    BY <1>2, <2>1, CountersRead
    DEF TRIE_W_LOCK, RetryWrite, WriteLoop, TypeOK, WriterExclusion, Goto, Others
  <2>4. SleepersHaveReason'
    BY <1>2, <2>1 DEF TRIE_W_LOCK, RetryWrite, WriteLoop, TypeOK, SleepersHaveReason, At, Goto, Others
  <2> QED BY <2>1, <2>2, <2>3, <2>4
<1>3. ASSUME NEW t \in Thread, Unlock(t)
      PROVE  IInv'
  <2> USE DEF Unlock
  <2>1. havelock > 0 /\ (pc[t] = "writing" => writers > 0)
    BY <1>3, CountersRead DEF TRIE_R_UNLOCK, TRIE_W_UNLOCK, TypeOK
  <2>2. Goto(t, "out") \in [Thread -> Control]
    BY DEF TypeOK, Goto, Control
  <2>3. TypeOK'
    <3>1. trie_locked' \in [Thread -> BOOLEAN]
      BY <1>3, Zenon DEF TRIE_R_UNLOCK, TRIE_W_UNLOCK, TypeOK
    <3> QED BY <1>3, <2>1, <2>2, <3>1, BroadcastLemma DEF TRIE_R_UNLOCK, TRIE_W_UNLOCK, TypeOK
  <2>4. Others(t) /\ pc'[t] = "out"
    <3>1. CASE pc' = Goto(t, "out")
      BY <3>1 DEF Goto, Others, TypeOK
    <3>2. CASE pc' = Broadcast(Goto(t, "out"))
      BY <3>2 DEF Goto, Others, TypeOK, Broadcast, Control
    <3> QED BY <1>3, <3>1, <3>2 DEF TRIE_R_UNLOCK, TRIE_W_UNLOCK
  <2>5. CountersExact'
    BY <1>3, <2>1, <2>3, <2>4, MoveLemma DEF TRIE_R_UNLOCK, TRIE_W_UNLOCK, TypeOK, CountersExact
  <2>6. WriterExclusion'
    BY <2>3, <2>4 DEF WriterExclusion, Others, TypeOK
  <2>7. SleepersHaveReason'
    <3>1. CASE havelock' = 0
      BY <1>3, <3>1, <2>2, BroadcastLemma DEF TRIE_R_UNLOCK, TRIE_W_UNLOCK, SleepersHaveReason, At
    <3>2. CASE havelock' # 0 /\ TRIE_R_UNLOCK(t)
      BY <3>2, <2>3, <2>4 DEF TRIE_R_UNLOCK, SleepersHaveReason, At, Others, TypeOK
    <3>3. CASE havelock' # 0 /\ TRIE_W_UNLOCK(t)
      <4>1. \A u \in Thread : pc[u] \in {"reading", "writing"} => u = t
        BY <3>3 DEF TRIE_W_UNLOCK, WriterExclusion
      <4>2. Inside = {t}
        BY <3>3, <4>1 DEF TRIE_W_UNLOCK, Inside, At
      <4>3. Inside' = {}
        BY <3>3, <4>1, <2>4 DEF TRIE_W_UNLOCK, Inside, At, Others
      <4> QED BY <3>3, <4>3, <2>5, CountLemma DEF CountersExact
    <3> QED BY <1>3, <3>1, <3>2, <3>3
  <2> QED BY <2>3, <2>5, <2>6, <2>7
<1>4. ASSUME NEW t \in Thread, SpuriousWakeup(t)
      PROVE  IInv'
  <2>1. TypeOK' /\ Others(t)
    BY <1>4 DEF SpuriousWakeup, TypeOK, Others, Goto, Control
  <2>2. CountersExact'
    BY <1>4, <2>1, MoveLemma DEF SpuriousWakeup, TypeOK, CountersExact, Goto
  <2>3. WriterExclusion' /\ SleepersHaveReason'
    BY <1>4, <2>1
    DEF SpuriousWakeup, TypeOK, WriterExclusion, SleepersHaveReason, At, Goto, Others
  <2> QED BY <2>1, <2>2, <2>3
<1> QED BY <1>0, <1>1, <1>2, <1>3, <1>4 DEF Next, Unlock

\* The lock's fields keep their types: neither counter ever goes negative, so
\* every unlock in rw_lock.c is matched by a lock.
THEOREM TypeCorrect == Spec => []TypeOK
<1>1. IInv => TypeOK
  BY DEF IInv
<1> QED BY <1>1, InitInv, StepInv, PTL DEF Spec

\* No thread is inside a trie together with a writer, for any number of threads.
THEOREM Exclusion == Spec => []WriterExclusion
<1>1. IInv => WriterExclusion
  BY DEF IInv
<1> QED BY <1>1, InitInv, StepInv, PTL DEF Spec

\* No wake-up of the lock is lost, for any number of threads.
THEOREM NoLostWakeup == Spec => []SleepersHaveReason
<1>1. IInv => SleepersHaveReason
  BY DEF IInv
<1> QED BY <1>1, InitInv, StepInv, PTL DEF Spec

\* havelock and writers always count the threads they stand for.
THEOREM CountersCorrect == Spec => []CountersExact
<1>1. IInv => CountersExact
  BY DEF IInv
<1> QED BY <1>1, InitInv, StepInv, PTL DEF Spec
=============================================================================
