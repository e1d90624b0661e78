------------------------------- MODULE RWLock -------------------------------
(***************************************************************************)
(* The writer-preferring read/write lock that guards the tries             *)
(* (src/XSB/emu/rw_lock.c, with the TRIE_*_LOCK macros of rw_lock.h).      *)
(*                                                                         *)
(* Every function of rw_lock.c runs between pthread_mutex_lock and         *)
(* pthread_mutex_unlock, except where pthread_cond_wait gives the mutex up, *)
(* so one action is one stretch of code with the mutex held:  the entry of *)
(* the function up to its return or its first wait, and one more turn of   *)
(* its while loop after a wake-up.  POSIX allows a wait to return without  *)
(* a broadcast, hence SpuriousWakeup.                                      *)
(***************************************************************************)
EXTENDS Integers, FiniteSets

CONSTANT Thread     \* the engine threads that share the tries

ASSUME ThreadAssumption == IsFiniteSet(Thread)

VARIABLES
  havelock,     \* l->havelock: how many threads are inside
  writers,      \* l->writers:  writers inside or waiting to get in
  trie_locked,  \* th->trie_locked: the flag that keeps read locks from nesting
  pc            \* where each thread is

vars == <<havelock, writers, trie_locked, pc>>

\* "r_asleep" is blocked in the pthread_cond_wait of rw_lock_read, "r_woken"
\* has been woken there and waits for the mutex to test the loop again.
Control == {"out", "r_asleep", "r_woken", "reading",
                   "w_asleep", "w_woken", "writing"}

At(labels) == {t \in Thread : pc[t] \in labels}

TypeOK ==
  /\ havelock \in Nat
  /\ writers \in Nat
  /\ trie_locked \in [Thread -> BOOLEAN]
  /\ pc \in [Thread -> Control]

rw_lock_init ==
  /\ havelock = 0
  /\ writers = 0
  /\ trie_locked = [t \in Thread |-> FALSE]
  /\ pc = [t \in Thread |-> "out"]

-----------------------------------------------------------------------------
Broadcast(p) ==   \* pthread_cond_broadcast(&l->waiting), applied to p
  [t \in Thread |-> CASE p[t] = "r_asleep" -> "r_woken"
                      [] p[t] = "w_asleep" -> "w_woken"
                      [] OTHER -> p[t]]

Goto(t, label) == [pc EXCEPT ![t] = label]

\* The while loop of rw_lock_read: it waits as long as there is any writer.
ReadLoop(t) ==
  \/ /\ writers > 0
     /\ pc' = Goto(t, "r_asleep")
     /\ UNCHANGED <<havelock, writers>>
  \/ /\ ~(writers > 0)
     /\ havelock' = havelock + 1
     /\ pc' = Goto(t, "reading")
     /\ UNCHANGED writers

TRIE_R_LOCK(t) ==
  /\ pc[t] = "out"
  /\ ~trie_locked[t]
  /\ trie_locked' = [trie_locked EXCEPT ![t] = TRUE]
  /\ ReadLoop(t)

RetryRead(t) ==
  /\ pc[t] = "r_woken"
  /\ ReadLoop(t)
  /\ UNCHANGED trie_locked

\* Mutant: rw_unlock_read does not broadcast.
R_UnlockSilent(t) ==
  /\ pc[t] = "reading"
  /\ trie_locked' = [trie_locked EXCEPT ![t] = FALSE]
  /\ havelock' = havelock - 1
  /\ pc' = Goto(t, "out")
  /\ UNCHANGED writers

\* Mutant: rw_unlock_read counts a writer out.
R_UnlockCountsWriter(t) ==
  /\ pc[t] = "reading"
  /\ trie_locked' = [trie_locked EXCEPT ![t] = FALSE]
  /\ havelock' = havelock - 1
  /\ writers' = writers - 1
  /\ pc' = Broadcast(Goto(t, "out"))

TRIE_R_UNLOCK(t) ==
  /\ pc[t] = "reading"
  /\ trie_locked[t]
  /\ trie_locked' = [trie_locked EXCEPT ![t] = FALSE]
  /\ havelock' = havelock - 1
  /\ pc' = IF havelock' = 0 THEN Broadcast(Goto(t, "out")) ELSE Goto(t, "out")
  /\ UNCHANGED writers

\* The while loop of rw_lock_write: w is the value of l->writers, which the
\* entry of the function has incremented and a further turn has not.
WriteLoop(t, w) ==
  /\ writers' = w
  /\ \/ /\ havelock > 0
        /\ pc' = Goto(t, "w_asleep")
        /\ UNCHANGED havelock
     \/ /\ ~(havelock > 0)
        /\ havelock' = havelock + 1
        /\ pc' = Goto(t, "writing")

TRIE_W_LOCK(t) ==
  /\ pc[t] = "out"
  /\ WriteLoop(t, writers + 1)
  /\ UNCHANGED trie_locked

\* Mutant: the wait is an if, not a while.
RetryWriteUntested(t) ==
  /\ pc[t] = "w_woken"
  /\ havelock' = havelock + 1
  /\ pc' = Goto(t, "writing")
  /\ UNCHANGED <<writers, trie_locked>>

RetryWrite(t) ==
  /\ pc[t] = "w_woken"
  /\ WriteLoop(t, writers)
  /\ UNCHANGED trie_locked

\* Mutant: rw_unlock_write does not broadcast.
W_UnlockSilent(t) ==
  /\ pc[t] = "writing"
  /\ havelock' = havelock - 1
  /\ writers' = writers - 1
  /\ pc' = Goto(t, "out")
  /\ UNCHANGED trie_locked

\* Mutant: rw_unlock_write forgets writers--.
W_UnlockKeepsWriter(t) ==
  /\ pc[t] = "writing"
  /\ havelock' = havelock - 1
  /\ pc' = Broadcast(Goto(t, "out"))
  /\ UNCHANGED <<writers, trie_locked>>

TRIE_W_UNLOCK(t) ==
  /\ pc[t] = "writing"
  /\ havelock' = havelock - 1
  /\ writers' = writers - 1
  /\ pc' = IF havelock' = 0 THEN Broadcast(Goto(t, "out")) ELSE Goto(t, "out")
  /\ UNCHANGED trie_locked

SpuriousWakeup(t) ==
  /\ pc[t] \in {"r_asleep", "w_asleep"}
  /\ pc' = Goto(t, IF pc[t] = "r_asleep" THEN "r_woken" ELSE "w_woken")
  /\ UNCHANGED <<havelock, writers, trie_locked>>

Retry(t) == RetryRead(t) \/ RetryWrite(t)
Unlock(t) == TRIE_R_UNLOCK(t) \/ TRIE_W_UNLOCK(t)

Next ==
  \E t \in Thread :
     \/ TRIE_R_LOCK(t) \/ RetryRead(t) \/ TRIE_R_UNLOCK(t)
     \/ TRIE_W_LOCK(t) \/ RetryWrite(t) \/ TRIE_W_UNLOCK(t)
     \/ SpuriousWakeup(t)

\* A thread that has been woken gets the mutex in the end, and a thread inside
\* the lock gets out in the end; nobody is obliged to ask for the lock.
Fairness == \A t \in Thread : WF_vars(Retry(t)) /\ WF_vars(Unlock(t))

Spec == rw_lock_init /\ [][Next]_vars /\ Fairness

-----------------------------------------------------------------------------
Inside == At({"reading", "writing"})
Writers == At({"w_asleep", "w_woken", "writing"})

\* The two counters count what their names say.  rw_lock_read admits on
\* writers and rw_lock_write admits on havelock, so exclusion rests on this.
CountersExact ==
  /\ havelock = Cardinality(Inside)
  /\ writers = Cardinality(Writers)

\* rw_lock_write returns only to a thread that is alone inside the lock: a trie
\* is never changed while another thread walks it or changes it.
WriterExclusion ==
  \A t, u \in Thread : pc[t] = "writing" /\ pc[u] \in {"reading", "writing"}
                       => t = u

\* No wake-up is lost: whoever sleeps in pthread_cond_wait has a reason to that
\* is still true, so the broadcast that ends the reason is still to come.  The
\* broadcasts are made only when havelock drops to 0.
SleepersHaveReason ==
  /\ At({"r_asleep"}) # {} => writers > 0
  /\ At({"w_asleep"}) # {} => havelock > 0

\* While some thread waits in rw_lock_write, some thread gets the write lock:
\* readers cannot keep all writers out for ever.
WritersServed == Writers # {} ~> At({"writing"}) # {}
=============================================================================
