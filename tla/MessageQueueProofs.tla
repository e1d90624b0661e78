------------------------- MODULE MessageQueueProofs -------------------------
(***************************************************************************)
(* The properties of a public message queue, for every number of threads,  *)
(* size of the queue, kind of message and bound on requests and            *)
(* interrupts.  They hold together only: who may touch the queue depends   *)
(* on who may reclaim its slot, which depends on the count of waiters.     *)
(***************************************************************************)
EXTENDS MessageQueue, FiniteSetTheorems, SequenceTheorems, TLAPS

Place == {"idle", "lock", "wait", "asleep", "woken", "sent", "scan", "accepted", "signalled",
          "dealloc", "peek", "unlock", "destroyed", "destroyed2", "init", "dead"}

Queues   == [msgs : Seq((0..MaxCreates) \X Kind), n_threads : 0..Cardinality(Thread),
             deleted : BOOLEAN, id : 0..MaxCreates]
Requests == [at : Place, op : {"none", "send", "get", "peek", "destroy"},
             id : 0..MaxCreates, kind : Kind, cur : Nat]

Types ==
  /\ q \in Queues /\ (MaxSize # 0 => Len(q.msgs) <= MaxSize)
  /\ free \in BOOLEAN
  /\ mq_mutex \in Thread \cup {NoThread} /\ mutex_owner \in Thread \cup {NoThread}
  /\ th \in [Thread -> Requests]
  /\ marked \in SUBSET Thread
  /\ sent \in Nat

\* t looks through the queue, with current_mq_cell in it.
Looks(t) == th[t].at \in {"scan", "peek"} /\ th[t].cur # 0

\* t waits for good reason.
Unserved(t) ==
  /\ ~q.deleted
  /\ th[t].op = "send" => Full(q.msgs)
  /\ th[t].op = "get" => \A i \in DOMAIN q.msgs : q.msgs[i][2] # th[t].kind

\* Whoever is between locking and unlocking has mq_mutex.  A thread that looks
\* through the queue is in the queue it asked for, which is not destroyed meanwhile,
\* and has found nothing so far.  A thread waits for the queue it asked for.
HoldsMutex(t) == Looks(t) \/ th[t].at \in {"wait", "unlock", "peek"} => mq_mutex = t
SeesQueue(t) ==
  /\ Looks(t) => ~q.deleted /\ th[t].cur \in DOMAIN q.msgs
  /\ Looks(t) /\ th[t].at = "scan" =>
       /\ mutex_owner = t /\ th[t].id = q.id /\ th[t].op # "send"
       /\ \A i \in 1 .. th[t].cur - 1 : q.msgs[i][2] # th[t].kind
WaitsHere(t) == /\ Waiting(t) => th[t].id = q.id
                /\ th[t].at = "wait" => Unserved(t)
Fits(t) == HoldsMutex(t) /\ SeesQueue(t) /\ WaitsHere(t)

\* Only interrupts lead out of a request half way.
Orderly ==
  sent = 0 => /\ marked = {}
              /\ \A t \in Thread : /\ th[t].at # "signalled"
                                   /\ th[t].at \in {"scan", "peek"} => th[t].cur # 0

\* The slot is given back, free, or being used again; then nobody waits, and all
\* three exclude each other.
Reclaims(t) == th[t].at \in {"dealloc", "init"}
SlotReclaimed ==
  /\ \A t, u \in Thread : Reclaims(t) /\ Reclaims(u) => t = u
  /\ \A t \in Thread : Reclaims(t) => ~free
  /\ \A t \in Thread : free \/ Reclaims(t) => q.deleted /\ \A u \in Thread : ~Waiting(u)
  /\ \A t \in Thread : th[t].at = "init" => q.id < MaxCreates

WaitersCounted == q.n_threads = Cardinality(Waiters)

\* A destroyed queue is reclaimed.
ReclaimedAtLast ==
  sent = 0 /\ q.deleted /\ (\A t \in Thread : ~Waiting(t)) =>
     free \/ \E t \in Thread : Reclaims(t)

IInv ==
  /\ Types /\ (\A t \in Thread : Fits(t)) /\ Orderly
  /\ SlotReclaimed /\ WaitersCounted /\ ReclaimedAtLast
  /\ NoMissedWakeup /\ DeliveredToAddressee

-----------------------------------------------------------------------------
\* A broadcast moves threads from "asleep" to "woken".
WokenUpTo(u) == th[u].at = "asleep" /\ th'[u] = [th[u] EXCEPT !.at = "woken"]
Others(t)    == \A u \in Thread \ {t} : th'[u] = th[u] \/ WokenUpTo(u)
Moves(t, r)  == /\ th' \in [Thread -> Requests]
                /\ th'[t] = r
                /\ \A u \in Thread \ {t} : th'[u] = th[u]

\* A thread between two requests is in a request of the right type.
LEMMA IdleType == Idle \in Requests
<1>1. (CHOOSE k \in Kind : TRUE) \in Kind
  BY MessageQueueAssumption
<1> QED BY <1>1, MessageQueueAssumption DEF Idle, Requests, Place

\* An action that changes the request of one thread.
LEMMA OneMoves ==
  ASSUME Types, NEW t \in Thread
  PROVE  /\ \A a \in Place : th' = At(t, a) => Moves(t, [th[t] EXCEPT !.at = a])
         /\ th' = Finished(t) => Moves(t, Idle)
         /\ \A a \in Place, c \in Nat : th' = [th EXCEPT ![t].at = a, ![t].cur = c] =>
              Moves(t, [th[t] EXCEPT !.at = a, !.cur = c])
         /\ \A c \in Nat : th' = [th EXCEPT ![t].cur = c] => Moves(t, [th[t] EXCEPT !.cur = c])
         /\ \A r \in Requests : th' = [th EXCEPT ![t] = r] => Moves(t, r)
<1>1. \A r \in Requests : th' = [th EXCEPT ![t] = r] => Moves(t, r)
  BY DEF Moves, Types
<1>2. th[t] \in Requests
  BY DEF Types
<1>3. \A a \in Place : [th[t] EXCEPT !.at = a] \in Requests
  BY <1>2 DEF Requests
<1>4. \A a \in Place, c \in Nat : [th[t] EXCEPT !.at = a, !.cur = c] \in Requests
  BY <1>2 DEF Requests
<1>5. \A c \in Nat : [th[t] EXCEPT !.cur = c] \in Requests
  BY <1>2 DEF Requests
<1>6. \A a \in Place : th' = At(t, a) => Moves(t, [th[t] EXCEPT !.at = a])
  BY <1>1, <1>3 DEF At
<1>7. th' = Finished(t) => Moves(t, Idle)
  BY <1>1, IdleType DEF Finished
<1>8. \A a \in Place, c \in Nat : th' = [th EXCEPT ![t].at = a, ![t].cur = c] =>
              Moves(t, [th[t] EXCEPT !.at = a, !.cur = c])
  BY <1>1, <1>4
<1>9. \A c \in Nat : th' = [th EXCEPT ![t].cur = c] => Moves(t, [th[t] EXCEPT !.cur = c])
  BY <1>1, <1>5
<1> QED BY <1>1, <1>6, <1>7, <1>8, <1>9

\* An action that wakes the threads on some condition variables.
LEMMA BroadcastMoves ==
  ASSUME Types, NEW t \in Thread, NEW conds, NEW r \in Requests, Broadcast(t, conds, r)
  PROVE  /\ th' \in [Thread -> Requests]
         /\ th'[t] = r /\ Others(t)
         /\ \A u \in Thread \ {t} :
              th'[u].at = "asleep" => th[u].at = "asleep" /\ Cond(u) \notin conds
<1>1. \A u \in Thread : [th[u] EXCEPT !.at = "woken"] \in Requests
  BY DEF Types, Requests, Place
<1>2. th' \in [Thread -> Requests]
  BY <1>1 DEF Types, Broadcast
<1>3. th'[t] = r /\ Others(t)
  BY DEF Broadcast, Others, WokenUpTo
<1>4. ASSUME NEW u \in Thread \ {t}, th'[u].at = "asleep"
      PROVE  th[u].at = "asleep" /\ Cond(u) \notin conds
  <2>1. th[u] \in Requests /\ [th[u] EXCEPT !.at = "woken"].at = "woken"
    BY DEF Types, Requests
  <2> QED BY <1>4, <2>1 DEF Broadcast
<1> QED BY <1>2, <1>3, <1>4

\* How the number of waiting threads changes when one thread moves.
LEMMA CountWaiters ==
  ASSUME Types, th' \in [Thread -> Requests], NEW t \in Thread, Others(t)
  PROVE  /\ Cardinality(Waiters) \in 0..Cardinality(Thread)
         /\ Cardinality(Waiters) = 0 <=> \A u \in Thread : ~Waiting(u)
         /\ (Waiting(t) <=> Waiting(t)') => Cardinality(Waiters') = Cardinality(Waiters)
         /\ ~Waiting(t) /\ Waiting(t)' => Cardinality(Waiters') = Cardinality(Waiters) + 1
         /\ Waiting(t) /\ ~Waiting(t)' => Cardinality(Waiters') = Cardinality(Waiters) - 1
         /\ Cardinality(Waiters') \in 0..Cardinality(Thread)
         /\ Cardinality(Waiters') = 0 <=> \A u \in Thread : ~Waiting(u)'
<1>1. \A u \in Thread \ {t} : Waiting(u)' <=> Waiting(u)
  <2> SUFFICES ASSUME NEW u \in Thread \ {t} PROVE Waiting(u)' <=> Waiting(u)
    OBVIOUS
  <2>1. WokenUpTo(u) => th'[u].at = "woken" /\ th[u].at = "asleep"
    BY DEF Types, Requests, WokenUpTo
  <2> QED BY <2>1 DEF Others, Waiting
<1>2. /\ IsFiniteSet(Waiters) /\ Cardinality(Waiters) \in Nat
      /\ Cardinality(Waiters) <= Cardinality(Thread)
      /\ IsFiniteSet(Waiters') /\ Cardinality(Waiters') \in Nat
      /\ Cardinality(Waiters') <= Cardinality(Thread)
      /\ Cardinality(Thread) \in Nat
  BY MessageQueueAssumption, FS_Subset, FS_CardinalityType DEF Waiters
<1>3. Cardinality(Waiters) = 0 <=> \A u \in Thread : ~Waiting(u)
  BY <1>2, FS_EmptySet DEF Waiters
<1>7. Cardinality(Waiters') = 0 <=> \A u \in Thread : ~Waiting(u)'
  BY <1>2, FS_EmptySet DEF Waiters
<1>4. ASSUME Waiting(t) <=> Waiting(t)' PROVE Waiters' = Waiters
  BY <1>1, <1>4 DEF Waiters
<1>5. ASSUME ~Waiting(t), Waiting(t)' PROVE Cardinality(Waiters') = Cardinality(Waiters) + 1
  <2>1. Waiters' = Waiters \cup {t} /\ t \notin Waiters
    BY <1>1, <1>5 DEF Waiters
  <2> QED BY <1>2, <2>1, FS_AddElement
<1>6. ASSUME Waiting(t), ~Waiting(t)' PROVE Cardinality(Waiters') = Cardinality(Waiters) - 1
  <2>1. Waiters' = Waiters \ {t} /\ t \in Waiters
    BY <1>1, <1>6 DEF Waiters
  <2> QED BY <1>2, <2>1, FS_RemoveElement
<1> QED BY <1>2, <1>3, <1>4, <1>5, <1>6, <1>7

\* The threads beside the one that moves keep what they know of the queue: it does
\* not change, or it changes under mq_mutex, or while its slot is reclaimed.
LEMMA OthersFit ==
  ASSUME IInv, Types', NEW t \in Thread, Others(t),
         \/ UNCHANGED <<q, mq_mutex, mutex_owner>>
         \/ mq_mutex \in {NoThread, t} /\ (q'.id = q.id \/ \A u \in Thread : ~Waiting(u))
         \/ UNCHANGED <<mq_mutex, mutex_owner>> /\ q.deleted /\ \A u \in Thread : ~Waiting(u)
  PROVE  \A u \in Thread \ {t} : Fits(u)'
<1> SUFFICES ASSUME NEW u \in Thread \ {t} PROVE Fits(u)'
  OBVIOUS
<1>1. Fits(u) /\ t # NoThread /\ u # NoThread
  BY MessageQueueAssumption DEF IInv
<1>2. /\ Looks(u)' <=> Looks(u)
      /\ th'[u].at \in {"wait", "unlock", "peek"} <=> th[u].at \in {"wait", "unlock", "peek"}
      /\ th'[u].at = "wait" <=> th[u].at = "wait"
      /\ th'[u].at = "scan" <=> th[u].at = "scan"
      /\ Waiting(u)' <=> Waiting(u)
      /\ th'[u].op = th[u].op /\ th'[u].kind = th[u].kind
      /\ th'[u].cur = th[u].cur /\ th'[u].id = th[u].id
  <2>1. WokenUpTo(u) => /\ th'[u].at = "woken" /\ th[u].at = "asleep"
                        /\ th'[u].op = th[u].op /\ th'[u].kind = th[u].kind
                        /\ th'[u].cur = th[u].cur /\ th'[u].id = th[u].id
    BY DEF IInv, Types, Requests, WokenUpTo
  <2> QED BY <2>1 DEF Others, Looks, Waiting
<1>3. CASE UNCHANGED <<q, mq_mutex, mutex_owner>>
  BY <1>1, <1>2, <1>3 DEF Fits, HoldsMutex, SeesQueue, WaitsHere, Unserved, Full
<1>4. CASE mq_mutex \in {NoThread, t} /\ (q'.id = q.id \/ \A v \in Thread : ~Waiting(v))
  BY <1>1, <1>2, <1>4 DEF Fits, HoldsMutex, SeesQueue, WaitsHere
<1>5. CASE UNCHANGED <<mq_mutex, mutex_owner>> /\ q.deleted /\ \A v \in Thread : ~Waiting(v)
  BY <1>1, <1>2, <1>5 DEF Fits, HoldsMutex, SeesQueue, WaitsHere, Waiting
<1> QED BY <1>3, <1>4, <1>5

\* A step that does not destroy, reclaim or create the queue leaves the slot as it is.
LEMMA SlotKept ==
  ASSUME IInv, Types', NEW t \in Thread, Others(t),
         free' = free, q'.deleted = q.deleted, q'.id = q.id,
         ~Reclaims(t), ~Reclaims(t)',
         ~q.deleted \/ (Waiting(t) <=> Waiting(t)')
                    \/ (~Waiting(t)' /\ sent > 0),
         sent' >= sent
  PROVE  SlotReclaimed' /\ ReclaimedAtLast'
<1>1. \A u \in Thread \ {t} : /\ Waiting(u)' <=> Waiting(u)
                              /\ th'[u].at = "dealloc" <=> th[u].at = "dealloc"
                              /\ th'[u].at = "init" <=> th[u].at = "init"
  <2> SUFFICES ASSUME NEW u \in Thread \ {t}
               PROVE  /\ Waiting(u)' <=> Waiting(u)
                      /\ th'[u].at = "dealloc" <=> th[u].at = "dealloc"
                      /\ th'[u].at = "init" <=> th[u].at = "init"
    OBVIOUS
  <2>1. WokenUpTo(u) => th'[u].at = "woken" /\ th[u].at = "asleep"
    BY DEF IInv, Types, Requests, WokenUpTo
  <2> QED BY <2>1 DEF Others, Waiting
<1>2. \A u \in Thread : /\ Reclaims(u)' <=> Reclaims(u)
                        /\ th'[u].at = "init" <=> th[u].at = "init"
  BY <1>1 DEF Reclaims
<1>3. q.deleted => \A u \in Thread \ {t} : Waiting(u)' <=> Waiting(u)
  BY <1>1
<1>4. SlotReclaimed'
  <2>1. \A u \in Thread : free' \/ Reclaims(u)' => q'.deleted /\ \A v \in Thread : ~Waiting(v)'
    BY <1>1, <1>2 DEF IInv, SlotReclaimed
  <2> QED BY <1>2, <2>1 DEF IInv, SlotReclaimed
<1>5. ReclaimedAtLast'
  BY <1>1, <1>2 DEF IInv, ReclaimedAtLast, Types
<1> QED BY <1>4, <1>5

\* t is on its way to a broadcast.
Announcing(t) == th[t].at \in {"sent", "accepted", "destroyed", "destroyed2"}
Announced(t) ==
  \E u \in Thread : th[u].at \in
     IF th[t].op = "send" THEN {"accepted", "destroyed", "destroyed2"} ELSE {"sent", "destroyed"}

\* The invariant about sleeping threads in the terms of the proof.
LEMMA Wakeups ==
  /\ NoMissedWakeup <=>
       \A t \in Thread : th[t].at = "asleep" => Announced(t) \/ Unserved(t)
  /\ NoMissedWakeup' <=>
       \A t \in Thread : th'[t].at = "asleep" => Announced(t)' \/ Unserved(t)'
BY DEF NoMissedWakeup, Announced, Unserved

\* Threads that sleep on keep their reason when t moves without a broadcast that was
\* due and the queue stays as full as it is for them.
LEMMA SleepersKept ==
  ASSUME IInv, Types', NEW t \in Thread, Others(t), ~Announcing(t),
         th'[t].at = "asleep" => Unserved(t)',
         \A u \in Thread \ {t} : Unserved(u) /\ th'[u].at = "asleep" =>
            Announced(u)' \/ Unserved(u)'
  PROVE  NoMissedWakeup'
<1> SUFFICES ASSUME NEW u \in Thread \ {t}, th'[u].at = "asleep"
             PROVE  Announced(u)' \/ Unserved(u)'
  BY Wakeups
<1>1. \A v \in Thread \ {t} : th'[v] = th[v] \/ (th'[v].at = "woken" /\ th[v].at = "asleep")
  BY DEF IInv, Types, Requests, WokenUpTo, Others
<1>2. th'[u] = th[u]
  BY <1>1
<1>3. Announced(u) \/ Unserved(u)
  BY <1>2, Wakeups DEF IInv
<1>4. CASE Announced(u)
  <2>1. PICK v \in Thread : th[v].at \in IF th[u].op = "send"
          THEN {"accepted", "destroyed", "destroyed2"} ELSE {"sent", "destroyed"}
    BY <1>4 DEF Announced
  <2>2. v # t /\ th'[v] = th[v]
    BY <2>1, <1>1 DEF Announcing
  <2> QED BY <2>1, <2>2, <1>2 DEF Announced
<1> QED BY <1>2, <1>3, <1>4

-----------------------------------------------------------------------------
(* One lemma for each operation, or for a few that are alike. *)

\* The first state, in which nobody is in a request.
LEMMA InitInv == Init => IInv
<1> SUFFICES ASSUME Init PROVE IInv
  OBVIOUS
<1> USE DEF Init
<1>1. \A t \in Thread : th[t] = Idle /\ th[t].at = "idle"
  BY DEF Idle
<1>2. Waiters = {}
  BY <1>1 DEF Waiters, Waiting
<1>3. Cardinality(Thread) \in Nat /\ Cardinality(Waiters) = 0
  BY <1>2, MessageQueueAssumption, FS_CardinalityType, FS_EmptySet
<1>4. Types
  <2>1. q \in Queues
    BY <1>3, MessageQueueAssumption DEF Queues
  <2>2. Len(q.msgs) = 0
    OBVIOUS
  <2>3. MaxSize \in Nat /\ free \in BOOLEAN /\ th \in [Thread -> Requests]
    BY IdleType, MessageQueueAssumption
  <2> QED BY <2>1, <2>2, <2>3 DEF Types
<1>5. \A t \in Thread : Fits(t)
  BY <1>1 DEF Fits, HoldsMutex, SeesQueue, WaitsHere, Looks, Waiting
<1>6. Orderly /\ SlotReclaimed /\ ReclaimedAtLast
  BY <1>1 DEF Orderly, SlotReclaimed, ReclaimedAtLast, Reclaims
<1>7. NoMissedWakeup /\ DeliveredToAddressee /\ WaitersCounted
  BY <1>1, <1>3 DEF NoMissedWakeup, DeliveredToAddressee, WaitersCounted
<1> QED BY <1>4, <1>5, <1>6, <1>7 DEF IInv

\* A step of t that leaves the queue, its mutex and its waiters alone.
LEMMA QuietStep ==
  ASSUME IInv, Types', NEW t \in Thread, Others(t),
         UNCHANGED <<q, free, mq_mutex, mutex_owner>>,
         Fits(t)', Orderly', ~Reclaims(t), ~Reclaims(t)', Waiting(t) <=> Waiting(t)',
         sent' >= sent, NoMissedWakeup'
  PROVE  IInv'
<1>1. \A u \in Thread : Fits(u)'
  BY OthersFit
<1>2. SlotReclaimed' /\ ReclaimedAtLast'
  BY SlotKept
<1>3. WaitersCounted'
  BY CountWaiters DEF IInv, Types, WaitersCounted
<1>4. DeliveredToAddressee'
  BY DEF IInv, DeliveredToAddressee
<1> QED BY <1>1, <1>2, <1>3, <1>4 DEF IInv

\* A broadcast under the condition variables that were due leaves no sleeper behind.
LEMMA Broadcasts ==
  ASSUME IInv, NEW t \in Thread, NEW conds, NEW r \in Requests, Broadcast(t, conds, r),
         UNCHANGED <<q, free, mq_mutex, mutex_owner, marked, sent>>,
         Announcing(t), r.at \in {"idle", "destroyed2"},
         th[t].at = "sent" => "mq_has_messages" \in conds,
         th[t].at = "accepted" => "mq_has_free_cells" \in conds,
         th[t].at = "destroyed" => "mq_has_messages" \in conds /\ r.at = "destroyed2",
         th[t].at = "destroyed2" => "mq_has_free_cells" \in conds
  PROVE  IInv'
<1>1. /\ th' \in [Thread -> Requests] /\ th'[t] = r /\ Others(t)
      /\ \A u \in Thread \ {t} :
           th'[u].at = "asleep" => th[u].at = "asleep" /\ Cond(u) \notin conds
  BY BroadcastMoves DEF IInv
<1>2. Types'
  BY <1>1 DEF IInv, Types
<1>3. Fits(t)' /\ ~Reclaims(t) /\ ~Reclaims(t)' /\ ~Waiting(t) /\ ~Waiting(t)'
  BY <1>1 DEF Fits, HoldsMutex, SeesQueue, WaitsHere, Looks, Waiting, Reclaims, Announcing
<1>4. Orderly'
  <2>1. \A u \in Thread \ {t} : th'[u] = th[u] \/ th'[u].at = "woken"
    BY <1>1 DEF IInv, Types, Requests, WokenUpTo, Others
  <2> QED BY <2>1, <1>1 DEF IInv, Orderly
<1>5. NoMissedWakeup'
  <2> SUFFICES ASSUME NEW u \in Thread, th'[u].at = "asleep"
               PROVE  Announced(u)' \/ Unserved(u)'
    BY Wakeups
  <2>1. u # t /\ th[u].at = "asleep" /\ Cond(u) \notin conds
    BY <1>1
  <2>2. \A v \in Thread \ {t} : th'[v] = th[v] \/ (th'[v].at = "woken" /\ th[v].at = "asleep")
    BY <1>1 DEF IInv, Types, Requests, WokenUpTo, Others
  <2>3. th'[u] = th[u]
    BY <2>1, <2>2
  <2>4. CASE Unserved(u)
    BY <2>3, <2>4 DEF Unserved, Full
  <2>5. CASE Announced(u)
    <3>1. PICK v \in Thread : th[v].at \in IF th[u].op = "send"
            THEN {"accepted", "destroyed", "destroyed2"} ELSE {"sent", "destroyed"}
      BY <2>5 DEF Announced
    <3>2. CASE v # t
      BY <3>1, <3>2, <2>2, <2>3 DEF Announced
    <3>3. CASE v = t /\ th[u].op = "send"
      BY <3>1, <3>3, <1>1, <2>1, <2>3 DEF Announced, Cond
    <3>4. CASE v = t /\ th[u].op # "send"
      BY <3>1, <3>4, <2>1 DEF Cond
    <3> QED BY <3>2, <3>3, <3>4
  <2> QED BY <2>1, <2>4, <2>5, Wakeups DEF IInv
<1> QED
  <2>1. sent' >= sent
    BY DEF IInv, Types
  <2> QED BY <1>1, <1>2, <1>3, <1>4, <1>5, <2>1, QuietStep

\* The four operations that end with a broadcast make the one that was due.
LEMMA BroadcastStep ==
  ASSUME IInv, NEW t \in Thread,
         SendBroadcast(t) \/ AcceptBroadcast(t) \/ DestroyBroadcast(t) \/ DestroyBroadcast2(t)
  PROVE  IInv'
<1>1. Idle.at = "idle" /\ Idle \in Requests
  BY IdleType DEF Idle
<1>2. [th[t] EXCEPT !.at = "destroyed2"] \in Requests
      /\ [th[t] EXCEPT !.at = "destroyed2"].at = "destroyed2"
  BY DEF IInv, Types, Requests, Place
<1>3. CASE SendBroadcast(t)
  BY <1>1, <1>3, Broadcasts DEF SendBroadcast, Announcing
<1>4. CASE AcceptBroadcast(t)
  BY <1>1, <1>4, Broadcasts DEF AcceptBroadcast, Announcing
<1>5. CASE DestroyBroadcast(t)
  BY <1>2, <1>5, Broadcasts DEF DestroyBroadcast, Announcing
<1>6. CASE DestroyBroadcast2(t)
  BY <1>1, <1>6, Broadcasts DEF DestroyBroadcast2, Announcing
<1> QED BY <1>3, <1>4, <1>5, <1>6

\* An interrupt may wake a thread early; it cannot make one sleep on.
LEMMA InterruptStep ==
  ASSUME IInv, NEW t \in Thread, NEW w \in Thread, ThreadInterrupt(t, w)
  PROVE  IInv'
<1>1. /\ UNCHANGED <<q, free, mq_mutex, mutex_owner>> /\ sent' = sent + 1
      /\ marked' = marked \cup {w} /\ th[t] = Idle /\ Idle.at = "idle"
  BY DEF ThreadInterrupt, Idle
<1>2. /\ th' \in [Thread -> Requests] /\ th'[t] = Idle /\ Others(t)
  <2>1. CASE Broadcast(t, {Cond(w)}, Idle)
    BY <2>1, BroadcastMoves, IdleType DEF IInv
  <2>2. CASE th' = th
    BY <2>2, <1>1 DEF IInv, Types, Others
  <2> QED BY <2>1, <2>2 DEF ThreadInterrupt
<1>3. Types' /\ sent' >= sent
  BY <1>1, <1>2 DEF IInv, Types
<1>4. Fits(t)' /\ ~Reclaims(t) /\ ~Reclaims(t)' /\ ~Waiting(t) /\ ~Waiting(t)' /\ ~Announcing(t)
  BY <1>1, <1>2
  DEF Fits, HoldsMutex, SeesQueue, WaitsHere, Looks, Waiting, Reclaims, Announcing
<1>5. Orderly'
  BY <1>1 DEF IInv, Types, Orderly
<1>6. NoMissedWakeup'
  <2>1. \A u \in Thread \ {t} : Unserved(u) /\ th'[u].at = "asleep" => Unserved(u)'
    <3> SUFFICES ASSUME NEW u \in Thread \ {t}, Unserved(u), th'[u].at = "asleep"
                 PROVE  Unserved(u)'
      OBVIOUS
    <3>1. th'[u] = th[u]
      BY <1>2 DEF IInv, Types, Requests, WokenUpTo, Others
    <3> QED BY <3>1, <1>1 DEF Unserved, Full
  <2> QED BY <2>1, <1>1, <1>2, <1>3, <1>4, SleepersKept
<1> QED BY <1>1, <1>2, <1>3, <1>4, <1>5, <1>6, QuietStep

\* A step that moves one thread leaves the others where they are.
LEMMA OneMovesOthers == ASSUME NEW t \in Thread, NEW r, Moves(t, r) PROVE Others(t)
BY DEF Moves, Others


\* What a step of t has to show when it moves only t, and neither destroys nor
\* reclaims nor creates the queue.
OtherQueues == [msgs : Seq((0..MaxCreates) \X Kind), n_threads : Int,
                deleted : BOOLEAN, id : 0..MaxCreates]
GoodStep(t, r) ==
  /\ Moves(t, r) /\ free' = free
  /\ q' \in OtherQueues /\ q'.deleted = q.deleted /\ q'.id = q.id
  /\ MaxSize # 0 => Len(q'.msgs) <= MaxSize
  /\ mq_mutex' \in Thread \cup {NoThread} /\ mutex_owner' \in Thread \cup {NoThread}
  /\ UNCHANGED <<q, mq_mutex, mutex_owner>> \/ mq_mutex \in {NoThread, t}
  /\ ~Announcing(t) /\ ~Reclaims(t) /\ ~Reclaims(t)'

GoodReason(t) ==
  /\ Fits(t)'
  /\ th'[t].at = "asleep" => Unserved(t)'
  /\ \A u \in Thread \ {t} : Unserved(u) /\ th[u].at = "asleep" /\ th'[u] = th[u] =>
        Announced(u)' \/ Unserved(u)'
  /\ DeliveredToAddressee'

GoodCount(t) ==
  /\ (Waiting(t) <=> Waiting(t)') => q'.n_threads = q.n_threads
  /\ ~Waiting(t) /\ Waiting(t)' => q'.n_threads = q.n_threads + 1 /\ ~q.deleted
  /\ Waiting(t) /\ ~Waiting(t)' => q'.n_threads = q.n_threads - 1 /\ (~q.deleted \/ sent > 0)

GoodInterrupt(t) ==
  /\ marked' \in SUBSET Thread /\ sent' \in Nat /\ sent' >= sent
  /\ sent' = 0 => /\ marked' = {} /\ th'[t].at # "signalled"
                  /\ th'[t].at \in {"scan", "peek"} => th'[t].cur # 0

\* Those four obligations suffice: the rest of the invariant is about other threads or
\* the slot, which such a step leaves alone.
LEMMA MoveStep ==
  ASSUME IInv, NEW t \in Thread, NEW r, GoodStep(t, r), GoodReason(t), GoodCount(t),
         GoodInterrupt(t)
  PROVE  IInv'
<1>1. Others(t) /\ th' \in [Thread -> Requests]
  BY DEF GoodStep, Moves, Others
<1>2. WaitersCounted' /\ q' \in Queues
  <2>1. q'.n_threads = Cardinality(Waiters')
    BY <1>1, CountWaiters DEF GoodCount, IInv, WaitersCounted, Types, Queues
  <2>2. q'.n_threads \in 0..Cardinality(Thread)
    BY <1>1, <2>1, CountWaiters DEF IInv
  <2> QED BY <2>1, <2>2 DEF WaitersCounted, GoodStep, Queues, OtherQueues
<1>3. free' \in BOOLEAN
  BY DEF GoodStep, IInv, Types
<1>4. Types'
  BY <1>1, <1>2, <1>3 DEF Types, GoodStep, GoodInterrupt
<1>5. \A u \in Thread : Fits(u)'
  BY <1>1, <1>4, OthersFit DEF GoodStep, GoodReason
<1>6. Orderly'
  BY DEF IInv, Types, Orderly, GoodInterrupt, GoodStep, Moves
<1>7. SlotReclaimed' /\ ReclaimedAtLast'
  <2>1. ~q.deleted \/ (Waiting(t) <=> Waiting(t)') \/ (~Waiting(t)' /\ sent > 0)
    BY DEF GoodCount
  <2> QED BY <1>1, <1>4, <2>1, SlotKept DEF GoodStep, GoodInterrupt
<1>8. NoMissedWakeup'
  <2>1. \A u \in Thread \ {t} : th'[u] = th[u]
    BY DEF GoodStep, Moves
  <2> QED BY <1>1, <1>4, <2>1, SleepersKept DEF GoodStep, GoodReason
<1> QED BY <1>2, <1>4, <1>5, <1>6, <1>7, <1>8 DEF IInv, GoodReason

\* A quiet step keeps the other threads' reasons to sleep.
LEMMA QuietReasons ==
  ASSUME IInv, NEW t \in Thread, NEW r, Moves(t, r), UNCHANGED q
  PROVE  /\ \A u \in Thread \ {t} : Unserved(u) => Unserved(u)'
         /\ DeliveredToAddressee'
         /\ q \in OtherQueues /\ q' \in OtherQueues /\ (MaxSize # 0 => Len(q'.msgs) <= MaxSize)
<1>1. q \in OtherQueues
  BY MessageQueueAssumption, FS_CardinalityType DEF IInv, Types, Queues, OtherQueues
<1>2. \A u \in Thread \ {t} : Unserved(u) => Unserved(u)'
  BY DEF Moves, Unserved, Full
<1> QED BY <1>1, <1>2 DEF IInv, Types, DeliveredToAddressee

\* The next message is looked at, or the search ends.
LEMMA RepeekStep ==
  ASSUME IInv, NEW t \in Thread, RepeekMessage(t)
  PROVE  IInv'
<1>1. /\ th[t].at = "peek" /\ UNCHANGED <<q, free, mq_mutex, mutex_owner, marked, sent>>
      /\ th[t] \in Requests /\ mq_mutex = t
      /\ th[t].cur # 0 => th[t].cur \in DOMAIN q.msgs /\ ~q.deleted
      /\ q.msgs \in Seq((0..MaxCreates) \X Kind)
  BY DEF RepeekMessage, IInv, Types, Queues, Fits, HoldsMutex, SeesQueue, Looks
<1>2. PICK r \in Requests :
        /\ Moves(t, r) /\ (r.at = "unlock" \/ (r.at = "peek" /\ r.cur # 0 /\ r.cur \in DOMAIN q.msgs /\ ~q.deleted))
  <2>1. CASE th' = At(t, "unlock")
    <3>1. Moves(t, [th[t] EXCEPT !.at = "unlock"])
      BY <2>1, OneMoves DEF IInv, Place
    <3> QED BY <1>1, <3>1 DEF Moves, Requests, Place
  <2>2. CASE th[t].cur # 0 /\ th[t].cur # Len(q.msgs) /\ th' = [th EXCEPT ![t].cur = @ + 1]
    <3>1. th[t].cur + 1 \in Nat \ {0} /\ th[t].cur + 1 \in DOMAIN q.msgs
      BY <1>1, <2>2 DEF Requests
    <3>2. Moves(t, [th[t] EXCEPT !.cur = th[t].cur + 1])
      BY <2>2, <3>1, OneMoves DEF IInv
    <3>3. /\ [th[t] EXCEPT !.cur = th[t].cur + 1] \in Requests
          /\ [th[t] EXCEPT !.cur = th[t].cur + 1].at = "peek"
          /\ [th[t] EXCEPT !.cur = th[t].cur + 1].cur = th[t].cur + 1
      BY <1>1, <3>1 DEF Requests
    <3> QED BY <1>1, <2>2, <3>1, <3>2, <3>3
  <2> QED BY <2>1, <2>2 DEF RepeekMessage
<1>3. th'[t] = r
  BY <1>2 DEF Moves
<1>4. GoodStep(t, r)
  BY <1>1, <1>2, <1>3, QuietReasons DEF GoodStep, Announcing, Reclaims, IInv, Types
<1>5. GoodReason(t)
  BY <1>1, <1>2, <1>3, QuietReasons
  DEF GoodReason, Fits, HoldsMutex, SeesQueue, WaitsHere, Looks, Waiting
<1>6. GoodCount(t)
  BY <1>1, <1>2, <1>3 DEF GoodCount, Waiting
<1>7. GoodInterrupt(t)
  BY <1>1, <1>2, <1>3 DEF GoodInterrupt, IInv, Types, Orderly
<1> QED BY <1>4, <1>5, <1>6, <1>7, MoveStep

\* A thread goes to sleep with the reason it had when it entered the wait.
LEMMA SleepStep ==
  ASSUME IInv, NEW t \in Thread, Sleep(t)
  PROVE  IInv'
<1> DEFINE r == [th[t] EXCEPT !.at = "asleep"]
<1>1. /\ th[t].at = "wait" /\ UNCHANGED <<q, free, mutex_owner, marked, sent>>
      /\ mq_mutex = t /\ mq_mutex' = NoThread /\ th[t] \in Requests
  BY DEF Sleep, IInv, Types, Fits, HoldsMutex
<1>2. Moves(t, r)
  BY OneMoves DEF Sleep, IInv, Place
<1>3. th'[t].at = "asleep" /\ th'[t].id = th[t].id /\ th'[t].op = th[t].op
      /\ th'[t].kind = th[t].kind
  BY <1>1, <1>2 DEF Moves, Requests
<1>4. GoodStep(t, r)
  BY <1>1, <1>2, <1>3, QuietReasons DEF GoodStep, Announcing, Reclaims, IInv, Types
<1>5. GoodReason(t)
  <2>1. Unserved(t) /\ th[t].id = q.id
    BY <1>1 DEF IInv, Fits, WaitsHere, Waiting
  <2>2. Unserved(t)'
    BY <2>1, <1>1, <1>3 DEF Unserved, Full
  <2> QED BY <1>1, <1>2, <1>3, <2>1, <2>2, QuietReasons
      DEF GoodReason, Fits, HoldsMutex, SeesQueue, WaitsHere, Looks
<1>6. GoodCount(t)
  BY <1>1, <1>3 DEF GoodCount, Waiting
<1>7. GoodInterrupt(t)
  BY <1>1, <1>3 DEF GoodInterrupt, IInv, Types, Orderly
<1> QED BY <1>4, <1>5, <1>6, <1>7, MoveStep

\* mq_mutex is given up by the thread that holds it.
LEMMA UnlockStep ==
  ASSUME IInv, NEW t \in Thread, UnlockQueue(t)
  PROVE  IInv'
<1>1. /\ th[t].at = "unlock" /\ UNCHANGED <<q, free, mutex_owner, marked, sent>>
      /\ mq_mutex = t /\ mq_mutex' = NoThread
  BY DEF UnlockQueue, IInv, Fits, HoldsMutex
<1>2. Moves(t, Idle) /\ Idle.at = "idle"
  BY OneMoves DEF UnlockQueue, IInv, Idle
<1>3. th'[t].at = "idle"
  BY <1>2 DEF Moves
<1>4. GoodStep(t, Idle)
  BY <1>1, <1>2, <1>3, QuietReasons DEF GoodStep, Announcing, Reclaims, IInv, Types
<1>5. GoodReason(t)
  BY <1>1, <1>2, <1>3, QuietReasons
  DEF GoodReason, Fits, HoldsMutex, SeesQueue, WaitsHere, Looks, Waiting
<1>6. GoodCount(t)
  BY <1>1, <1>3 DEF GoodCount, Waiting
<1>7. GoodInterrupt(t)
  BY <1>1, <1>3 DEF GoodInterrupt, IInv, Types, Orderly
<1> QED BY <1>4, <1>5, <1>6, <1>7, MoveStep

\* An interrupt is only handled when one was sent.
LEMMA HandleInterruptStep ==
  ASSUME IInv, NEW t \in Thread, HandleInterrupt(t)
  PROVE  IInv'
<1>1. /\ th[t].at \in {"idle", "scan", "peek", "unlock", "signalled"} /\ sent > 0
      /\ UNCHANGED <<q, free, mq_mutex, mutex_owner, sent>> /\ marked' \in SUBSET Thread
      /\ th[t] \in Requests /\ Fits(t)
  BY DEF HandleInterrupt, IInv, Types, Orderly
<1>2. PICK r \in Requests :
        /\ Moves(t, r)
        /\ \/ r = th[t] /\ th[t].at # "signalled"
           \/ r.at \in {"dead", "idle"}
           \/ r.at \in {"scan", "peek"} /\ r.cur = 0 /\ (r.at = "peek" => th[t].at = "peek")
  <2>1. CASE th' = At(t, "dead")
    <3>1. Moves(t, [th[t] EXCEPT !.at = "dead"]) /\ [th[t] EXCEPT !.at = "dead"].at = "dead"
      BY <1>1, <2>1, OneMoves DEF IInv, Place, Requests
    <3> QED BY <3>1 DEF Moves
  <2>2. CASE th' = th /\ th[t].at # "signalled"
    BY <1>1, <2>2 DEF Moves, IInv, Types
  <2>3. CASE th' = Finished(t)
    <3>1. Moves(t, Idle) /\ Idle.at = "idle"
      BY <2>3, OneMoves DEF IInv, Idle
    <3> QED BY <3>1, IdleType
  <2>4. CASE th' = [th EXCEPT ![t].at = "scan", ![t].cur = 0]
    <3> DEFINE r == [th[t] EXCEPT !.at = "scan", !.cur = 0]
    <3>1. Moves(t, r) /\ r.at = "scan" /\ r.cur = 0
      BY <1>1, <2>4, OneMoves DEF IInv, Place, Requests
    <3>2. r \in Requests
      BY <1>1 DEF Requests, Place
    <3> QED BY <3>1, <3>2
  <2>5. CASE th[t].at \in {"scan", "peek"} /\ th' = [th EXCEPT ![t].cur = 0]
    <3> DEFINE r == [th[t] EXCEPT !.cur = 0]
    <3>1. Moves(t, r) /\ r.at = th[t].at /\ r.cur = 0
      BY <1>1, <2>5, OneMoves DEF IInv, Place, Requests
    <3>2. r \in Requests
      BY <1>1 DEF Requests, Place
    <3> QED BY <2>5, <3>1, <3>2
  <2>6. CASE th[t].at \in {"scan", "peek"} /\ th' = [th EXCEPT ![t].cur = th[t].cur]
    <3>1. th' = th
      BY <2>6 DEF IInv, Types, Requests
    <3> QED BY <2>2, <2>6, <3>1
  <2> QED BY <2>1, <2>2, <2>3, <2>4, <2>5, <2>6 DEF HandleInterrupt, AfterGoals
<1>3. th'[t] = r
  BY <1>2 DEF Moves
<1>4. GoodStep(t, r)
  BY <1>1, <1>2, <1>3, QuietReasons DEF GoodStep, Announcing, Reclaims, IInv, Types
<1>5. GoodReason(t)
  <2>1. Fits(t)'
    <3>1. CASE r = th[t]
      BY <1>1, <1>3, <3>1
      DEF Fits, HoldsMutex, SeesQueue, WaitsHere, Looks, Waiting, Unserved, Full
    <3>2. CASE r # th[t]
      BY <1>1, <1>2, <1>3, <3>2 DEF Fits, HoldsMutex, SeesQueue, WaitsHere, Looks, Waiting
    <3> QED BY <3>1, <3>2
  <2> QED BY <1>1, <1>2, <1>3, <2>1, QuietReasons DEF GoodReason
<1>6. GoodCount(t)
  BY <1>1, <1>2, <1>3 DEF GoodCount, Waiting
<1>7. GoodInterrupt(t)
  BY <1>1, <1>2, <1>3 DEF GoodInterrupt, IInv, Types
<1> QED BY <1>4, <1>5, <1>6, <1>7, MoveStep

\* A new request is queued for mq_mutex and changes nothing else.
LEMMA RequestStep ==
  ASSUME IInv, NEW t \in Thread, NEW op \in {"send", "get", "peek", "destroy"},
         NEW id \in 0..q.id, NEW k \in Kind, Request(t, op, id, k)
  PROVE  IInv'
<1> DEFINE r == [at |-> "lock", op |-> op, id |-> id, kind |-> k, cur |-> 0]
<1>1. /\ th[t] = Idle /\ Idle.at = "idle"
      /\ UNCHANGED <<q, free, mq_mutex, mutex_owner, marked, sent>>
  BY DEF Request, Idle
<1>2. r \in Requests
  BY MessageQueueAssumption DEF IInv, Types, Queues, Requests, Place
<1>3. Moves(t, r) /\ th'[t].at = "lock"
  BY <1>2, OneMoves DEF Request, IInv, Moves
<1>4. GoodStep(t, r)
  BY <1>1, <1>3, QuietReasons DEF GoodStep, Announcing, Reclaims, IInv, Types
<1>5. GoodReason(t)
  BY <1>1, <1>3, QuietReasons
  DEF GoodReason, Fits, HoldsMutex, SeesQueue, WaitsHere, Looks, Waiting
<1>6. GoodCount(t)
  BY <1>1, <1>3 DEF GoodCount, Waiting
<1>7. GoodInterrupt(t)
  BY <1>1, <1>3 DEF GoodInterrupt, IInv, Types, Orderly
<1> QED BY <1>4, <1>5, <1>6, <1>7, MoveStep

\* The queue as wait_on_queue leaves it for the loop that called it: a thread that
\* was woken has been taken off the count.
Left(t, qq) ==
  /\ qq \in OtherQueues /\ qq.msgs = q.msgs /\ qq.deleted = q.deleted /\ qq.id = q.id
  /\ qq.n_threads = IF Waiting(t) THEN q.n_threads - 1 ELSE q.n_threads
Unchanged == UNCHANGED <<free, marked, sent>>

\* A thread that the queue cannot serve is counted as a waiter.
LEMMA EnterWaitStep ==
  ASSUME IInv, NEW t \in Thread, NEW qq, Left(t, qq), EnterWait(t, qq), Unchanged,
         Unserved(t), th[t].id = q.id, mq_mutex \in {NoThread, t},
         th[t].at \in {"lock", "woken", "scan"}
  PROVE  IInv'
<1> DEFINE r == [th[t] EXCEPT !.at = "wait"]
<1>1. /\ mq_mutex' = t /\ mutex_owner' = NoThread /\ UNCHANGED <<free, marked, sent>>
      /\ q' = [qq EXCEPT !.n_threads = @ + 1] /\ th[t] \in Requests /\ q \in Queues
  BY DEF EnterWait, Unchanged, IInv, Types
<1>2. Moves(t, r)
  BY OneMoves DEF EnterWait, IInv, Place
<1>3. /\ th'[t].at = "wait" /\ th'[t].id = th[t].id /\ th'[t].op = th[t].op
      /\ th'[t].kind = th[t].kind
  BY <1>1, <1>2 DEF Moves, Requests
<1>4. /\ q'.msgs = q.msgs /\ q'.deleted = q.deleted /\ q'.id = q.id /\ q' \in OtherQueues
      /\ q'.n_threads = qq.n_threads + 1
  BY <1>1 DEF Left, OtherQueues
<1>5. GoodStep(t, r)
  BY <1>1, <1>2, <1>3, <1>4 DEF GoodStep, Announcing, Reclaims, IInv, Types
<1>6. GoodReason(t)
  <2>1. Unserved(t)' /\ \A u \in Thread \ {t} : Unserved(u) => Unserved(u)'
    BY <1>2, <1>3, <1>4 DEF Unserved, Full, Moves
  <2>2. Fits(t)'
    BY <1>1, <1>3, <1>4, <2>1 DEF Fits, HoldsMutex, SeesQueue, WaitsHere, Looks
  <2> QED BY <1>3, <1>4, <2>1, <2>2 DEF GoodReason, IInv, DeliveredToAddressee
<1>7. GoodCount(t)
  BY <1>1, <1>3, <1>4 DEF GoodCount, Waiting, Left, Unserved, Queues
<1>8. GoodInterrupt(t)
  BY <1>1, <1>3 DEF GoodInterrupt, IInv, Types, Orderly
<1> QED BY <1>5, <1>6, <1>7, <1>8, MoveStep

\* A message is added to a queue that is not full; the broadcast is due.
LEMMA SendLoopStep ==
  ASSUME IInv, NEW t \in Thread, NEW qq, Left(t, qq), SendLoop(t, qq), Unchanged,
         ~q.deleted, th[t].id = q.id, mq_mutex = NoThread,
         th[t].at \in {"lock", "woken"}, th[t].op = "send"
  PROVE  IInv'
<1>1. CASE Full(qq.msgs)
  <2>1. Unserved(t)
    BY <1>1 DEF Unserved, Left
  <2> QED BY <1>1, <2>1, EnterWaitStep DEF SendLoop
<1>2. CASE ~Full(qq.msgs)
  <2> DEFINE r == [th[t] EXCEPT !.at = "sent"]
             m == <<th[t].id, th[t].kind>>
  <2>1. /\ mq_mutex' = NoThread /\ mutex_owner' = NoThread /\ UNCHANGED <<free, marked, sent>>
        /\ q' = [qq EXCEPT !.msgs = Append(@, m)]
        /\ th[t] \in Requests /\ q \in Queues
    BY <1>2 DEF SendLoop, Unchanged, IInv, Types
  <2>2. Moves(t, r)
    BY <1>2, OneMoves DEF SendLoop, IInv, Place
  <2>3. th'[t].at = "sent"
    BY <2>1, <2>2 DEF Moves, Requests
  <2>4. m \in (0..MaxCreates) \X Kind /\ m[1] = q.id
    BY <2>1 DEF Requests
  <2>5. /\ q'.msgs = Append(q.msgs, m) /\ q'.deleted = q.deleted /\ q'.id = q.id
        /\ q' \in OtherQueues /\ q'.n_threads = qq.n_threads
    <3> DEFINE msgs == Append(qq.msgs, m)
    <3>1. msgs = Append(q.msgs, m) /\ msgs \in Seq((0..MaxCreates) \X Kind)
      BY <2>1, <2>4 DEF Left, Queues
    <3>2. q' = [qq EXCEPT !.msgs = msgs]
      BY <2>1
    <3> HIDE DEF msgs
    <3> QED BY <3>1, <3>2 DEF Left, OtherQueues
  <2>6. /\ q.msgs \in Seq((0..MaxCreates) \X Kind) /\ Len(q'.msgs) = Len(q.msgs) + 1
        /\ \A i \in DOMAIN q'.msgs : q'.msgs[i] = IF i = Len(q.msgs) + 1 THEN m ELSE q.msgs[i]
        /\ \A i \in DOMAIN q'.msgs : i # Len(q.msgs) + 1 => i \in DOMAIN q.msgs
    <3>1. q.msgs \in Seq((0..MaxCreates) \X Kind)
      BY <2>1 DEF Queues
    <3> QED BY <3>1, <2>4, <2>5
  <2>7. MaxSize # 0 => Len(q.msgs) < MaxSize
    BY <1>2, <2>6, MessageQueueAssumption DEF Left, Full
  <2>8. GoodStep(t, r)
    <3>1. MaxSize # 0 => Len(q'.msgs) <= MaxSize
      BY <2>6, <2>7, MessageQueueAssumption
    <3> QED BY <2>1, <2>2, <2>3, <2>5, <3>1 DEF GoodStep, Announcing, Reclaims
  <2>9. GoodReason(t)
    <3>1. Fits(t)'
      BY <2>3 DEF Fits, HoldsMutex, SeesQueue, WaitsHere, Looks, Waiting
    <3>2. \A u \in Thread \ {t} : Unserved(u) /\ th'[u] = th[u] => Announced(u)' \/ Unserved(u)'
      <4> SUFFICES ASSUME NEW u \in Thread \ {t}, Unserved(u), th'[u] = th[u]
                   PROVE  Announced(u)' \/ Unserved(u)'
        OBVIOUS
      <4>1. th[u].op # "send"
        BY <1>2 DEF Unserved, Left
      <4> QED BY <4>1, <2>3 DEF Announced
    <3>3. DeliveredToAddressee'
      BY <2>4, <2>5, <2>6 DEF DeliveredToAddressee, IInv
    <3> QED BY <2>3, <3>1, <3>2, <3>3 DEF GoodReason
  <2>10. GoodCount(t)
    BY <2>3, <2>5 DEF GoodCount, Waiting, Left
  <2>11. GoodInterrupt(t)
    BY <2>1, <2>3 DEF GoodInterrupt, IInv, Types, Orderly
  <2> QED BY <2>8, <2>9, <2>10, <2>11, MoveStep
<1> QED BY <1>1, <1>2

\* A thread starts to look through the queue, or waits because it is empty.
LEMMA TryLoopStep ==
  ASSUME IInv, NEW t \in Thread, NEW qq, Left(t, qq), TryLoop(t, qq), Unchanged,
         ~q.deleted, th[t].id = q.id, mq_mutex = NoThread,
         th[t].at \in {"lock", "woken"}, th[t].op # "send"
  PROVE  IInv'
<1>1. CASE qq.msgs = <<>>
  <2>1. Unserved(t)
    BY <1>1 DEF Unserved, Left
  <2> QED BY <1>1, <2>1, EnterWaitStep DEF TryLoop
<1>2. CASE qq.msgs # <<>>
  <2> DEFINE r == [th[t] EXCEPT !.at = "scan", !.cur = 1]
  <2>1. /\ mq_mutex' = t /\ mutex_owner' = t /\ UNCHANGED <<free, marked, sent>>
        /\ q' = qq /\ th[t] \in Requests /\ q \in Queues
    BY <1>2 DEF TryLoop, Unchanged, IInv, Types
  <2>2. Moves(t, r)
    BY <1>2, OneMoves DEF TryLoop, IInv, Place
  <2>3. th'[t].at = "scan" /\ th'[t].cur = 1 /\ th'[t].id = q.id /\ th'[t].op = th[t].op
    BY <2>1, <2>2 DEF Moves, Requests
  <2>4. 1 \in DOMAIN q.msgs
    BY <1>2, <2>1 DEF Queues, Left
  <2>5. GoodStep(t, r)
    BY <2>1, <2>2, <2>3 DEF GoodStep, Announcing, Reclaims, Left, IInv, Types
  <2>6. GoodReason(t)
    <3>1. Fits(t)'
      BY <2>1, <2>3, <2>4 DEF Fits, HoldsMutex, SeesQueue, WaitsHere, Looks, Waiting, Left
    <3>2. \A u \in Thread \ {t} : Unserved(u) /\ th'[u] = th[u] => Unserved(u)'
      BY <2>1 DEF Unserved, Full, Left
    <3>3. DeliveredToAddressee'
      BY <2>1 DEF DeliveredToAddressee, IInv, Left
    <3> QED BY <2>3, <3>1, <3>2, <3>3 DEF GoodReason
  <2>7. GoodCount(t)
    BY <2>1, <2>3 DEF GoodCount, Waiting, Left
  <2>8. GoodInterrupt(t)
    BY <2>1, <2>3 DEF GoodInterrupt, IInv, Types, Orderly
  <2> QED BY <2>5, <2>6, <2>7, <2>8, MoveStep
<1> QED BY <1>1, <1>2

\* The existence error leaves nothing behind but mutex_owner.
LEMMA NoQueueStep ==
  ASSUME IInv, NEW t \in Thread, NEW o \in Thread \cup {NoThread}, NoQueue(t, o), Unchanged,
         mq_mutex = NoThread, th[t].at = "lock"
  PROVE  IInv'
<1>1. UNCHANGED <<q, mq_mutex, free, marked, sent>> /\ mutex_owner' = o
  BY DEF NoQueue, Unchanged
<1>2. Moves(t, Idle) /\ th'[t].at = "idle"
  <2>1. Moves(t, Idle)
    BY OneMoves DEF NoQueue, IInv
  <2> QED BY <2>1 DEF Idle, Moves
<1>3. GoodStep(t, Idle)
  BY <1>1, <1>2, QuietReasons DEF GoodStep, Announcing, Reclaims, IInv, Types
<1>4. GoodReason(t)
  BY <1>1, <1>2, QuietReasons
  DEF GoodReason, Fits, HoldsMutex, SeesQueue, WaitsHere, Looks, Waiting
<1>5. GoodCount(t)
  BY <1>1, <1>2 DEF GoodCount, Waiting
<1>6. GoodInterrupt(t)
  BY <1>1, <1>2 DEF GoodInterrupt, IInv, Types, Orderly
<1> QED BY <1>3, <1>4, <1>5, <1>6, MoveStep

\* A thread that has just locked the queue was not counted.
LEMMA LeftAtLock ==
  ASSUME IInv, NEW t \in Thread, th[t].at = "lock"
  PROVE  Left(t, q)
BY MessageQueueAssumption, FS_CardinalityType
DEF Left, IInv, Types, Queues, OtherQueues, Waiting

\* A send finds its queue gone, or adds its message, or waits.
LEMMA SendStep ==
  ASSUME IInv, NEW t \in Thread, Send(t)
  PROVE  IInv'
<1>1. CASE check_deleted(th[t].id)
  BY <1>1, NoQueueStep DEF Send, Unchanged
<1>2. CASE ~check_deleted(th[t].id)
  BY <1>2, LeftAtLock, SendLoopStep DEF Send, Unchanged, check_deleted
<1> QED BY <1>1, <1>2

\* A get finds its queue gone, or looks through it, or waits.
LEMMA TryMessageStep ==
  ASSUME IInv, NEW t \in Thread, TryMessage(t)
  PROVE  IInv'
<1>1. CASE check_deleted(th[t].id)
  BY <1>1, NoQueueStep DEF TryMessage, Unchanged
<1>2. CASE ~check_deleted(th[t].id)
  BY <1>2, LeftAtLock, TryLoopStep DEF TryMessage, Unchanged, check_deleted
<1> QED BY <1>1, <1>2

\* A peek finds its queue gone, or looks through it without waiting.
LEMMA PeekStep ==
  ASSUME IInv, NEW t \in Thread, PeekMessage(t)
  PROVE  IInv'
<1>1. CASE check_deleted(th[t].id)
  BY <1>1, NoQueueStep DEF PeekMessage, Unchanged, IInv, Types
<1>2. CASE ~check_deleted(th[t].id)
  <2>1. /\ th[t].at = "lock" /\ ~q.deleted /\ mq_mutex = NoThread /\ mq_mutex' = t
        /\ UNCHANGED <<q, mutex_owner, free, marked, sent>>
        /\ th[t] \in Requests /\ q \in Queues
    BY <1>2 DEF PeekMessage, check_deleted, IInv, Types
  <2>2. PICK r \in Requests :
          /\ Moves(t, r)
          /\ \/ r.at = "unlock"
             \/ r.at = "peek" /\ r.cur = 1 /\ q.msgs # <<>>
    <3>1. CASE th' = At(t, "unlock")
      <4>1. Moves(t, [th[t] EXCEPT !.at = "unlock"])
        BY <3>1, OneMoves DEF IInv, Place
      <4> QED BY <2>1, <4>1 DEF Moves, Requests, Place
    <3>2. CASE q.msgs # <<>> /\ th' = [th EXCEPT ![t].at = "peek", ![t].cur = 1]
      <4>1. Moves(t, [th[t] EXCEPT !.at = "peek", !.cur = 1])
        BY <3>2, OneMoves DEF IInv, Place
      <4>2. /\ [th[t] EXCEPT !.at = "peek", !.cur = 1] \in Requests
            /\ [th[t] EXCEPT !.at = "peek", !.cur = 1].at = "peek"
            /\ [th[t] EXCEPT !.at = "peek", !.cur = 1].cur = 1
        BY <2>1 DEF Requests, Place
      <4> QED BY <3>2, <4>1, <4>2
    <3> QED BY <1>2, <3>1, <3>2 DEF PeekMessage
  <2>3. th'[t] = r
    BY <2>2 DEF Moves
  <2>4. r.at = "peek" => r.cur \in DOMAIN q.msgs /\ r.cur # 0
    BY <2>1, <2>2 DEF Queues
  <2>5. GoodStep(t, r)
    BY <2>1, <2>2, <2>3, QuietReasons DEF GoodStep, Announcing, Reclaims, IInv, Types
  <2>6. GoodReason(t)
    BY <2>1, <2>2, <2>3, <2>4, QuietReasons
    DEF GoodReason, Fits, HoldsMutex, SeesQueue, WaitsHere, Looks, Waiting
  <2>7. GoodCount(t)
    BY <2>1, <2>2, <2>3 DEF GoodCount, Waiting
  <2>8. GoodInterrupt(t)
    BY <2>1, <2>2, <2>3 DEF GoodInterrupt, IInv, Types, Orderly
  <2> QED BY <2>5, <2>6, <2>7, <2>8, MoveStep
<1> QED BY <1>1, <1>2

\* The next message is looked at, or the thread waits: none matched.
LEMMA RetryStep ==
  ASSUME IInv, NEW t \in Thread, RetryMessage(t)
  PROVE  IInv'
<1>1. /\ th[t].at = "scan" /\ Looks(t) /\ UNCHANGED <<free, marked, sent>>
      /\ mq_mutex = t /\ mutex_owner = t /\ ~q.deleted /\ th[t].cur \in DOMAIN q.msgs
      /\ th[t].id = q.id /\ th[t].op # "send"
      /\ th[t] \in Requests /\ q \in Queues
      /\ q.msgs \in Seq((0..MaxCreates) \X Kind)
  BY DEF RetryMessage, IInv, Types, Queues, Fits, HoldsMutex, SeesQueue, Looks
<1>2. \A i \in 1 .. th[t].cur : q.msgs[i][2] # th[t].kind
  <2>1. \A i \in 1 .. th[t].cur - 1 : q.msgs[i][2] # th[t].kind
    BY <1>1 DEF IInv, Fits, SeesQueue
  <2>2. q.msgs[th[t].cur][2] # th[t].kind /\ th[t].cur \in Nat
    BY <1>1 DEF RetryMessage, Matches, Requests
  <2> QED BY <2>1, <2>2
<1>3. CASE th[t].cur = Len(q.msgs) /\ EnterWait(t, q)
  <2>1. Unserved(t)
    <3>1. \A i \in DOMAIN q.msgs : q.msgs[i][2] # th[t].kind
      <4>1. DOMAIN q.msgs = 1 .. th[t].cur
        BY <1>1, <1>3
      <4> QED BY <1>2, <4>1
    <3>2. ~q.deleted /\ th[t].op # "send"
      BY <1>1
    <3> QED BY <3>1, <3>2 DEF Unserved
  <2>2. Left(t, q)
    BY <1>1, MessageQueueAssumption, FS_CardinalityType
    DEF Left, Queues, OtherQueues, Waiting
  <2> QED BY <1>1, <1>3, <2>1, <2>2, EnterWaitStep DEF Unchanged
<1>4. CASE /\ th[t].cur # Len(q.msgs) /\ th' = [th EXCEPT ![t].cur = @ + 1]
           /\ UNCHANGED <<q, mq_mutex, mutex_owner>>
  <2> DEFINE r == [th[t] EXCEPT !.cur = th[t].cur + 1]
  <2>1. th[t].cur + 1 \in Nat /\ th[t].cur + 1 \in DOMAIN q.msgs
    BY <1>1, <1>4 DEF Requests
  <2>2. Moves(t, r)
    BY <1>4, <2>1, OneMoves DEF IInv
  <2>3. /\ th'[t].at = "scan" /\ th'[t].cur = th[t].cur + 1 /\ th'[t].id = th[t].id
        /\ th'[t].op = th[t].op /\ th'[t].kind = th[t].kind
    BY <1>1, <2>2 DEF Moves, Requests
  <2>4. GoodStep(t, r)
    BY <1>1, <1>4, <2>2, <2>3, QuietReasons DEF GoodStep, Announcing, Reclaims, IInv, Types
  <2>5. GoodReason(t)
    <3>1. \A i \in 1 .. th'[t].cur - 1 : q.msgs[i][2] # th[t].kind
      BY <1>1, <1>2, <2>3 DEF Requests
    <3>2. Fits(t)'
      BY <1>1, <1>4, <2>1, <2>3, <3>1 DEF Fits, HoldsMutex, SeesQueue, WaitsHere, Looks, Waiting
    <3> QED BY <1>4, <2>2, <2>3, <3>2, QuietReasons DEF GoodReason
  <2>6. GoodCount(t)
    BY <1>1, <1>4, <2>3 DEF GoodCount, Waiting
  <2>7. GoodInterrupt(t)
    <3>1. th'[t].cur # 0
      BY <1>1, <2>3 DEF Requests
    <3> QED BY <1>1, <2>3, <3>1 DEF GoodInterrupt, IInv, Types, Orderly
  <2> QED BY <2>4, <2>5, <2>6, <2>7, MoveStep
<1> QED BY <1>3, <1>4 DEF RetryMessage

\* What is left of a queue when message i is taken out.
Rest(s, i) == SubSeq(s, 1, i - 1) \o SubSeq(s, i + 1, Len(s))

\* Taking message i out shortens the queue by one and adds nothing to it.
LEMMA RestLemma ==
  ASSUME NEW S, NEW s \in Seq(S), NEW i \in DOMAIN s
  PROVE  /\ Rest(s, i) \in Seq(S) /\ Len(Rest(s, i)) + 1 = Len(s)
         /\ \A j \in DOMAIN Rest(s, i) : \E k \in DOMAIN s : Rest(s, i)[j] = s[k]
<1> DEFINE a == SubSeq(s, 1, i - 1)
           b == SubSeq(s, i + 1, Len(s))
           rest == a \o b
<1>1. i \in Nat /\ Len(s) \in Nat /\ 1 <= i /\ i <= Len(s) /\ \A j \in 1 .. Len(s) : s[j] \in S
  OBVIOUS
<1>2. /\ a \in Seq(S) /\ Len(a) = i - 1
      /\ \A j \in 1 .. i - 1 : a[j] = s[j]
  <2>1. /\ a \in Seq(S) /\ Len(a) = IF 1 <= i - 1 THEN i - 1 - 1 + 1 ELSE 0
        /\ \A j \in 1 .. i - 1 - 1 + 1 : a[j] = s[1 + j - 1]
    BY <1>1, SubSeqProperties
  <2> HIDE DEF a
  <2> QED BY <1>1, <2>1
<1>3. /\ b \in Seq(S) /\ Len(b) = Len(s) - i
      /\ \A j \in 1 .. Len(s) - i : b[j] = s[i + j]
  <2>1. /\ b \in Seq(S)
        /\ Len(b) = IF i + 1 <= Len(s) THEN Len(s) - (i + 1) + 1 ELSE 0
        /\ \A j \in 1 .. Len(s) - (i + 1) + 1 : b[j] = s[(i + 1) + j - 1]
    BY <1>1, SubSeqProperties
  <2> HIDE DEF b
  <2>2. Len(b) = Len(s) - i
    BY <1>1, <2>1
  <2>3. ASSUME NEW j \in 1 .. Len(s) - i PROVE b[j] = s[i + j]
    <3>1. j \in 1 .. Len(s) - (i + 1) + 1 /\ (i + 1) + j - 1 = i + j
      BY <1>1
    <3> QED BY <2>1, <3>1
  <2> QED BY <2>1, <2>2, <2>3
<1> HIDE DEF a, b
<1>5. /\ rest \in Seq(S) /\ Len(rest) = Len(a) + Len(b)
      /\ \A j \in 1 .. Len(a) + Len(b) : rest[j] = IF j <= Len(a) THEN a[j] ELSE b[j - Len(a)]
  BY <1>2, <1>3, ConcatProperties
<1> HIDE DEF rest
<1>6. ASSUME NEW j \in DOMAIN rest PROVE \E k \in DOMAIN s : rest[j] = s[k]
  <2>1. j \in 1 .. Len(s) - 1
    BY <1>1, <1>2, <1>3, <1>5
  <2>2. CASE j <= i - 1
    <3>1. rest[j] = s[j] /\ j \in DOMAIN s
      BY <1>1, <1>2, <1>3, <1>5, <2>1, <2>2
    <3> QED BY <3>1
  <2>3. CASE j > i - 1
    <3>1. j - (i - 1) \in 1 .. Len(s) - i /\ j + 1 \in DOMAIN s /\ i + (j - (i - 1)) = j + 1
      BY <1>1, <2>1, <2>3
    <3>2. rest[j] = b[j - (i - 1)]
      BY <1>1, <1>2, <1>3, <1>5, <2>1, <2>3
    <3>3. rest[j] = s[j + 1]
      BY <1>3, <3>1, <3>2
    <3> QED BY <3>1, <3>3
  <2> QED BY <1>1, <2>1, <2>2, <2>3
<1>7. rest \in Seq(S)
  BY <1>5
<1>8. Len(rest) + 1 = Len(s)
  <2>1. Len(rest) = Len(a) + Len(b) /\ Len(a) = i - 1 /\ Len(b) = Len(s) - i
    BY <1>2, <1>3, <1>5
  <2>2. Len(rest) = (i - 1) + (Len(s) - i)
    BY <2>1
  <2>3. (i - 1) + (Len(s) - i) + 1 = Len(s)
    BY <1>1
  <2> QED BY <2>2, <2>3
<1> QED BY <1>6, <1>7, <1>8 DEF rest, a, b, Rest

\* A message is taken; if the queue was full, the broadcast to the senders is due.
LEMMA AcceptStep ==
  ASSUME IInv, NEW t \in Thread, AcceptMessage(t)
  PROVE  IInv'
<1> DEFINE rest == Rest(q.msgs, th[t].cur)
<1>1. /\ th[t].at = "scan" /\ Looks(t) /\ UNCHANGED <<free, marked, sent>>
      /\ mq_mutex = t /\ mq_mutex' = NoThread /\ mutex_owner' = NoThread
      /\ ~q.deleted /\ th[t].cur \in DOMAIN q.msgs
      /\ th[t] \in Requests /\ q \in Queues /\ (MaxSize # 0 => Len(q.msgs) <= MaxSize)
      /\ q.msgs \in Seq((0..MaxCreates) \X Kind)
  BY DEF AcceptMessage, IInv, Types, Queues, Fits, HoldsMutex, SeesQueue, Looks
<1>2. /\ q' = [q EXCEPT !.msgs = rest]
      /\ th' = IF WasFull(Len(rest)) THEN At(t, "accepted") ELSE Finished(t)
  BY DEF AcceptMessage, Rest
<1>3. /\ rest \in Seq((0..MaxCreates) \X Kind) /\ Len(rest) + 1 = Len(q.msgs)
      /\ \A j \in DOMAIN rest : \E k \in DOMAIN q.msgs : rest[j] = q.msgs[k]
  BY <1>1, RestLemma
<1> HIDE DEF rest
<1>4. /\ q'.msgs = rest /\ q'.deleted = q.deleted /\ q'.id = q.id
      /\ q'.n_threads = q.n_threads /\ q' \in OtherQueues /\ (MaxSize # 0 => Len(q'.msgs) <= MaxSize)
  <2>1. q'.msgs = rest /\ q'.deleted = q.deleted /\ q'.id = q.id /\ q'.n_threads = q.n_threads
    BY <1>1, <1>2 DEF Queues
  <2>2. q.n_threads \in Int
    BY <1>1, MessageQueueAssumption, FS_CardinalityType DEF Queues
  <2>3. q' \in OtherQueues
    BY <1>1, <1>2, <1>3, <2>2 DEF Queues, OtherQueues
  <2>4. MaxSize # 0 => Len(rest) <= MaxSize
    BY <1>1, <1>3, MessageQueueAssumption
  <2> QED BY <2>1, <2>3, <2>4
<1>5. PICK r \in Requests :
        /\ Moves(t, r) /\ r.at \in {"accepted", "idle"}
        /\ WasFull(Len(rest)) => r.at = "accepted"
  <2>1. CASE th' = At(t, "accepted")
    <3>1. Moves(t, [th[t] EXCEPT !.at = "accepted"])
      BY <2>1, OneMoves DEF IInv, Place
    <3> QED BY <1>1, <3>1 DEF Moves, Requests, Place
  <2>2. CASE th' = Finished(t) /\ ~WasFull(Len(rest))
    <3>1. Moves(t, Idle) /\ Idle.at = "idle"
      BY <2>2, OneMoves DEF IInv, Idle
    <3> QED BY <2>2, <3>1, IdleType
  <2> QED BY <1>2, <2>1, <2>2
<1>6. th'[t] = r
  BY <1>5 DEF Moves
<1>7. GoodStep(t, r)
  BY <1>1, <1>4, <1>5, <1>6, MessageQueueAssumption
  DEF GoodStep, Announcing, Reclaims
<1>8. GoodReason(t)
  <2>1. Fits(t)'
    BY <1>5, <1>6 DEF Fits, HoldsMutex, SeesQueue, WaitsHere, Looks, Waiting
  <2>2. \A u \in Thread \ {t} : Unserved(u) /\ th'[u] = th[u] => Announced(u)' \/ Unserved(u)'
    <3> SUFFICES ASSUME NEW u \in Thread \ {t}, Unserved(u), th'[u] = th[u]
                 PROVE  Announced(u)' \/ Unserved(u)'
      OBVIOUS
    <3>1. CASE th[u].op = "send"
      <4>1. MaxSize # 0 /\ Len(q.msgs) >= MaxSize
        BY <3>1 DEF Unserved, Full
      <4>2. WasFull(Len(rest))
        BY <4>1, <1>1, <1>3, MessageQueueAssumption DEF WasFull
      <4> QED BY <4>2, <3>1, <1>5, <1>6 DEF Announced
    <3>2. CASE th[u].op = "get"
      BY <3>2, <1>3, <1>4 DEF Unserved
    <3>3. CASE th[u].op \notin {"send", "get"}
      BY <3>3, <1>4 DEF Unserved
    <3> QED BY <3>1, <3>2, <3>3
  <2>3. DeliveredToAddressee'
    BY <1>3, <1>4 DEF DeliveredToAddressee, IInv
  <2> QED BY <1>5, <1>6, <2>1, <2>2, <2>3 DEF GoodReason
<1>9. GoodCount(t)
  BY <1>1, <1>4, <1>5, <1>6 DEF GoodCount, Waiting
<1>10. GoodInterrupt(t)
  BY <1>1, <1>5, <1>6 DEF GoodInterrupt, IInv, Types, Orderly
<1> QED BY <1>7, <1>8, <1>9, <1>10, MoveStep

\* What a step of t has to show when it does destroy, reclaim or create the queue.
LEMMA SlotStep ==
  ASSUME IInv, NEW t \in Thread, NEW r, Moves(t, r),
         q' \in OtherQueues, MaxSize # 0 => Len(q'.msgs) <= MaxSize,
         q'.n_threads = Cardinality(Waiters'),
         mq_mutex' \in Thread \cup {NoThread}, mutex_owner' \in Thread \cup {NoThread},
         free' \in BOOLEAN, marked' = marked, sent' = sent,
         \/ mq_mutex \in {NoThread, t} /\ (q'.id = q.id \/ \A u \in Thread : ~Waiting(u))
         \/ UNCHANGED <<mq_mutex, mutex_owner>> /\ q.deleted /\ \A u \in Thread : ~Waiting(u),
         r.at \in {"idle", "dealloc", "destroyed", "init"}, ~Announcing(t),
         \A u \in Thread \ {t} : Unserved(u) /\ th[u].at = "asleep" /\ th'[u] = th[u] =>
            Announced(u)' \/ Unserved(u)',
         DeliveredToAddressee', SlotReclaimed', ReclaimedAtLast'
  PROVE  IInv'
<1>1. Others(t) /\ th' \in [Thread -> Requests] /\ th'[t] = r
  BY DEF Moves, Others
<1>2. q'.n_threads \in 0..Cardinality(Thread)
  BY <1>1, CountWaiters DEF IInv
<1>3. WaitersCounted' /\ q' \in Queues
  BY <1>2 DEF WaitersCounted, Queues, OtherQueues
<1>4. Types'
  BY <1>1, <1>3 DEF IInv, Types
<1>5. Fits(t)'
  BY <1>1 DEF Fits, HoldsMutex, SeesQueue, WaitsHere, Looks, Waiting
<1>6. \A u \in Thread : Fits(u)'
  BY <1>1, <1>4, <1>5, OthersFit
<1>7. Orderly'
  BY <1>1 DEF IInv, Orderly, Moves
<1>8. NoMissedWakeup'
  <2>1. \A u \in Thread \ {t} : th'[u] = th[u]
    BY DEF Moves
  <2> QED BY <1>1, <1>4, <2>1, SleepersKept
<1> QED BY <1>3, <1>4, <1>6, <1>7, <1>8 DEF IInv

\* The last thread to leave a destroyed queue gives its slot back.
LEMMA LeaveDestroyedStep ==
  ASSUME IInv, NEW t \in Thread, NEW r \in Requests, Moves(t, r), Unchanged, UNCHANGED mq_mutex,
         th[t].at = "woken", q.deleted, mq_mutex = NoThread,
         q' = [q EXCEPT !.n_threads = @ - 1], mutex_owner' = t,
         r.at = IF q.n_threads - 1 = 0 THEN "dealloc" ELSE "idle"
  PROVE  IInv'
<1>1. /\ q \in Queues /\ th' \in [Thread -> Requests] /\ th'[t] = r /\ Others(t)
      /\ UNCHANGED <<free, marked, sent>> /\ Cardinality(Thread) \in Nat
      /\ \A u \in Thread \ {t} : th'[u] = th[u]
  BY MessageQueueAssumption, FS_CardinalityType DEF IInv, Types, Moves, Others, Unchanged
<1>2. /\ q'.msgs = q.msgs /\ q'.deleted = q.deleted /\ q'.id = q.id
      /\ q'.n_threads = q.n_threads - 1 /\ q' \in OtherQueues
  <2>1. q.n_threads - 1 \in Int
    BY <1>1 DEF Queues
  <2>2. q' = [q EXCEPT !.n_threads = q.n_threads - 1]
    OBVIOUS
  <2> QED BY <1>1, <2>1, <2>2 DEF Queues, OtherQueues
<1>3. Waiting(t) /\ ~Waiting(t)' /\ ~Announcing(t)
  BY <1>1 DEF Waiting, Announcing
<1>4. /\ q'.n_threads = Cardinality(Waiters')
      /\ q'.n_threads = 0 <=> \A u \in Thread : ~Waiting(u)'
  BY <1>1, <1>2, <1>3, CountWaiters DEF IInv, WaitersCounted
<1>5. ~free /\ \A u \in Thread : ~Reclaims(u)
  BY <1>3 DEF IInv, SlotReclaimed
<1>6. SlotReclaimed'
  <2>1. \A u \in Thread : Reclaims(u)' => u = t /\ q'.n_threads = 0 /\ th'[u].at # "init"
    BY <1>1, <1>2, <1>5 DEF Reclaims
  <2>2. ~free' /\ q'.deleted /\ \A u \in Thread : th'[u].at = "init" => Reclaims(u)'
    BY <1>1, <1>2, <1>5 DEF Reclaims
  <2>3. \A u \in Thread : Reclaims(u)' => \A v \in Thread : ~Waiting(v)'
    BY <1>4, <2>1
  <2> QED BY <2>1, <2>2, <2>3 DEF SlotReclaimed
<1>7. ReclaimedAtLast'
  BY <1>1, <1>2, <1>4 DEF ReclaimedAtLast, Reclaims
<1>8. DeliveredToAddressee' /\ \A u \in Thread : ~Unserved(u)
  BY <1>2 DEF IInv, DeliveredToAddressee, Unserved
<1> QED
  <2>1. free' \in BOOLEAN /\ (MaxSize # 0 => Len(q'.msgs) <= MaxSize)
        /\ mq_mutex' \in Thread \cup {NoThread}
    BY <1>1, <1>2 DEF IInv, Types
  <2> QED BY <1>1, <1>2, <1>3, <1>4, <1>6, <1>7, <1>8, <2>1, SlotStep

\* A woken thread was interrupted, or leaves a destroyed queue, or tries again.
LEMMA WokenUpStep ==
  ASSUME IInv, NEW t \in Thread, WokenUp(t)
  PROVE  IInv'
<1> DEFINE qq == [q EXCEPT !.n_threads = @ - 1]
<1>1. /\ th[t].at = "woken" /\ mq_mutex = NoThread /\ Unchanged /\ Waiting(t)
      /\ th[t] \in Requests /\ q \in Queues /\ th[t].id = q.id
      /\ Cardinality(Thread) \in Nat
  BY MessageQueueAssumption, FS_CardinalityType
  DEF WokenUp, Waiting, IInv, Types, Fits, WaitsHere, Unchanged
<1>2. Left(t, qq)
  BY <1>1 DEF Left, Queues, OtherQueues
<1>3. CASE /\ t \in marked /\ q' = qq /\ mutex_owner' = t
           /\ th' = At(t, "signalled") /\ UNCHANGED mq_mutex
  <2> DEFINE r == [th[t] EXCEPT !.at = "signalled"]
  <2>1. Moves(t, r)
    BY <1>3, OneMoves DEF IInv, Place
  <2>2. th'[t].at = "signalled" /\ sent > 0 /\ UNCHANGED <<free, marked, sent, mq_mutex>>
    BY <1>1, <1>3, <2>1 DEF Moves, Requests, IInv, Types, Orderly, Unchanged
  <2> HIDE DEF qq
  <2>3. GoodStep(t, r)
    BY <1>1, <1>2, <1>3, <2>1, <2>2 DEF GoodStep, Announcing, Reclaims, Left, IInv, Types
  <2>4. GoodReason(t)
    <3>1. Fits(t)'
      BY <2>2 DEF Fits, HoldsMutex, SeesQueue, WaitsHere, Looks, Waiting
    <3>2. \A u \in Thread \ {t} : Unserved(u) /\ th'[u] = th[u] => Unserved(u)'
      BY <1>2, <1>3 DEF Unserved, Full, Left
    <3>3. DeliveredToAddressee'
      BY <1>2, <1>3 DEF DeliveredToAddressee, IInv, Left
    <3> QED BY <2>2, <3>1, <3>2, <3>3 DEF GoodReason
  <2>5. GoodCount(t)
    BY <1>1, <1>2, <1>3, <2>2 DEF GoodCount, Waiting, Left
  <2>6. GoodInterrupt(t)
    BY <2>2 DEF GoodInterrupt, IInv, Types
  <2> QED BY <2>3, <2>4, <2>5, <2>6, MoveStep
<1>4. CASE /\ qq.deleted /\ q' = qq /\ mutex_owner' = t
           /\ th' = (IF LastWaiter(qq.n_threads) THEN At(t, "dealloc") ELSE Finished(t))
           /\ UNCHANGED mq_mutex
  <2>1. qq.n_threads = q.n_threads - 1 /\ q.deleted
    BY <1>1, <1>4 DEF Queues
  <2>2. CASE q.n_threads - 1 = 0
    <3> DEFINE r == [th[t] EXCEPT !.at = "dealloc"]
    <3>1. r \in Requests /\ r.at = "dealloc"
      BY <1>1 DEF Requests, Place
    <3>2. Moves(t, r)
      BY <1>4, <2>1, <2>2, OneMoves DEF IInv, Place, LastWaiter
    <3> HIDE DEF r
    <3> QED BY <1>1, <1>4, <2>1, <2>2, <3>1, <3>2, LeaveDestroyedStep
  <2>3. CASE q.n_threads - 1 # 0
    <3>1. Idle \in Requests /\ Idle.at = "idle"
      BY IdleType DEF Idle
    <3>2. Moves(t, Idle)
      BY <1>4, <2>1, <2>3, OneMoves DEF IInv, LastWaiter
    <3> QED BY <1>1, <1>4, <2>1, <2>3, <3>1, <3>2, LeaveDestroyedStep
  <2> QED BY <2>2, <2>3
<1>5. CASE ~qq.deleted /\ th[t].op = "send" /\ SendLoop(t, qq)
  BY <1>1, <1>2, <1>5, SendLoopStep DEF Left
<1>6. CASE ~qq.deleted /\ th[t].op # "send" /\ TryLoop(t, qq)
  BY <1>1, <1>2, <1>6, TryLoopStep DEF Left
<1> QED BY <1>3, <1>4, <1>5, <1>6 DEF WokenUp

\* Destroying leaves the slot to the waiters, or reclaims it when there are none.
LEMMA DestroyStep ==
  ASSUME IInv, Public, NEW t \in Thread, destroy_message_queue(t)
  PROVE  IInv'
<1>1. CASE NoQueue(t, mutex_owner)
  BY <1>1, NoQueueStep DEF destroy_message_queue, Unchanged, IInv, Types
<1>2. CASE /\ ~check_deleted(th[t].id) /\ q' = [q EXCEPT !.deleted = TRUE]
           /\ th' = At(t, AfterDestroy(q.n_threads)) /\ UNCHANGED <<mq_mutex, mutex_owner>>
  <2>1. /\ th[t].at = "lock" /\ mq_mutex = NoThread /\ ~q.deleted
        /\ UNCHANGED <<mq_mutex, mutex_owner, free, marked, sent>>
        /\ q \in Queues /\ th[t] \in Requests /\ Cardinality(Thread) \in Nat
        /\ (MaxSize # 0 => Len(q.msgs) <= MaxSize)
    BY <1>2, MessageQueueAssumption, FS_CardinalityType
    DEF destroy_message_queue, check_deleted, IInv, Types
  <2>2. /\ q'.msgs = q.msgs /\ q'.deleted /\ q'.id = q.id
        /\ q'.n_threads = q.n_threads /\ q' \in OtherQueues
    <3>1. q.n_threads \in Int
      BY <2>1 DEF Queues
    <3> QED BY <1>2, <2>1, <3>1 DEF Queues, OtherQueues
  <2>3. PICK r \in Requests :
          /\ Moves(t, r)
          /\ \/ r.at = "dealloc" /\ q.n_threads = 0
             \/ r.at = "destroyed" /\ q.n_threads # 0
    <3>1. \A a \in Place : /\ [th[t] EXCEPT !.at = a] \in Requests
                           /\ [th[t] EXCEPT !.at = a].at = a
      BY <2>1 DEF Requests
    <3>2. CASE q.n_threads = 0
      <4>1. Moves(t, [th[t] EXCEPT !.at = "dealloc"])
        BY <1>2, <3>2, OneMoves DEF AfterDestroy, IInv, Place
      <4> QED BY <3>1, <3>2, <4>1 DEF Place
    <3>3. CASE q.n_threads # 0
      <4>1. Moves(t, [th[t] EXCEPT !.at = "destroyed"])
        BY <1>2, <3>3, OneMoves DEF AfterDestroy, IInv, Place
      <4> QED BY <3>1, <3>3, <4>1 DEF Place
    <3> QED BY <3>2, <3>3
  <2>4. /\ th'[t] = r /\ \A u \in Thread \ {t} : th'[u] = th[u]
        /\ th' \in [Thread -> Requests] /\ Others(t)
    BY <2>3 DEF Moves, Others
  <2>5. ~Waiting(t) /\ ~Waiting(t)' /\ ~Announcing(t)
    BY <2>1, <2>3, <2>4 DEF Waiting, Announcing
  <2>6. /\ q'.n_threads = Cardinality(Waiters')
        /\ q.n_threads = 0 <=> \A u \in Thread : ~Waiting(u)
        /\ q.n_threads = 0 <=> \A u \in Thread : ~Waiting(u)'
    BY <2>2, <2>4, <2>5, CountWaiters DEF IInv, WaitersCounted
  <2>7. ~free /\ \A u \in Thread : ~Reclaims(u)
    BY <2>1 DEF IInv, SlotReclaimed
  <2>8. SlotReclaimed'
    <3>1. \A u \in Thread : Reclaims(u)' => u = t /\ q.n_threads = 0 /\ th'[u].at # "init"
      BY <2>3, <2>4, <2>7 DEF Reclaims
    <3>2. ~free' /\ \A u \in Thread : th'[u].at = "init" => Reclaims(u)'
      BY <2>1, <2>7 DEF Reclaims
    <3>3. \A u \in Thread : Reclaims(u)' => \A v \in Thread : ~Waiting(v)'
      BY <2>6, <3>1
    <3> QED BY <2>2, <3>1, <3>2, <3>3 DEF SlotReclaimed
  <2>9. ReclaimedAtLast'
    BY <2>3, <2>4, <2>6 DEF ReclaimedAtLast, Reclaims
  <2>10. DeliveredToAddressee'
    BY <2>2 DEF IInv, DeliveredToAddressee
  <2>11. \A u \in Thread \ {t} : th[u].at = "asleep" => Announced(u)'
    <3> SUFFICES ASSUME NEW u \in Thread \ {t}, th[u].at = "asleep" PROVE Announced(u)'
      OBVIOUS
    <3>1. q.n_threads # 0
      BY <2>6 DEF Waiting
    <3>2. th'[t].at = "destroyed"
      BY <2>3, <2>4, <3>1
    <3> QED BY <3>2 DEF Announced
  <2> QED
    <3>1. /\ mq_mutex' \in Thread \cup {NoThread} /\ mutex_owner' \in Thread \cup {NoThread}
          /\ free' \in BOOLEAN /\ (MaxSize # 0 => Len(q'.msgs) <= MaxSize)
      BY <2>1, <2>2 DEF IInv, Types
    <3> QED BY <2>1, <2>2, <2>3, <2>4, <2>5, <2>6, <2>8, <2>9, <2>10, <2>11, <3>1, SlotStep
<1> QED BY <1>1, <1>2 DEF destroy_message_queue

\* The slot of a destroyed queue that nobody waits on becomes free.
LEMMA DeallocStep ==
  ASSUME IInv, Public, NEW t \in Thread, queue_dealloc(t)
  PROVE  IInv'
<1>1. /\ th[t].at = "dealloc" /\ q \in Queues /\ free'
      /\ UNCHANGED <<mq_mutex, mutex_owner, marked, sent>>
      /\ q' = [q EXCEPT !.msgs = <<>>] /\ Cardinality(Thread) \in Nat
  BY MessageQueueAssumption, FS_CardinalityType DEF queue_dealloc, IInv, Types
<1>2. /\ q'.msgs = <<>> /\ q'.deleted = q.deleted /\ q'.n_threads = q.n_threads
      /\ q' \in OtherQueues
  <2>1. q.n_threads \in Int /\ <<>> \in Seq((0..MaxCreates) \X Kind)
    BY <1>1 DEF Queues
  <2> QED BY <1>1, <2>1 DEF Queues, OtherQueues
<1>3. /\ Moves(t, Idle) /\ Idle.at = "idle" /\ th'[t] = Idle /\ Others(t)
      /\ th' \in [Thread -> Requests]
      /\ \A u \in Thread \ {t} : th'[u] = th[u]
  <2>1. Moves(t, Idle)
    BY OneMoves DEF queue_dealloc, IInv
  <2> QED BY <2>1 DEF Moves, Others, Idle
<1>4. Reclaims(t) /\ ~Announcing(t) /\ ~Waiting(t) /\ ~Waiting(t)'
  BY <1>1, <1>3 DEF Reclaims, Announcing, Waiting
<1>5. /\ ~free /\ q.deleted /\ \A u \in Thread : ~Waiting(u)
      /\ \A u \in Thread \ {t} : ~Reclaims(u)
  BY <1>4 DEF IInv, SlotReclaimed
<1>6. /\ q'.n_threads = Cardinality(Waiters') /\ \A u \in Thread : ~Waiting(u)'
  BY <1>2, <1>3, <1>4, <1>5, CountWaiters DEF IInv, WaitersCounted
<1>7. SlotReclaimed'
  <2>1. \A u \in Thread : ~Reclaims(u)'
    BY <1>3, <1>5 DEF Reclaims
  <2> QED BY <1>2, <1>5, <1>6, <2>1 DEF SlotReclaimed, Reclaims
<1>8. ReclaimedAtLast'
  BY <1>1 DEF ReclaimedAtLast
<1>9. DeliveredToAddressee' /\ \A u \in Thread : ~Unserved(u)
  BY <1>2, <1>5 DEF DeliveredToAddressee, Unserved
<1> QED
  <2>1. /\ mq_mutex' \in Thread \cup {NoThread} /\ mutex_owner' \in Thread \cup {NoThread}
        /\ free' \in BOOLEAN /\ (MaxSize # 0 => Len(q'.msgs) <= MaxSize)
    <3>1. Len(q'.msgs) = 0 /\ (MaxSize # 0 => 0 <= MaxSize)
      BY <1>2, MessageQueueAssumption
    <3>2. free' \in BOOLEAN
      BY MessageQueueAssumption DEF queue_dealloc
    <3> QED BY <1>1, <3>1, <3>2 DEF IInv, Types
  <2> QED BY <1>1, <1>2, <1>3, <1>4, <1>5, <1>6, <1>7, <1>8, <1>9, <2>1, SlotStep

\* The slot is taken off the list of free queues.
LEMMA CreateStep ==
  ASSUME IInv, Public, NEW t \in Thread, MessageQueueCreate(t)
  PROVE  IInv'
<1> DEFINE r == [th[t] EXCEPT !.at = "init"]
<1>1. /\ th[t] = Idle /\ Idle.at = "idle" /\ q.id < MaxCreates /\ free /\ free' = FALSE
      /\ UNCHANGED <<q, mq_mutex, mutex_owner, marked, sent>>
      /\ q \in Queues /\ th[t] \in Requests /\ Cardinality(Thread) \in Nat
  BY MessageQueueAssumption, FS_CardinalityType DEF MessageQueueCreate, Idle, IInv, Types
<1>2. /\ Moves(t, r) /\ r.at = "init" /\ th'[t] = r /\ Others(t)
      /\ th' \in [Thread -> Requests]
      /\ \A u \in Thread \ {t} : th'[u] = th[u]
  <2>1. Moves(t, r)
    BY OneMoves DEF MessageQueueCreate, IInv, Place
  <2> QED BY <1>1, <2>1 DEF Moves, Others, Requests
<1> HIDE DEF r
<1>3. ~Announcing(t) /\ ~Waiting(t) /\ ~Waiting(t)'
  BY <1>1, <1>2 DEF Announcing, Waiting
<1>4. /\ q.deleted /\ \A u \in Thread : ~Waiting(u) /\ ~Reclaims(u)
  BY <1>1 DEF IInv, SlotReclaimed
<1>5. /\ q'.n_threads = Cardinality(Waiters') /\ \A u \in Thread : ~Waiting(u)'
  BY <1>1, <1>2, <1>3, <1>4, CountWaiters DEF IInv, WaitersCounted
<1>6. \A u \in Thread : Reclaims(u)' <=> u = t
  BY <1>2, <1>4 DEF Reclaims
<1>7. SlotReclaimed' /\ ReclaimedAtLast'
  BY <1>1, <1>4, <1>5, <1>6 DEF SlotReclaimed, ReclaimedAtLast, Reclaims
<1>8. /\ \A u \in Thread : ~Unserved(u)
      /\ DeliveredToAddressee' /\ q' \in OtherQueues /\ (MaxSize # 0 => Len(q'.msgs) <= MaxSize)
  BY <1>1, <1>2, <1>4, QuietReasons DEF Unserved
<1> QED
  <2>1. mq_mutex' \in Thread \cup {NoThread} /\ mutex_owner' \in Thread \cup {NoThread}
    BY <1>1 DEF IInv, Types
  <2> QED BY <1>1, <1>2, <1>3, <1>4, <1>5, <1>7, <1>8, <2>1, SlotStep

\* The queue begins anew, under an id that no thread has used yet.
LEMMA InitQueueStep ==
  ASSUME IInv, NEW t \in Thread, init_message_queue(t)
  PROVE  IInv'
<1>1. /\ th[t].at = "init" /\ mq_mutex = NoThread /\ mutex_owner' = NoThread
      /\ UNCHANGED <<free, mq_mutex, marked, sent>>
      /\ q' = [msgs |-> <<>>, n_threads |-> 0, deleted |-> FALSE, id |-> q.id + 1]
      /\ q \in Queues
  BY DEF init_message_queue, IInv, Types
<1>2. /\ Moves(t, Idle) /\ Idle.at = "idle" /\ th'[t] = Idle /\ Others(t)
      /\ th' \in [Thread -> Requests]
      /\ \A u \in Thread \ {t} : th'[u] = th[u]
  <2>1. Moves(t, Idle)
    BY OneMoves DEF init_message_queue, IInv
  <2> QED BY <2>1 DEF Moves, Others, Idle
<1>3. Reclaims(t) /\ ~Announcing(t) /\ ~Waiting(t) /\ ~Waiting(t)'
  BY <1>1, <1>2 DEF Reclaims, Announcing, Waiting
<1>4. /\ ~free /\ \A u \in Thread : ~Waiting(u)
      /\ \A u \in Thread \ {t} : ~Reclaims(u)
      /\ q.id < MaxCreates /\ q.deleted
  BY <1>1, <1>3 DEF IInv, SlotReclaimed
<1>5. q'.n_threads = Cardinality(Waiters')
  <2>1. Cardinality(Waiters') = 0
    BY <1>2, <1>3, <1>4, CountWaiters DEF IInv
  <2> QED BY <1>1, <2>1
<1>6. q' \in OtherQueues
  <2>1. q.id + 1 \in 0..MaxCreates
    BY <1>1, <1>4, MessageQueueAssumption DEF Queues
  <2>2. <<>> \in Seq((0..MaxCreates) \X Kind)
    OBVIOUS
  <2> QED BY <1>1, <2>1, <2>2 DEF OtherQueues
<1>7. \A u \in Thread : ~Reclaims(u)' /\ th'[u].at # "init"
  BY <1>2, <1>4 DEF Reclaims
<1>8. SlotReclaimed' /\ ReclaimedAtLast' /\ DeliveredToAddressee'
  BY <1>1, <1>4, <1>7 DEF SlotReclaimed, ReclaimedAtLast, DeliveredToAddressee
<1> QED
  <2>1. /\ mq_mutex' \in Thread \cup {NoThread} /\ mutex_owner' \in Thread \cup {NoThread}
        /\ free' \in BOOLEAN
    BY <1>1 DEF IInv, Types
  <2>2. MaxSize # 0 => Len(q'.msgs) <= MaxSize
    <3>1. Len(q'.msgs) = 0 /\ (MaxSize # 0 => 0 <= MaxSize)
      BY <1>1, MessageQueueAssumption
    <3> QED BY <3>1
  <2>3. \A u \in Thread : ~Unserved(u)
    BY <1>4 DEF Unserved
  <2> QED BY <1>1, <1>2, <1>3, <1>4, <1>5, <1>6, <1>8, <2>1, <2>2, <2>3, SlotStep

-----------------------------------------------------------------------------
(* Every step of every thread keeps the invariant. *)

\* The invariant is inductive.
LEMMA StepInv == ASSUME Public, IInv, [Next]_vars PROVE IInv'
<1>1. CASE UNCHANGED vars
  BY <1>1 DEF vars, IInv, Types, Fits, HoldsMutex, SeesQueue, WaitsHere, Looks, Waiting, Unserved,
     Full, Orderly, SlotReclaimed, Reclaims, WaitersCounted, Waiters, ReclaimedAtLast,
     NoMissedWakeup, DeliveredToAddressee
<1>2. ASSUME NEW t \in Thread, Step(t) PROVE IInv'
  <2>1. CASE Send(t) \/ TryMessage(t) \/ PeekMessage(t)
    BY <2>1, SendStep, TryMessageStep, PeekStep
  <2>2. CASE SendBroadcast(t) \/ AcceptBroadcast(t) \/ DestroyBroadcast(t) \/ DestroyBroadcast2(t)
    BY <2>2, BroadcastStep
  <2>3. CASE RetryMessage(t) \/ AcceptMessage(t) \/ RepeekMessage(t) \/ UnlockQueue(t)
    BY <2>3, RetryStep, AcceptStep, RepeekStep, UnlockStep
  <2>4. CASE Sleep(t) \/ WokenUp(t) \/ HandleInterrupt(t)
    BY <2>4, SleepStep, WokenUpStep, HandleInterruptStep
  <2>5. CASE destroy_message_queue(t) \/ queue_dealloc(t) \/ init_message_queue(t)
    BY <2>5, DestroyStep, DeallocStep, InitQueueStep
  <2> QED BY <1>2, <2>1, <2>2, <2>3, <2>4, <2>5 DEF Step
<1>3. ASSUME NEW t \in Thread, NEW op \in {"send", "get", "peek"}, NEW id \in 0..q.id,
             NEW k \in Kind, Request(t, op, id, k)
      PROVE  IInv'
  BY <1>3, RequestStep
<1>4. ASSUME NEW t \in Thread, Request(t, "destroy", q.id, Idle.kind) PROVE IInv'
  <2>1. q.id \in 0..q.id
    BY DEF IInv, Types, Queues
  <2>2. Idle.kind \in Kind
    BY IdleType DEF Requests
  <2> QED BY <1>4, <2>1, <2>2, RequestStep
<1>5. ASSUME NEW t \in Thread, MessageQueueCreate(t) PROVE IInv'
  BY <1>5, CreateStep
<1>6. ASSUME NEW t \in Thread, NEW u \in Thread, ThreadInterrupt(t, u) PROVE IInv'
  BY <1>6, InterruptStep
<1> QED BY <1>1, <1>2, <1>3, <1>4, <1>5, <1>6 DEF Next

\* So it holds in every state of a public queue.
LEMMA Invariance == ASSUME Public PROVE Spec => []IInv
<1>1. Init => IInv
  BY InitInv
<1>2. IInv /\ [Next]_vars => IInv'
  BY StepInv
<1> QED BY <1>1, <1>2, PTL DEF Spec

\* The fields of a public queue keep their types: no message more than max_size, and
\* never a negative count of waiting threads.
THEOREM TypeCorrect == ASSUME Public PROVE Spec => []TypeOK
<1>1. IInv => TypeOK
  BY DEF IInv, Types, Queues, TypeOK
<1> QED BY <1>1, Invariance, PTL

\* A thread between THREAD_TRY_MESSAGE and THREAD_ACCEPT_MESSAGE, or that peeks, holds
\* mq_mutex, and its current cell is in the queue, as long as nobody is interrupted.
THEOREM ScannerOwns == ASSUME Public PROVE Spec => []ScannerOwnsQueue
<1>1. IInv => ScannerOwnsQueue
  BY DEF IInv, Orderly, Fits, HoldsMutex, SeesQueue, Looks, ScannerOwnsQueue
<1> QED BY <1>1, Invariance, PTL

\* No thread sleeps on a queue that can serve it, or is gone, unless a broadcast to it
\* is on its way.
THEOREM NoLostWakeup == ASSUME Public PROVE Spec => []NoMissedWakeup
<1>1. IInv => NoMissedWakeup
  BY DEF IInv
<1> QED BY <1>1, Invariance, PTL

\* A destroyed queue is left to the threads that wait on it, and given back once the
\* last one has left.
THEOREM WaitersKept == ASSUME Public PROVE Spec => []WaitersKeepQueue
<1>1. ASSUME IInv PROVE WaitersKeepQueue
  <2>1. q.n_threads = Cardinality(Waiters)
    BY <1>1 DEF IInv, WaitersCounted
  <2>2. Waiters # {} => ~free /\ \A t \in Thread : th[t].at # "init"
    BY <1>1 DEF IInv, SlotReclaimed, Reclaims, Waiters
  <2>3. \A t \in Waiters : th[t].id = q.id
    BY <1>1 DEF IInv, Fits, WaitsHere, Waiters
  <2>4. sent = 0 /\ q.deleted /\ Waiters = {} =>
          free \/ \E t \in Thread : th[t].at \in {"dealloc", "init"}
    BY <1>1 DEF IInv, ReclaimedAtLast, Reclaims, Waiters
  <2> QED BY <2>1, <2>2, <2>3, <2>4 DEF WaitersKeepQueue
<1> QED BY <1>1, Invariance, PTL

\* A message is in the queue it was sent to, also when the slot has been used for
\* another queue while its sender waited for room.
THEOREM Delivered == ASSUME Public PROVE Spec => []DeliveredToAddressee
<1>1. IInv => DeliveredToAddressee
  BY DEF IInv
<1> QED BY <1>1, Invariance, PTL
=============================================================================
