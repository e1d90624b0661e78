---------------------------- MODULE MessageQueue ----------------------------
(***************************************************************************)
(* A message queue of the multi-threaded engine (thread_xsb.c, used by      *)
(* lib/mutex_xsb.P): sending, getting and peeking with waits on a bounded   *)
(* queue, destroying a queue that threads wait for, using its slot again,   *)
(* and interrupting the threads.                                            *)
(*                                                                         *)
(* One slot of mq_table is modelled: a public queue, or with Public = FALSE *)
(* the private queue of the threads that own one slot of the thread table   *)
(* in turn.  One action is what happens under mq_mutex without a wait, or   *)
(* one unlocked call.  The chain of cells is the sequence of messages, and  *)
(* size is its length.                                                      *)
(***************************************************************************)
EXTENDS Integers, Sequences, FiniteSets

CONSTANTS
  Thread, NoThread,
  Kind,          \* what tells messages apart for the pattern of a receiver
  MaxSize,       \* max_size; 0 is MQ_UNBOUNDED
  Public,        \* PUBLIC_MQ
  Signals,       \* the interrupts used: "cancel" and "goal"
  MaxOps,        \* bound: requests each thread makes
  MaxCreates,    \* bound: times the slot is initialised
  MaxInterrupts  \* bound: interrupts sent

ASSUME MessageQueueAssumption ==
  /\ IsFiniteSet(Thread) /\ NoThread \notin Thread
  /\ Kind # {}
  /\ MaxSize \in Nat /\ Public \in BOOLEAN
  /\ Signals \subseteq {"cancel", "goal"}
  /\ {MaxOps, MaxCreates, MaxInterrupts} \subseteq Nat

VARIABLES
  q,            \* [msgs, n_threads, deleted, id]; a message is <<id, kind>>
  free,         \* the slot is on the list of free queues
  mq_mutex,     \* the thread that holds it
  mutex_owner,  \* the field of that name
  th,           \* [at, op, id, kind, cur]: the request a thread is in
  marked,       \* the threads with THREADINT_MARK
  ops, sent     \* requests made by each thread, interrupts sent

vars == <<q, free, mq_mutex, mutex_owner, th, marked, ops, sent>>

Idle == [at |-> "idle", op |-> "none", id |-> 0, kind |-> CHOOSE k \in Kind : TRUE, cur |-> 0]

Init ==
  /\ q = [msgs |-> <<>>, n_threads |-> 0, deleted |-> FALSE, id |-> 0]
  /\ free = FALSE
  /\ mq_mutex = NoThread /\ mutex_owner = NoThread
  /\ th = [t \in Thread |-> Idle]
  /\ marked = {}
  /\ ops = [t \in Thread |-> 0]
  /\ sent = 0

At(t, a) == [th EXCEPT ![t].at = a]
Finished(t) == [th EXCEPT ![t] = Idle]

-----------------------------------------------------------------------------
(* Locking, waiting and waking up *)

\* Mutant: a full queue has one message more than max_size.
FullPlusOne(msgs) == MaxSize # 0 /\ Len(msgs) > MaxSize

Full(msgs) == MaxSize # 0 /\ Len(msgs) >= MaxSize

\* The first part of wait_on_queue, up to pthread_cond_wait.  qq is the queue.
EnterWait(t, qq) ==
  /\ q' = [qq EXCEPT !.n_threads = @ + 1]
  /\ mq_mutex' = t
  /\ mutex_owner' = NoThread
  /\ th' = At(t, "wait")

\* pthread_cond_wait releases mq_mutex and sleeps.
Sleep(t) ==
  /\ th[t].at = "wait"
  /\ mq_mutex' = NoThread
  /\ th' = At(t, "asleep")
  /\ UNCHANGED <<q, free, mutex_owner, marked, ops, sent>>

\* The condition variable a waiting thread uses.
Cond(t) == IF th[t].op = "send" THEN "mq_has_free_cells" ELSE "mq_has_messages"

\* pthread_cond_broadcast, by a thread that then is at a.
Broadcast(t, conds, a) ==
  th' = [u \in Thread |->
           IF u = t THEN a
           ELSE IF th[u].at = "asleep" /\ Cond(u) \in conds THEN [th[u] EXCEPT !.at = "woken"]
           ELSE th[u]]

\* Mutant: the id is not compared.
DeletedOnly(id) == q.deleted

check_deleted(id) == q.id # id \/ q.deleted

\* The existence error of check_deleted: mq_mutex is released, mutex_owner is not
\* reset.
NoQueue(t, ownr) ==
  /\ th' = Finished(t)
  /\ mutex_owner' = ownr
  /\ UNCHANGED <<q, mq_mutex>>

-----------------------------------------------------------------------------
(* THREAD_SEND_MESSAGE *)

SendLoop(t, qq) ==
  IF Full(qq.msgs) THEN EnterWait(t, qq)
  ELSE /\ q' = [qq EXCEPT !.msgs = Append(@, <<th[t].id, th[t].kind>>)]
       /\ mq_mutex' = NoThread /\ mutex_owner' = NoThread
       /\ th' = At(t, "sent")

Send(t) ==
  /\ th[t].at = "lock" /\ th[t].op = "send"
  /\ mq_mutex = NoThread
  /\ IF check_deleted(th[t].id) THEN NoQueue(t, t) ELSE SendLoop(t, q)
  /\ UNCHANGED <<free, marked, ops, sent>>

\* The broadcast at the end, after the unlock.
SendBroadcast(t) ==
  /\ th[t].at = "sent"
  /\ Broadcast(t, {"mq_has_messages"}, Idle)
  /\ UNCHANGED <<q, free, mq_mutex, mutex_owner, marked, ops, sent>>

-----------------------------------------------------------------------------
(* THREAD_TRY_MESSAGE, THREAD_RETRY_MESSAGE and THREAD_ACCEPT_MESSAGE, in the *)
(* order thread_get_message_1 makes them                                      *)

\* Mutant: mq_mutex is released before the message is looked at.
TryUnlocked(t, qq) ==
  IF qq.msgs = <<>> THEN EnterWait(t, qq)
  ELSE /\ q' = qq
       /\ mq_mutex' = NoThread /\ mutex_owner' = t
       /\ th' = [th EXCEPT ![t].at = "scan", ![t].cur = 1]

\* Leaves with mq_mutex held and current_mq_cell on the first message.
TryLoop(t, qq) ==
  IF qq.msgs = <<>> THEN EnterWait(t, qq)
  ELSE /\ q' = qq
       /\ mq_mutex' = t /\ mutex_owner' = t
       /\ th' = [th EXCEPT ![t].at = "scan", ![t].cur = 1]

TryMessage(t) ==
  /\ th[t].at = "lock" /\ th[t].op = "get"
  /\ mq_mutex = NoThread
  /\ IF check_deleted(th[t].id) THEN NoQueue(t, t) ELSE TryLoop(t, q)
  /\ UNCHANGED <<free, marked, ops, sent>>

Matches(t) == q.msgs[th[t].cur][2] = th[t].kind

RetryMessage(t) ==
  /\ th[t].at = "scan" /\ mutex_owner = t /\ th[t].cur # 0
  /\ ~Matches(t)
  /\ IF th[t].cur = Len(q.msgs) THEN EnterWait(t, q)
     ELSE /\ th' = [th EXCEPT ![t].cur = @ + 1]
          /\ UNCHANGED <<q, mq_mutex, mutex_owner>>
  /\ UNCHANGED <<free, marked, ops, sent>>

\* Mutant: writers are woken when the queue was not full.
WasNotFull(n) == n + 1 # MaxSize

WasFull(n) == n + 1 = MaxSize

AcceptMessage(t) ==
  /\ th[t].at = "scan" /\ mutex_owner = t /\ th[t].cur # 0
  /\ Matches(t)
  /\ LET rest == SubSeq(q.msgs, 1, th[t].cur - 1) \o SubSeq(q.msgs, th[t].cur + 1, Len(q.msgs))
     IN /\ q' = [q EXCEPT !.msgs = rest]
        /\ th' = IF WasFull(Len(rest)) THEN At(t, "accepted") ELSE Finished(t)
  /\ mq_mutex' = NoThread /\ mutex_owner' = NoThread
  /\ UNCHANGED <<free, marked, ops, sent>>

AcceptBroadcast(t) ==
  /\ th[t].at = "accepted"
  /\ Broadcast(t, {"mq_has_free_cells"}, Idle)
  /\ UNCHANGED <<q, free, mq_mutex, mutex_owner, marked, ops, sent>>

-----------------------------------------------------------------------------
(* wait_on_queue after the wait *)

\* Mutant: every waiter deallocates the deleted queue.
EveryWaiter(n_threads) == TRUE

LastWaiter(n_threads) == n_threads = 0

WokenUp(t) ==
  /\ th[t].at = "woken"
  /\ mq_mutex = NoThread
  /\ LET qq == [q EXCEPT !.n_threads = @ - 1] IN
     \/ /\ t \in marked
        /\ q' = qq /\ mutex_owner' = t
        /\ th' = At(t, "signalled")
        /\ UNCHANGED mq_mutex
     \/ /\ t \notin marked /\ qq.deleted
        /\ q' = qq /\ mutex_owner' = t
        /\ th' = IF LastWaiter(qq.n_threads) THEN At(t, "dealloc") ELSE Finished(t)
        /\ UNCHANGED mq_mutex
     \/ /\ t \notin marked /\ ~qq.deleted
        /\ IF th[t].op = "send" THEN SendLoop(t, qq) ELSE TryLoop(t, qq)
  /\ UNCHANGED <<free, marked, ops, sent>>

-----------------------------------------------------------------------------
(* THREAD_PEEK_MESSAGE, THREAD_REPEEK_MESSAGE and THREAD_UNLOCK_QUEUE *)

PeekMessage(t) ==
  /\ th[t].at = "lock" /\ th[t].op = "peek"
  /\ mq_mutex = NoThread
  /\ IF check_deleted(th[t].id) THEN NoQueue(t, mutex_owner)
     ELSE /\ mq_mutex' = t
          /\ th' = IF q.msgs = <<>> THEN At(t, "unlock")
                   ELSE [th EXCEPT ![t].at = "peek", ![t].cur = 1]
          /\ UNCHANGED <<q, mutex_owner>>
  /\ UNCHANGED <<free, marked, ops, sent>>

\* With no cell of q (0) only the message that was read is left to compare: when it
\* does not match, the next cell is looked up from one that was freed.
RepeekMessage(t) ==
  /\ th[t].at = "peek"
  /\ \/ th[t].cur = 0 /\ th' = At(t, "unlock")
     \/ /\ th[t].cur # 0
        /\ th' = IF Matches(t) \/ th[t].cur = Len(q.msgs) THEN At(t, "unlock")
                 ELSE [th EXCEPT ![t].cur = @ + 1]
  /\ UNCHANGED <<q, free, mq_mutex, mutex_owner, marked, ops, sent>>

UnlockQueue(t) ==
  /\ th[t].at = "unlock"
  /\ mq_mutex' = NoThread
  /\ th' = Finished(t)
  /\ UNCHANGED <<q, free, mutex_owner, marked, ops, sent>>

-----------------------------------------------------------------------------
(* Destroying and creating *)

AfterDestroy(n_threads) == IF n_threads = 0 THEN "dealloc" ELSE "destroyed"

\* destroy_message_queue.  For a private queue it is the exit of its thread.
destroy_message_queue(t) ==
  /\ th[t].at = "lock" /\ th[t].op = "destroy"
  /\ mq_mutex = NoThread
  /\ \/ /\ Public /\ check_deleted(th[t].id)
        /\ NoQueue(t, mutex_owner)
     \/ /\ ~(Public /\ check_deleted(th[t].id))
        /\ q' = [q EXCEPT !.deleted = TRUE]
        /\ th' = At(t, AfterDestroy(q.n_threads))
        /\ UNCHANGED <<mq_mutex, mutex_owner>>
  /\ UNCHANGED <<free, marked, ops, sent>>

DestroyBroadcast(t) ==
  /\ th[t].at = "destroyed"
  /\ Broadcast(t, {"mq_has_messages"}, [th[t] EXCEPT !.at = "destroyed2"])
  /\ UNCHANGED <<q, free, mq_mutex, mutex_owner, marked, ops, sent>>

DestroyBroadcast2(t) ==
  /\ th[t].at = "destroyed2"
  /\ Broadcast(t, {"mq_has_free_cells"}, Idle)
  /\ UNCHANGED <<q, free, mq_mutex, mutex_owner, marked, ops, sent>>

queue_dealloc(t) ==
  /\ th[t].at = "dealloc"
  /\ q' = [q EXCEPT !.msgs = <<>>]
  /\ free' = Public
  /\ th' = Finished(t)
  /\ UNCHANGED <<mq_mutex, mutex_owner, marked, ops, sent>>

\* MESSAGE_QUEUE_CREATE takes the slot off the list of free queues.  The private
\* queue of a slot of the thread table is used again when its thread has exited.
MessageQueueCreate(t) ==
  /\ th[t] = Idle /\ ops[t] < MaxOps /\ q.id < MaxCreates
  /\ IF Public THEN free
     ELSE q.deleted /\ \A u \in Thread : th[u].at # "init" /\ th[u].op # "destroy"
  /\ free' = FALSE
  /\ th' = At(t, "init")
  /\ ops' = [ops EXCEPT ![t] = @ + 1]
  /\ UNCHANGED <<q, mq_mutex, mutex_owner, marked, sent>>

init_message_queue(t) ==
  /\ th[t].at = "init"
  /\ mq_mutex = NoThread
  /\ q' = [msgs |-> <<>>, n_threads |-> 0, deleted |-> FALSE, id |-> q.id + 1]
  /\ mutex_owner' = NoThread
  /\ th' = Finished(t)
  /\ UNCHANGED <<free, mq_mutex, marked, ops, sent>>

-----------------------------------------------------------------------------
(* Interrupts *)

\* XSB_THREAD_INTERRUPT: marks u and broadcasts to the condition variable u has
\* stored in cond_var_ptr, without mq_mutex.
ThreadInterrupt(t, u) ==
  /\ Signals # {} /\ sent < MaxInterrupts
  /\ th[t] = Idle /\ t # u /\ th[u].at # "dead"
  /\ sent' = sent + 1
  /\ marked' = marked \cup {u}
  /\ IF th[u].at \in {"wait", "asleep", "woken"}
     THEN Broadcast(t, {Cond(u)}, Idle)
     ELSE UNCHANGED th
  /\ UNCHANGED <<q, free, mq_mutex, mutex_owner, ops>>

\* execute_messages_on_signal_queue peeks and gets the signals with
\* THREAD_PEEK_MESSAGE and THREAD_TRY_MESSAGE, on the queue of signals: they move
\* the thread's one current_mq_cell, so that a thread that was looking through q
\* comes back with a cell that is not in q (0), unless the goals it was sent were
\* all run at an earlier interrupt.  An interrupted send has succeeded, and an
\* interrupted get has an unbound message, which matches, and no cell of q.
AfterGoals(t) ==
  \/ th[t].at \in {"idle", "unlock"} /\ th' = th
  \/ th[t].at \in {"scan", "peek"} /\ \E c \in {0, th[t].cur} : th' = [th EXCEPT ![t].cur = c]
  \/ th[t].at = "signalled" /\ th[t].op = "send" /\ th' = Finished(t)
  \/ th[t].at = "signalled" /\ th[t].op # "send" /\ th' = [th EXCEPT ![t].at = "scan", ![t].cur = 0]

\* Between two requests of a thread the engine finds the mark and runs the goals
\* of the signal queue.  A cancelled thread ends its goal; after any other goal
\* the thread goes on.
HandleInterrupt(t) ==
  /\ t \in marked
  /\ th[t].at \in {"idle", "scan", "peek", "unlock", "signalled"}
  /\ marked' = marked \ {t}
  /\ \/ "cancel" \in Signals /\ th' = At(t, "dead")
     \/ "goal" \in Signals /\ AfterGoals(t)
  /\ UNCHANGED <<q, free, mq_mutex, mutex_owner, ops, sent>>

-----------------------------------------------------------------------------
\* A thread uses an id it was given; the queue may be gone by then.
Request(t, op, id, k) ==
  /\ th[t] = Idle /\ t \notin marked
  /\ ops[t] < MaxOps
  /\ th' = [th EXCEPT ![t] = [at |-> "lock", op |-> op, id |-> id, kind |-> k, cur |-> 0]]
  /\ ops' = [ops EXCEPT ![t] = @ + 1]
  /\ UNCHANGED <<q, free, mq_mutex, mutex_owner, marked, sent>>

\* The thread of a private queue has not begun to exit.
Owned == ~q.deleted /\ \A u \in Thread : th[u].op # "destroy"

Step(t) ==
  \/ Send(t) \/ SendBroadcast(t)
  \/ TryMessage(t) \/ RetryMessage(t) \/ AcceptMessage(t) \/ AcceptBroadcast(t)
  \/ PeekMessage(t) \/ RepeekMessage(t) \/ UnlockQueue(t)
  \/ Sleep(t) \/ WokenUp(t)
  \/ destroy_message_queue(t) \/ DestroyBroadcast(t) \/ DestroyBroadcast2(t)
  \/ queue_dealloc(t) \/ init_message_queue(t)
  \/ HandleInterrupt(t)

Next ==
  \E t \in Thread :
    \/ Step(t)
    \/ \E op \in {"send", "get", "peek"}, id \in 0..q.id, k \in Kind : Request(t, op, id, k)
    \/ (~Public => Owned) /\ Request(t, "destroy", q.id, Idle.kind)
    \/ MessageQueueCreate(t)
    \/ \E u \in Thread : ThreadInterrupt(t, u)

Spec == Init /\ [][Next]_vars

-----------------------------------------------------------------------------
Waiting(t) == th[t].at \in {"wait", "asleep", "woken"}
Waiters == {t \in Thread : Waiting(t)}

TypeOK ==
  /\ q.msgs \in Seq((0..MaxCreates) \X Kind)
  /\ q.n_threads \in 0..Cardinality(Thread)
  /\ q.deleted \in BOOLEAN /\ free \in BOOLEAN
  /\ q.id \in 0..MaxCreates
  /\ {mq_mutex, mutex_owner} \subseteq Thread \cup {NoThread}
  /\ MaxSize # 0 => Len(q.msgs) <= MaxSize

\* Between THREAD_TRY_MESSAGE and THREAD_ACCEPT_MESSAGE, and while it peeks, a
\* thread that takes itself for the owner of the queue holds mq_mutex, and its
\* current cell is in the queue, as long as no interrupt makes a thread leave a
\* request half way.
ScannerOwnsQueue ==
  sent = 0 =>
    \A t \in Thread :
       (th[t].at = "scan" /\ mutex_owner = t) \/ th[t].at = "peek" =>
          mq_mutex = t /\ th[t].cur \in DOMAIN q.msgs

\* The broadcasts come after the unlock, and only some changes are broadcast;
\* still a thread sleeps in wait_on_queue only as long as its queue is there and
\* has no room for its message or no message for its pattern, or a broadcast to
\* it is on its way.
NoMissedWakeup ==
  \A t \in Thread : th[t].at = "asleep" =>
     \/ \E u \in Thread : th[u].at \in
          IF th[t].op = "send" THEN {"accepted", "destroyed", "destroyed2"} ELSE {"sent", "destroyed"}
     \/ /\ ~q.deleted
        /\ th[t].op = "send" => Full(q.msgs)
        /\ th[t].op = "get" => \A i \in DOMAIN q.msgs : q.msgs[i][2] # th[t].kind

\* destroy_message_queue leaves a queue to the threads that wait on it, and says
\* "let the last one really delete it": until the last one has left, the slot is
\* not free and not used for another queue; and unless a waiter was interrupted, a
\* destroyed queue that nobody waits on is on the list of free queues, or somebody
\* is about to put it there or has just taken it.
WaitersKeepQueue ==
  /\ q.n_threads = Cardinality(Waiters)
  /\ Waiters # {} => ~free /\ \A t \in Thread : th[t].at # "init"
  /\ \A t \in Waiters : th[t].id = q.id
  /\ sent = 0 /\ q.deleted /\ Waiters = {} =>
       free \/ \E t \in Thread : th[t].at \in {"dealloc", "init"}

\* A message is only ever in the queue it was sent to, whatever happened while its
\* sender waited for room.
DeliveredToAddressee == \A i \in DOMAIN q.msgs : q.msgs[i][1] = q.id
=============================================================================
