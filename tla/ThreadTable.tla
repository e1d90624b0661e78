---------------------------- MODULE ThreadTable -----------------------------
(***************************************************************************)
(* The thread table of the multi-threaded engine (thread_xsb.c): th_vec     *)
(* with its list of threads and its list of free slots, and the requests    *)
(* that create, exit, join and detach threads.                              *)
(*                                                                         *)
(* One action is one stretch of code under th_mutex, one unlocked access,   *)
(* or one call of the pthread library; th_delete is a step where th_mutex   *)
(* is held and a step for each of its statements where it is not.           *)
(* Contexts, stacks and the thread's private message queues are not         *)
(* represented, nor is the count of threads in flags[NUM_THREADS].          *)
(***************************************************************************)
EXTENDS Integers, Sequences, FiniteSets

CONSTANTS
  Thread,        \* the threads of a run, each created at most once
  Main,          \* the thread that is there from the start
  Past,          \* a thread that was created, exited and joined before, or NoThread
  NoThread,      \* no thread
  MaxThreads,    \* max_threads_glc, the length of th_vec
  Incarnations,  \* INC_MASK_RIGHT + 1
  MaxInUse,      \* bound: slots the threads use at the same time
  Detaching      \* whether threads are created detached or detached later

ASSUME ThreadTableAssumption ==
  /\ Main \in Thread /\ NoThread \notin Thread
  /\ Past \in (Thread \ {Main}) \cup {NoThread}
  /\ Past # NoThread => MaxThreads > 2
  /\ MaxThreads \in Nat \ {0} /\ Incarnations \in Nat \ {0}
  /\ MaxInUse \in 1..MaxThreads
  /\ Detaching \in BOOLEAN

Slot == 0..(MaxThreads - 1)
NULL == -1

VARIABLES
  th_vec,           \* [next, prev, incarn, valid, detached, exited, tid, ctxt]
  th_first_free, th_last_free, th_first_thread,
  thr,              \* [os, pj, id]: a thread, what pthreads knows of it, its id
  req,              \* the request a thread is in the middle of
  disturbed         \* history: the table was used in a way the code does not guard
                    \* against (see th_new, th_delete, JoinCall and DetachCall)

heads == <<th_first_free, th_last_free, th_first_thread>>
table == <<th_vec, heads>>
vars == <<table, thr, req, disturbed>>

NoReq == [at |-> "idle"]

Used == {0} \cup (IF Past = NoThread THEN {} ELSE {1})
FirstUser(s) == CASE s = 0 -> Main [] s = 1 -> Past [] OTHER -> NoThread
FirstId(t) == CASE t = Main -> <<0, 0>> [] t = Past -> <<1, 0>> [] OTHER -> <<NULL, 0>>

\* init_thread_table, and th_new for the main thread (init_system_threads).  Past
\* had slot 1, which is now the last free one.
Init ==
  /\ th_vec = [s \in Slot |->
       [next |-> CASE s \in Used -> NULL
                   [] s = MaxThreads - 1 -> IF Past = NoThread THEN NULL ELSE 1
                   [] OTHER -> s + 1,
        prev |-> IF s # 0 /\ s \in Used THEN 0 ELSE NULL,
        incarn |-> IF s \in Used THEN 0 ELSE Incarnations - 1,
        valid |-> s = 0, detached |-> FALSE, exited |-> s # 0 /\ s \in Used,
        tid |-> FirstUser(s),
        ctxt |-> IF s = 0 THEN Main ELSE NoThread]]
  /\ th_first_free = IF MaxThreads = 1 THEN NULL ELSE Cardinality(Used)
  /\ th_last_free = IF Past = NoThread THEN MaxThreads - 1 ELSE 1
  /\ th_first_thread = 0
  /\ thr = [t \in Thread |-> [os |-> CASE t = Main -> "running" [] t = Past -> "ended" [] OTHER -> "none",
                              pj |-> IF t = Past THEN "joined" ELSE "joinable",
                              id |-> FirstId(t)]]
  /\ req = [t \in Thread |-> NoReq]
  /\ disturbed = FALSE

-----------------------------------------------------------------------------
(* The two lists *)

\* The slots on the list that begins with s, in order; a list that is longer
\* than the table has a cycle.
ListFrom(vec, s) ==
  LET L[n \in 0..(MaxThreads + 1)] ==
        [p \in Slot \cup {NULL} |->
           IF n = 0 \/ p = NULL THEN <<>> ELSE <<p>> \o L[n - 1][vec[p].next]]
  IN L[MaxThreads + 1][s]

Threads == ListFrom(th_vec, th_first_thread)
FreeSlots == ListFrom(th_vec, th_first_free)
On(l) == {l[i] : i \in DOMAIN l}

\* The thread after which th_new inserts slot pos: the first whose successor is not
\* above pos.
Stops(pos, i) == ~(pos < th_vec[Threads[i]].next)
InsertAfter(pos) ==
  Threads[CHOOSE i \in DOMAIN Threads : Stops(pos, i) /\ \A j \in 1..(i - 1) : ~Stops(pos, j)]

\* A thread is in the middle of a th_delete without th_mutex.
DeleteStages == {"back", "head", "test", "only", "append", "tail", "end", "invalid"}
InDelete == \E u \in Thread : req[u].at \in DeleteStages

\* Mutant: the incarnation is not masked.
UnmaskedIncarn(n) == n + 1

NextIncarn(n) == (n + 1) % Incarnations

\* Takes the first free slot for thread c and puts it on the list of threads.  On a
\* list that has become a cycle the search for its place may never end.
th_new(c, is_detached) ==
  LET pos == th_first_free
      atHead == th_first_thread = NULL \/ th_first_thread > pos
      p == IF atHead THEN NULL ELSE InsertAfter(pos)
      n == IF atHead THEN th_first_thread ELSE th_vec[p].next
      linked == [s \in Slot |-> [th_vec[s] EXCEPT !.next = IF s = p THEN pos ELSE @,
                                                  !.prev = IF s = n THEN pos ELSE @]]
  IN
  /\ atHead \/ \E i \in DOMAIN Threads : Stops(pos, i)
  /\ th_first_free' = th_vec[pos].next
  /\ th_first_thread' = IF atHead THEN pos ELSE th_first_thread
  /\ th_vec' = [linked EXCEPT
       ![pos] = [next |-> n, prev |-> p, incarn |-> NextIncarn(th_vec[pos].incarn),
                 valid |-> FALSE, detached |-> is_detached, exited |-> FALSE,
                 tid |-> th_vec[pos].tid, ctxt |-> c]]
  /\ UNCHANGED th_last_free
  /\ disturbed' = (disturbed \/ InDelete)

\* Mutant: the successor keeps its prev_entry.
HalfUnlinked(i, vec) ==
  [s \in Slot |-> [vec[s] EXCEPT !.next = IF s = vec[i].prev THEN vec[i].next ELSE @,
                                 !.valid = IF s = i THEN FALSE ELSE @]]

Unlinked(i, vec) ==
  [s \in Slot |-> [vec[s] EXCEPT !.next = IF s = vec[i].prev THEN vec[i].next ELSE @,
                                 !.prev = IF s = vec[i].next THEN vec[i].prev ELSE @,
                                 !.valid = IF s = i THEN FALSE ELSE @]]

\* Unlinks slot i of vec from the list of threads and appends it to the list of
\* free slots, under th_mutex.
th_delete(i, vec) ==
  LET unlinked == Unlinked(i, vec) IN
  /\ th_first_thread' = IF th_first_thread = i THEN vec[i].next ELSE th_first_thread
  /\ th_last_free' = i
  /\ \/ /\ th_first_free = NULL
        /\ th_first_free' = i
        /\ th_vec' = unlinked
     \/ /\ th_first_free # NULL
        /\ UNCHANGED th_first_free
        /\ th_vec' = [s \in Slot |->
             [unlinked[s] EXCEPT !.next = CASE s = i -> NULL
                                            [] s = th_last_free /\ s # i -> i
                                            [] OTHER -> @]]
  /\ disturbed' = (disturbed \/ InDelete)

\* Mutant: the incarnation of the id is not compared.
AnyIncarnation(id) == IF th_vec[id[1]].valid THEN th_vec[id[1]].tid ELSE NoThread

\* The pthread of an id, or none if the slot is not valid or has another
\* incarnation.
th_get(id) ==
  IF th_vec[id[1]].incarn = id[2] /\ th_vec[id[1]].valid THEN th_vec[id[1]].tid ELSE NoThread

-----------------------------------------------------------------------------
(* Creation *)

Idle(t) == thr[t].os = "running" /\ req[t] = NoReq

\* xsb_thread_setup.  With the list of free slots empty it is a resource error.
xsb_thread_setup(t, c, is_detached) ==
  /\ Idle(t)
  /\ thr[c].os = "none"
  /\ Len(Threads) < MaxInUse
  /\ is_detached => Detaching
  /\ th_first_free # NULL
  /\ th_new(c, is_detached)
  /\ thr' = [thr EXCEPT ![c] = [os |-> "setup", pj |-> IF is_detached THEN "detached" ELSE "joinable",
                                id |-> <<th_first_free, th_vec'[th_first_free].incarn>>]]
  /\ req' = [req EXCEPT ![t] = [at |-> "create", child |-> c]]

\* pthread_create, in xsb_thread_create_1.
PthreadCreate(t) ==
  /\ req[t].at = "create"
  /\ LET c == req[t].child IN
     /\ thr' = [thr EXCEPT ![c].os = "started"]
     /\ th_vec' = [th_vec EXCEPT ![thr[c].id[1]].tid = c]
     /\ req' = [req EXCEPT ![t].at = "created"]
  /\ UNCHANGED <<heads, disturbed>>

PthreadCreateFails(t) ==
  /\ req[t].at = "create"
  /\ req' = [req EXCEPT ![t].at = "failed"]
  /\ UNCHANGED <<table, thr, disturbed>>

\* The creator's th_vec[pos].valid = TRUE, without th_mutex, whether or not there is
\* a thread.
SetValid(t) ==
  /\ req[t].at \in {"created", "failed"}
  /\ th_vec' = [th_vec EXCEPT ![thr[req[t].child].id[1]].valid = TRUE]
  /\ req' = [req EXCEPT ![t] = IF req[t].at = "created" THEN NoReq ELSE [@ EXCEPT !.at = "delete"]]
  /\ UNCHANGED <<heads, thr, disturbed>>

\* If there is none the creator gives the slot back by th_delete without th_mutex:
\* the first statement, and those after it.
DeleteBegins(t) ==
  /\ req[t].at = "delete"
  /\ LET c == req[t].child
         i == thr[c].id[1]
     IN
     /\ th_vec' = [s \in Slot |->
          [th_vec[s] EXCEPT !.next = IF s = th_vec[i].prev THEN th_vec[i].next ELSE @]]
     /\ thr' = [thr EXCEPT ![c] = [os |-> "ended", pj |-> "joined", id |-> <<NULL, 0>>]]
     /\ req' = [req EXCEPT ![t] = [at |-> "back", slot |-> i]]
  /\ disturbed' = (disturbed \/ InDelete)
  /\ UNCHANGED heads

DeleteGoesOn(t) ==
  /\ req[t].at \in DeleteStages
  /\ LET i == req[t].slot
         at == req[t].at
         next == CASE at = "back" -> "head" [] at = "head" -> "test" [] at = "append" -> "tail"
                   [] at = "test" -> IF th_first_free = NULL THEN "only" ELSE "append"
                   [] at = "tail" -> "end" [] OTHER -> "invalid"
     IN
     /\ th_vec' = CASE at = "back" -> [s \in Slot |->
                         [th_vec[s] EXCEPT !.prev = IF s = th_vec[i].next THEN th_vec[i].prev ELSE @]]
                    [] at = "append" -> [th_vec EXCEPT ![th_last_free].next = i]
                    [] at = "end" -> [th_vec EXCEPT ![th_last_free].next = NULL]
                    [] at = "invalid" -> [th_vec EXCEPT ![i].valid = FALSE]
                    [] OTHER -> th_vec
     /\ th_first_thread' = IF at = "head" /\ th_first_thread = i THEN th_vec[i].next ELSE th_first_thread
     /\ th_first_free' = IF at = "only" THEN i ELSE th_first_free
     /\ th_last_free' = IF at \in {"only", "tail"} THEN i ELSE th_last_free
     /\ req' = [req EXCEPT ![t] = IF at = "invalid" THEN NoReq ELSE [@ EXCEPT !.at = next]]
  /\ UNCHANGED <<thr, disturbed>>

xsb_thread_run(c) ==
  /\ thr[c].os = "started"
  /\ th_vec' = [th_vec EXCEPT ![thr[c].id[1]].tid = c, ![thr[c].id[1]].valid = TRUE]
  /\ thr' = [thr EXCEPT ![c].os = "running"]
  /\ UNCHANGED <<heads, req, disturbed>>

-----------------------------------------------------------------------------
(* XSB_THREAD_EXIT *)

\* Mutant: every thread frees its slot.
AlwaysFreed(i) == TRUE

FreedAtExit(i) == th_vec[i].detached

ThreadExit(t) ==
  /\ Idle(t) /\ t # Main
  /\ LET i == thr[t].id[1]
         vec == [th_vec EXCEPT ![i].ctxt = NoThread]
     IN
     \/ /\ FreedAtExit(i)
        /\ th_delete(i, vec)
     \/ /\ ~FreedAtExit(i)
        /\ th_vec' = [vec EXCEPT ![i].exited = TRUE]
        /\ UNCHANGED <<heads, disturbed>>
  /\ thr' = [thr EXCEPT ![t].os = "exiting"]
  /\ UNCHANGED req

\* Outside th_mutex: pthread_exit.
PthreadExit(t) ==
  /\ thr[t].os = "exiting"
  /\ thr' = [thr EXCEPT ![t].os = "ended"]
  /\ UNCHANGED <<table, req, disturbed>>

-----------------------------------------------------------------------------
(* XSB_THREAD_JOIN and XSB_THREAD_DETACH *)

Ids == {thr[u].id : u \in {v \in Thread : thr[v].id[1] # NULL}}

Lookup(t, id, op) ==
  /\ Idle(t)
  /\ th_get(id) # NoThread       \* otherwise an existence error
  /\ req' = [req EXCEPT ![t] = [at |-> op, id |-> id, tid |-> th_get(id)]]
  /\ UNCHANGED <<table, thr, disturbed>>

JoinLookup(t, id) == Lookup(t, id, "join")
DetachLookup(t, id) == Detaching /\ Lookup(t, id, "detach")

\* pthread_join would wait for a thread that waits for the caller, or for the caller.
Deadlocks(t, u) == u = t \/ (req[u].at = "joinwait" /\ req[u].tid = t)

\* pthread_join begins.  A thread that is detached, or is being joined, cannot be
\* joined; EDEADLK is not looked at, as if the thread had been joined.
JoinCall(t) ==
  /\ req[t].at = "join"
  /\ LET u == req[t].tid IN
     \/ /\ thr[u].pj = "joinable" /\ ~Deadlocks(t, u)
        /\ thr' = [thr EXCEPT ![u].pj = "joining"]
        /\ req' = [req EXCEPT ![t].at = "joinwait"]
        /\ UNCHANGED disturbed
     \/ /\ thr[u].pj # "joinable" /\ (Deadlocks(t, u) => thr[u].pj = "detached")
        /\ req' = [req EXCEPT ![t] = NoReq]
        /\ UNCHANGED <<thr, disturbed>>
     \/ /\ Deadlocks(t, u) /\ thr[u].pj # "detached"
        /\ req' = [req EXCEPT ![t].at = "joined"]
        /\ disturbed' = TRUE
        /\ UNCHANGED thr
  /\ UNCHANGED table

\* pthread_join returns.
JoinReturns(t) ==
  /\ req[t].at = "joinwait"
  /\ thr[req[t].tid].os = "ended"
  /\ thr' = [thr EXCEPT ![req[t].tid].pj = "joined"]
  /\ req' = [req EXCEPT ![t].at = "joined"]
  /\ UNCHANGED <<table, disturbed>>

JoinDelete(t) ==
  /\ req[t].at = "joined"
  /\ th_delete(req[t].id[1], th_vec)
  /\ req' = [req EXCEPT ![t] = NoReq]
  /\ UNCHANGED thr

\* pthread_detach.  A thread that is detached or joined already cannot be detached;
\* for one that is being joined nothing is done and no error reported.
DetachCall(t) ==
  /\ req[t].at = "detach"
  /\ LET u == req[t].tid IN
     \/ /\ thr[u].pj = "joinable"
        /\ thr' = [thr EXCEPT ![u].pj = "detached"]
        /\ req' = [req EXCEPT ![t].at = "detached"]
        /\ UNCHANGED disturbed
     \/ /\ thr[u].pj \in {"detached", "joined"}
        /\ req' = [req EXCEPT ![t] = NoReq]
        /\ UNCHANGED <<thr, disturbed>>
     \/ /\ thr[u].pj = "joining"
        /\ req' = [req EXCEPT ![t].at = "detached"]
        /\ disturbed' = TRUE
        /\ UNCHANGED thr
  /\ UNCHANGED table

\* Mutants: thread_detach does not look at exited.
AlwaysExited(i) == TRUE
NeverExited(i) == FALSE

thread_exited(i) == th_vec[i].exited

DetachFinish(t) ==
  /\ req[t].at = "detached"
  /\ LET i == req[t].id[1] IN
     \/ /\ thread_exited(i)
        /\ th_delete(i, th_vec)
     \/ /\ ~thread_exited(i)
        /\ th_vec' = [th_vec EXCEPT ![i].detached = TRUE]
        /\ UNCHANGED <<heads, disturbed>>
  /\ req' = [req EXCEPT ![t] = NoReq]
  /\ UNCHANGED thr

-----------------------------------------------------------------------------
Step(t) ==
  \/ PthreadCreate(t) \/ PthreadCreateFails(t) \/ SetValid(t) \/ xsb_thread_run(t)
  \/ DeleteBegins(t) \/ DeleteGoesOn(t)
  \/ PthreadExit(t)
  \/ JoinCall(t) \/ JoinReturns(t) \/ JoinDelete(t)
  \/ DetachCall(t) \/ DetachFinish(t)

Next ==
  \/ \E t, c \in Thread : \E d \in BOOLEAN : xsb_thread_setup(t, c, d)
  \/ \E t \in Thread : Step(t) \/ ThreadExit(t)
  \/ \E t \in Thread : \E id \in Ids : JoinLookup(t, id) \/ DetachLookup(t, id)

Spec == Init /\ [][Next]_vars

-----------------------------------------------------------------------------
TypeOK ==
  /\ \A s \in Slot :
       /\ th_vec[s].next \in Slot \cup {NULL} /\ th_vec[s].prev \in Slot \cup {NULL}
       /\ th_vec[s].incarn \in 0..(Incarnations - 1)
       /\ th_vec[s].tid \in Thread \cup {NoThread}
  /\ {th_first_free, th_last_free, th_first_thread} \subseteq Slot \cup {NULL}
  /\ \A t \in Thread : thr[t].id \in (Slot \cup {NULL}) \X (0..(Incarnations - 1))

\* th_new and th_delete move slots between two lists that share next_entry: between
\* the calls every slot is on exactly one of them, once, and prev_entry mirrors
\* next_entry.
SlotsOnOneList ==
  ~disturbed /\ ~InDelete =>
    /\ Len(Threads) + Len(FreeSlots) = MaxThreads
    /\ On(Threads) \cup On(FreeSlots) = Slot
    /\ FreeSlots # <<>> => FreeSlots[Len(FreeSlots)] = th_last_free
    /\ \A i \in DOMAIN Threads :
         th_vec[Threads[i]].prev = IF i = 1 THEN NULL ELSE Threads[i - 1]

\* A slot stays with its thread until the thread has exited: no other thread is
\* given it (th_new) and nobody frees it (th_delete) before.
LiveThreadsKeepSlot ==
  ~disturbed => \A t \in Thread : thr[t].os \in {"setup", "started", "running"} =>
     LET s == thr[t].id[1] IN
     /\ th_vec[s].incarn = thr[t].id[2]
     /\ th_vec[s].ctxt = t
     /\ InDelete \/ s \in On(Threads)

\* An exited thread that nobody detaches waits in the table to be joined.
JoinableWaits ==
  ~disturbed => \A t \in Thread : thr[t].os = "ended" /\ thr[t].pj \in {"joinable", "joining"} =>
     th_get(thr[t].id) = t

\* The id of a thread that has been started never leads to another thread, even
\* when its slot is in use again (th_get).
IdsNotConfused ==
  ~disturbed => \A t \in Thread : thr[t].os \notin {"none", "setup"} /\ thr[t].id[1] # NULL
                    => th_get(thr[t].id) \in {t, NoThread}

\* Exit and detach race for the last use of a slot; whichever comes second frees
\* it, so that no detached thread leaves its slot behind.
DetachedReclaimed ==
  ~disturbed /\ ~InDelete => \A t \in Thread :
     /\ thr[t].os = "ended" /\ thr[t].pj = "detached"
     /\ \A u \in Thread : req[u].at = "detached" => req[u].id # thr[t].id
     => LET s == thr[t].id[1]
        IN th_vec[s].incarn # thr[t].id[2] \/ s \in On(FreeSlots)
=============================================================================
