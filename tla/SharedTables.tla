---------------------------- MODULE SharedTables ----------------------------
(***************************************************************************)
(* Shared tables of the multi-threaded engine (emu/usurp.h, which is part  *)
(* of tabletry in emu/slginsts_xsb_i.h, emu/deadlock.c and the end of      *)
(* CompleteSimplifyAndReclaim in emu/complete_local.h).                    *)
(*                                                                         *)
(* The thread that calls a shared table first owns and evaluates it;       *)
(* others that call it wait until it is completed.  A thread whose wait    *)
(* would close a cycle of waiting threads becomes a deadlock leader: it    *)
(* usurps the tables the others own in the cycle, takes them off their     *)
(* stacks and evaluates them itself when it calls them.                    *)
(*                                                                         *)
(* Answers are left out: a table makes its calls in order, and the topmost *)
(* SCC of a thread's completion stack is completed when all its calls are  *)
(* over.  A call is over when the table it calls is completed or on the    *)
(* thread's own stack.                                                     *)
(***************************************************************************)
EXTENDS Integers, Sequences, FiniteSets

CONSTANTS Thread,
          Table,        \* subgoals of shared tabled predicates
          Calls,        \* table -> sequence of the tables it calls
          Nil,          \* no thread (-1), no subgoal (NULL)
          Goals,        \* bound: what a thread is asked for
          MaxQueries    \* bound: queries of one thread

ASSUME SharedTablesAssumption ==
    /\ Nil \notin Thread \cup Table
    /\ \A g \in Table : Calls[g] \in Seq(Table)
    /\ Goals \in [Thread -> SUBSET Table]
    /\ MaxQueries \in Nat

VARIABLES
    sf,                   \* subgoal frames: state, owner (subg_tid), grabbed
    stack,                \* completion stack of each thread: goal, index of the
                          \* leader's frame, next call of the goal
    query, queries,       \* what a thread has been asked for, and how often
    pc,                   \* where a thread is in tabletry or in completion
    producer_sf,          \* the table a thread waits for in tabletry
    completing_mut,       \* the thread that holds the mutex
    waiting_for_tid, waiting_for_subgoal, is_deadlock_leader, reset_thread,
    tmp_next,             \* links of the list of threads to reset
    tmp, sgf,             \* a leader's position in that list, and the subgoal the
                          \* thread there is waited for
    astray,               \* history: a thread has used a usurped table that is not, or
                          \* no longer, its to evaluate (see UseGrabbed, ConsumeUsurped)
    crashed               \* a leader has worked on the stacks of a thread that runs, or
                          \* through a pointer into those of another

evalVars == <<sf, stack, query, queries>>
waitVars == <<waiting_for_tid, waiting_for_subgoal, is_deadlock_leader, reset_thread>>
listVars == <<tmp_next, tmp, sgf>>
flags == <<astray, crashed>>
vars == <<evalVars, pc, producer_sf, completing_mut, waitVars, listVars, flags>>

is_completed(g) == sf[g].state = "completed"
Incomplete(g) == sf[g].state = "incomplete"

-----------------------------------------------------------------------------
(* Evaluation.                                                             *)

FramesOf(t, g) == {i \in DOMAIN stack[t] : stack[t][i].goal = g}
CallsLeft(f) == f.next <= Len(Calls[f.goal])
TopSCC(t) == stack[t][Len(stack[t])].leader .. Len(stack[t])

\* The frame whose call is made next: the youngest of the topmost SCC with calls left.
AtWork(t, i) ==
    /\ i \in TopSCC(t) /\ CallsLeft(stack[t][i])
    /\ \A j \in TopSCC(t) : j > i => ~CallsLeft(stack[t][j])

\* Thread t calls table g next, for the frame i (0: for its query).
NextCall(t, i, g) ==
    IF stack[t] = <<>> THEN i = 0 /\ g = query[t]
    ELSE i \in TopSCC(t) /\ AtWork(t, i) /\ g = Calls[stack[t][i].goal][stack[t][i].next]

\* The call of frame i is over.
Advance(s, i) == IF i = 0 THEN s ELSE [s EXCEPT ![i].next = @ + 1]

\* Mutant: the frame is counted before it is pushed.
Push_level(t, g) == Append(stack[t], [goal |-> g, leader |-> Len(stack[t]), next |-> 1])

Push(t, g) == Append(stack[t], [goal |-> g, leader |-> Len(stack[t]) + 1, next |-> 1])

\* A call of an incomplete table of the thread itself: all frames above it are in its SCC.
adjust_level(s, at) ==
    [j \in DOMAIN s |-> IF j < s[at].leader THEN s[j] ELSE [s[j] EXCEPT !.leader = s[at].leader]]

Ask(t, g) ==
    /\ pc[t] = "run" /\ query[t] = Nil /\ queries[t] < MaxQueries
    /\ g \in Goals[t]
    /\ query' = [query EXCEPT ![t] = g]
    /\ queries' = [queries EXCEPT ![t] = @ + 1]
    /\ UNCHANGED <<sf, stack, pc, producer_sf, completing_mut, waitVars, listVars, flags>>

-----------------------------------------------------------------------------
(* tabletry.                                                               *)

\* The first call of a table, under the lock of the call trie.
NewProducer(t, g) ==
    /\ sf[g].state = "none"
    /\ sf' = [sf EXCEPT ![g] = [state |-> "incomplete", tid |-> t, grabbed |-> FALSE]]
    /\ stack' = [stack EXCEPT ![t] = Push(t, g)]
    /\ UNCHANGED <<query, pc, producer_sf, reset_thread, astray>>

\* Mutant: whoever comes first takes a table that was usurped.
UseGrabbed_any(t, g) ==
    /\ Incomplete(g) /\ sf[g].grabbed
    /\ sf' = [sf EXCEPT ![g].grabbed = FALSE]
    /\ stack' = [stack EXCEPT ![t] = Push(t, g)]
    /\ UNCHANGED <<query, pc, producer_sf, reset_thread, astray>>

\* Mutant: a leader takes only tables that belong to another thread.
UseGrabbed_foreign(t, g) ==
    /\ Incomplete(g) /\ sf[g].grabbed /\ is_deadlock_leader[t] /\ sf[g].tid # t
    /\ sf' = [sf EXCEPT ![g].grabbed = FALSE]
    /\ stack' = [stack EXCEPT ![t] = Push(t, g)]
    /\ UNCHANGED <<query, pc, producer_sf, reset_thread, astray>>

\* A leader comes to a table that was usurped, whoever has usurped it.
UseGrabbed(t, g) ==
    /\ Incomplete(g) /\ sf[g].grabbed /\ is_deadlock_leader[t]
    /\ sf' = [sf EXCEPT ![g].grabbed = FALSE]
    /\ stack' = [stack EXCEPT ![t] = Push(t, g)]
    /\ astray' = (astray \/ sf[g].tid # t)
    /\ UNCHANGED <<query, pc, producer_sf, reset_thread>>

\* The table is being generated by another thread.
MustWait(t, g) ==
    /\ Incomplete(g) /\ ~(sf[g].grabbed /\ is_deadlock_leader[t]) /\ sf[g].tid # t
    /\ producer_sf' = [producer_sf EXCEPT ![t] = g]
    /\ reset_thread' = [reset_thread EXCEPT ![t] = FALSE]
    /\ pc' = [pc EXCEPT ![t] = "lock"]
    /\ UNCHANGED <<sf, stack, query, astray>>

\* Mutant: the levels are left alone.
Consume_unmerged(t, i, g) ==
    /\ Incomplete(g) /\ ~(sf[g].grabbed /\ is_deadlock_leader[t]) /\ sf[g].tid = t
    /\ stack' = [stack EXCEPT ![t] = Advance(@, i)]
    /\ UNCHANGED <<sf, query, pc, producer_sf, reset_thread, astray>>

\* The thread's own table is consumed.
Consume(t, i, g) ==
    /\ Incomplete(g) /\ ~(sf[g].grabbed /\ is_deadlock_leader[t]) /\ sf[g].tid = t
    /\ \E at \in FramesOf(t, g) :
          stack' = [stack EXCEPT ![t] = adjust_level(Advance(@, i), at)]
    /\ UNCHANGED <<sf, query, pc, producer_sf, reset_thread, astray>>

\* The thread has usurped the table but is no leader any more: it consumes a table that
\* nobody evaluates, and goes on.
ConsumeUsurped(t, i, g) ==
    /\ Incomplete(g) /\ ~(sf[g].grabbed /\ is_deadlock_leader[t]) /\ sf[g].tid = t
    /\ FramesOf(t, g) = {}
    /\ stack' = [stack EXCEPT ![t] = Advance(@, i)]
    /\ query' = IF i = 0 THEN [query EXCEPT ![t] = Nil] ELSE query
    /\ astray' = TRUE
    /\ UNCHANGED <<sf, pc, producer_sf, reset_thread>>

\* The answers of a completed table are returned, to the query or to a frame.
UseCompleted(t, i, g) ==
    /\ is_completed(g)
    /\ stack' = [stack EXCEPT ![t] = Advance(@, i)]
    /\ query' = IF i = 0 THEN [query EXCEPT ![t] = Nil] ELSE query
    /\ UNCHANGED <<sf, pc, producer_sf, reset_thread, astray>>

tabletry(t) ==
    /\ pc[t] = "run" /\ query[t] # Nil
    /\ \E i \in 0 .. Len(stack[t]), g \in Table :
          /\ NextCall(t, i, g)
          /\ \/ NewProducer(t, g)
             \/ UseGrabbed(t, g)
             \/ MustWait(t, g)
             \/ Consume(t, i, g)
             \/ ConsumeUsurped(t, i, g)
             \/ UseCompleted(t, i, g)
    /\ UNCHANGED <<queries, completing_mut, waiting_for_tid, waiting_for_subgoal,
                   is_deadlock_leader, listVars, crashed>>

-----------------------------------------------------------------------------
(* Waiting for a table, under completing_mut.                              *)

LockMutex(t) ==
    /\ pc[t] \in {"lock", "woken"} /\ completing_mut = Nil
    /\ completing_mut' = t
    /\ pc' = [pc EXCEPT ![t] = "check"]
    /\ UNCHANGED <<evalVars, producer_sf, waitVars, listVars, flags>>

\* The threads that the search of would_deadlock visits from t1 before it comes to t2.
Chain(t1, t2) ==
    LET Done(W) == \A u \in W : waiting_for_tid[u] \in (Thread \ {t2}) => waiting_for_tid[u] \in W
    IN  {u \in Thread \ {t2} :
            t1 # t2 /\ \A W \in SUBSET Thread : t1 \in W /\ Done(W) => u \in W}

would_deadlock(t1, t2) == t1 = t2 \/ \E u \in Chain(t1, t2) : waiting_for_tid[u] = t2
SearchEnds(t1, t2) == would_deadlock(t1, t2) \/ \E u \in Chain(t1, t2) : waiting_for_tid[u] = Nil

\* The table has been completed.  A thread that was reset makes its call again, which
\* now is the call of the table it was reset to.
LeaveWait(t) ==
    /\ pc[t] = "check" /\ is_completed(producer_sf[t])
    /\ waiting_for_tid' = [waiting_for_tid EXCEPT ![t] = Nil]
    /\ waiting_for_subgoal' = [waiting_for_subgoal EXCEPT ![t] = Nil]
    /\ completing_mut' = Nil
    /\ pc' = [pc EXCEPT ![t] = "run"]
    /\ IF reset_thread[t] THEN UNCHANGED <<stack, query>>
       ELSE \E i \in 0 .. Len(stack[t]) :
               /\ NextCall(t, i, producer_sf[t])
               /\ stack' = [stack EXCEPT ![t] = Advance(@, i)]
               /\ query' = IF i = 0 THEN [query EXCEPT ![t] = Nil] ELSE query
    /\ UNCHANGED <<sf, queries, producer_sf, is_deadlock_leader, reset_thread, listVars, flags>>

\* Mutant: the wait is registered for the table but not for its thread.
Sleep_unlinked(t) ==
    LET g == producer_sf[t]
    IN  /\ pc[t] = "check" /\ ~is_completed(g)
        /\ SearchEnds(sf[g].tid, t) /\ ~would_deadlock(sf[g].tid, t)
        /\ waiting_for_subgoal' = [waiting_for_subgoal EXCEPT ![t] = g]
        /\ is_deadlock_leader' = [is_deadlock_leader EXCEPT ![t] = FALSE]
        /\ completing_mut' = Nil
        /\ pc' = [pc EXCEPT ![t] = "sleep"]
        /\ UNCHANGED <<evalVars, producer_sf, waiting_for_tid, reset_thread, listVars, flags>>

Sleep(t) ==
    LET g == producer_sf[t]
    IN  /\ pc[t] = "check" /\ ~is_completed(g)
        /\ SearchEnds(sf[g].tid, t) /\ ~would_deadlock(sf[g].tid, t)
        /\ waiting_for_subgoal' = [waiting_for_subgoal EXCEPT ![t] = g]
        /\ waiting_for_tid' = [waiting_for_tid EXCEPT ![t] = sf[g].tid]
        /\ is_deadlock_leader' = [is_deadlock_leader EXCEPT ![t] = FALSE]
        /\ completing_mut' = Nil
        /\ pc' = [pc EXCEPT ![t] = "sleep"]
        /\ UNCHANGED <<evalVars, producer_sf, reset_thread, listVars, flags>>

SpuriousWakeup(t) ==
    /\ pc[t] = "sleep"
    /\ pc' = [pc EXCEPT ![t] = "woken"]
    /\ UNCHANGED <<evalVars, producer_sf, completing_mut, waitVars, listVars, flags>>

-----------------------------------------------------------------------------
(* Usurping: reset_other_threads.                                          *)

\* A thread is in the wait of tabletry, on the way into it or on the way out of it.
Waiting(u) == pc[u] \in {"lock", "sleep", "woken", "check"}

\* Mutant: the leader counts as waiting, as it would if it were registered before the search.
LinkCycle_waiting(t) ==
    LET g == producer_sf[t]
        C == Chain(sf[g].tid, t)
    IN  /\ pc[t] = "check" /\ ~is_completed(g) /\ would_deadlock(sf[g].tid, t)
        /\ tmp_next' = [u \in Thread |-> IF u \in C THEN waiting_for_tid[u] ELSE tmp_next[u]]
        /\ waiting_for_tid' = [u \in Thread |-> IF u \in C THEN Nil ELSE
                                                IF u = t THEN sf[g].tid ELSE waiting_for_tid[u]]
        /\ tmp' = [tmp EXCEPT ![t] = sf[g].tid]
        /\ sgf' = [sgf EXCEPT ![t] = g]
        /\ completing_mut' = Nil
        /\ pc' = [pc EXCEPT ![t] = "reset"]
        /\ UNCHANGED <<evalVars, producer_sf, waiting_for_subgoal, is_deadlock_leader, reset_thread, flags>>

\* The threads of the cycle are linked and taken out of the search; then the mutex is
\* released.
LinkCycle(t) ==
    LET g == producer_sf[t]
        C == Chain(sf[g].tid, t)
    IN  /\ pc[t] = "check" /\ ~is_completed(g) /\ would_deadlock(sf[g].tid, t)
        /\ tmp_next' = [u \in Thread |-> IF u \in C THEN waiting_for_tid[u] ELSE tmp_next[u]]
        /\ waiting_for_tid' = [u \in Thread |-> IF u \in C THEN Nil ELSE waiting_for_tid[u]]
        /\ tmp' = [tmp EXCEPT ![t] = sf[g].tid]
        /\ sgf' = [sgf EXCEPT ![t] = g]
        /\ completing_mut' = Nil
        /\ pc' = [pc EXCEPT ![t] = "reset"]
        /\ UNCHANGED <<evalVars, producer_sf, waiting_for_subgoal, is_deadlock_leader, reset_thread, flags>>

\* What reset_thread takes for granted when it is to free table s of thread u.
Usurpable(u, s) == u # Nil /\ s # Nil /\ (sf[s].tid = u => Waiting(u) /\ FramesOf(u, s) # {})

\* reset_thread: the tables of thread u from the leader of s upwards are grabbed for the
\* leader t and u is taken back to the call of the first of them; nothing is done if
\* another leader has grabbed s.
ResetThread(t) ==
    LET u == tmp[t]
        s == sgf[t]
        mine == sf[s].tid = u
        from == stack[u][CHOOSE i \in FramesOf(u, s) : TRUE].leader
        taken == {stack[u][i].goal : i \in from .. Len(stack[u])}
    IN  /\ pc[t] = "reset" /\ u # t
        /\ Usurpable(u, s)
        /\ \/ /\ mine
              /\ sf' = [g \in Table |->
                       IF g \in taken /\ Incomplete(g)
                       THEN [sf[g] EXCEPT !.tid = t, !.grabbed = TRUE] ELSE sf[g]]
              /\ stack' = [stack EXCEPT ![u] = SubSeq(@, 1, from - 1)]
              /\ reset_thread' = [reset_thread EXCEPT ![u] = TRUE]
              /\ waiting_for_subgoal' = [waiting_for_subgoal EXCEPT ![u] = stack[u][from].goal]
           \/ /\ ~mine
              /\ UNCHANGED <<sf, stack, reset_thread, waiting_for_subgoal>>
        /\ waiting_for_tid' = [waiting_for_tid EXCEPT ![u] = t]
        /\ sgf' = [sgf EXCEPT ![t] = waiting_for_subgoal[u]]
        /\ tmp' = [tmp EXCEPT ![t] = tmp_next[u]]
        /\ UNCHANGED <<query, queries, pc, producer_sf, completing_mut, is_deadlock_leader, tmp_next, flags>>

\* There is no thread or no table, the frame of the table is on the stack of another thread,
\* or the thread runs and its stacks are cut under it.
ResetRunning(t) ==
    /\ pc[t] = "reset" /\ tmp[t] # t
    /\ ~Usurpable(tmp[t], sgf[t])
    /\ crashed' = TRUE
    /\ UNCHANGED <<evalVars, pc, producer_sf, completing_mut, waitVars, listVars, astray>>

\* The leader goes on with the table it called.
TakeOver(t) ==
    LET g == producer_sf[t]
    IN  /\ pc[t] = "reset" /\ tmp[t] = t
        /\ is_deadlock_leader' = [is_deadlock_leader EXCEPT ![t] = TRUE]
        /\ sf' = [sf EXCEPT ![g].grabbed = FALSE]
        /\ stack' = [stack EXCEPT ![t] = Push(t, g)]
        /\ pc' = [pc EXCEPT ![t] = "run"]
        /\ UNCHANGED <<query, queries, producer_sf, completing_mut, waiting_for_tid,
                       waiting_for_subgoal, reset_thread, listVars, flags>>

-----------------------------------------------------------------------------
(* Completion.                                                             *)

\* CompleteSimplifyAndReclaim marks the tables of the topmost SCC, the leader's first,
\* without the mutex.
MarkCompleted(t) ==
    /\ pc[t] \in {"run", "mark"} /\ stack[t] # <<>>
    /\ \A i \in TopSCC(t) : ~CallsLeft(stack[t][i])
    /\ LET left == {i \in TopSCC(t) : ~is_completed(stack[t][i].goal)}
       IN  \E i \in TopSCC(t) :
              /\ left # {} => i \in left /\ \A j \in left : i <= j
              /\ sf' = [sf EXCEPT ![stack[t][i].goal].state = "completed"]
              /\ pc' = [pc EXCEPT ![t] = IF left \subseteq {i} THEN "wake" ELSE "mark"]
    /\ UNCHANGED <<stack, query, queries, producer_sf, completing_mut, waitVars, listVars, flags>>

\* Mutant: only the threads that wait for the leader's table are woken.
WakeWaiters_leader(t) ==
    LET top == stack[t][stack[t][Len(stack[t])].leader].goal
    IN  /\ pc[t] = "wake" /\ completing_mut = Nil
        /\ pc' = [u \in Thread |-> IF u = t THEN "run"
                                   ELSE IF pc[u] = "sleep" /\ producer_sf[u] = top THEN "woken"
                                   ELSE pc[u]]
        /\ stack' = [stack EXCEPT ![t] = SubSeq(@, 1, @[Len(@)].leader - 1)]
        /\ UNCHANGED <<sf, query, queries, producer_sf, completing_mut, waitVars, listVars, flags>>

\* It then takes the mutex and wakes the threads that wait for them.
WakeWaiters(t) ==
    LET goals == {stack[t][i].goal : i \in TopSCC(t)}
    IN  /\ pc[t] = "wake" /\ completing_mut = Nil
        /\ pc' = [u \in Thread |-> IF u = t THEN "run"
                                   ELSE IF pc[u] = "sleep" /\ producer_sf[u] \in goals THEN "woken"
                                   ELSE pc[u]]
        /\ stack' = [stack EXCEPT ![t] = SubSeq(@, 1, @[Len(@)].leader - 1)]
        /\ UNCHANGED <<sf, query, queries, producer_sf, completing_mut, waitVars, listVars, flags>>

-----------------------------------------------------------------------------
Init ==
    /\ sf = [g \in Table |-> [state |-> "none", tid |-> Nil, grabbed |-> FALSE]]
    /\ stack = [t \in Thread |-> <<>>]
    /\ query = [t \in Thread |-> Nil]
    /\ queries = [t \in Thread |-> 0]
    /\ pc = [t \in Thread |-> "run"]
    /\ producer_sf = [t \in Thread |-> Nil]
    /\ completing_mut = Nil
    /\ waiting_for_tid = [t \in Thread |-> Nil]
    /\ waiting_for_subgoal = [t \in Thread |-> Nil]
    /\ is_deadlock_leader = [t \in Thread |-> FALSE]
    /\ reset_thread = [t \in Thread |-> FALSE]
    /\ tmp_next = [t \in Thread |-> Nil]
    /\ tmp = [t \in Thread |-> Nil]
    /\ sgf = [t \in Thread |-> Nil]
    /\ astray = FALSE /\ crashed = FALSE

Step(t) ==
    /\ ~crashed
    /\ \/ tabletry(t)
       \/ LeaveWait(t) \/ Sleep(t)
       \/ LinkCycle(t) \/ ResetThread(t) \/ ResetRunning(t) \/ TakeOver(t)
       \/ MarkCompleted(t)

\* Steps that take the mutex.
Locking(t) == ~crashed /\ (LockMutex(t) \/ WakeWaiters(t))

Others(t) == ~crashed /\ (SpuriousWakeup(t) \/ \E g \in Table : Ask(t, g))

Next == \E t \in Thread : Step(t) \/ Locking(t) \/ Others(t)

\* Threads are scheduled fairly and a mutex that is free again and again is obtained;
\* nothing is assumed of spurious wake-ups.
Spec == Init /\ [][Next]_vars /\ \A t \in Thread : WF_vars(Step(t)) /\ SF_vars(Locking(t))
-----------------------------------------------------------------------------
(* Properties.                                                             *)

\* Type invariant: threads, subgoal frames and completion stacks.
TypeOK ==
    /\ sf \in [Table -> [state : {"none", "incomplete", "completed"}, tid : Thread \cup {Nil},
                         grabbed : BOOLEAN]]
    /\ \A t \in Thread : \A i \in DOMAIN stack[t] :
          /\ stack[t][i].goal \in Table /\ stack[t][i].leader \in 1 .. i
          /\ stack[t][i].next \in 1 .. Len(Calls[stack[t][i].goal]) + 1
    /\ query \in [Thread -> Table \cup {Nil}] /\ queries \in [Thread -> 0 .. MaxQueries]
    /\ pc \in [Thread -> {"run", "lock", "check", "sleep", "woken", "reset", "mark", "wake"}]
    /\ producer_sf \in [Thread -> Table \cup {Nil}]
    /\ completing_mut \in Thread \cup {Nil}
    /\ {waiting_for_tid[t] : t \in Thread} \cup {tmp_next[t] : t \in Thread}
          \cup {tmp[t] : t \in Thread} \subseteq Thread \cup {Nil}
    /\ {waiting_for_subgoal[t] : t \in Thread} \cup {sgf[t] : t \in Thread} \subseteq Table \cup {Nil}
    /\ \A t \in Thread : {is_deadlock_leader[t], reset_thread[t]} \subseteq BOOLEAN

\* An incomplete table has one producer: it is on the completion stack of the thread that
\* owns it and on no other, or it has been usurped and is on none.
OneProducer ==
    \A g \in Table : Incomplete(g) =>
        LET on == {p \in Thread \X (1 .. Cardinality(Table)) : p[2] \in FramesOf(p[1], g)}
        IN  IF sf[g].grabbed THEN on = {} ELSE Cardinality(on) = 1 /\ \A p \in on : p[1] = sf[g].tid

\* The search for a cycle, which is made with the mutex held, comes to an end.
SearchTerminates ==
    \A t \in Thread : pc[t] = "check" /\ Incomplete(producer_sf[t]) =>
        SearchEnds(sf[producer_sf[t]].tid, t)

\* A table is not completed before the tables it calls are, whoever has evaluated them,
\* but for those that its thread is marking just now.
Marking(g) == \E u \in Thread : pc[u] = "mark" /\ \E i \in TopSCC(u) : stack[u][i].goal = g
CompletedWithCallees ==
    ~astray => \A g \in Table : is_completed(g) =>
        \A i \in DOMAIN Calls[g] : is_completed(Calls[g][i]) \/ Marking(Calls[g][i])

\* Every deadlock is seen: threads never sleep in a ring, each on a table that another one
\* of them is to complete, whatever has been usurped since they fell asleep.
Asleep(t) == pc[t] = "sleep" /\ Incomplete(producer_sf[t])
NoSleepingRing ==
    \A W \in SUBSET Thread \ {{}} : \E t \in W : Asleep(t) => sf[producer_sf[t]].tid \notin W

\* No wake-up is lost: a thread that sleeps on a completed table is about to be woken by
\* the thread that has marked it.
NoLostWakeup ==
    \A t \in Thread : pc[t] = "sleep" /\ is_completed(producer_sf[t]) =>
        \E u \in Thread : pc[u] \in {"mark", "wake"} /\ FramesOf(u, producer_sf[t]) # {}

\* Every call of a shared table is answered: threads that wait for each other's tables do
\* not wait for ever, until a usurped table has gone astray or a leader has crashed.
QueriesAnswered == \A t \in Thread : query[t] # Nil ~> query[t] = Nil \/ astray \/ crashed
=============================================================================
