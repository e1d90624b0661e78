# A TLA+ verification project for the XSB engine

XSB is a tabled logic programming system. Its own core logic is the C engine in
`src/XSB/emu`: a WAM emulator extended with SLG resolution (tabling), a
multi-threaded runtime, and incremental tabling. This directory holds TLA+ models of
the parts of that engine whose correctness depends on the order of steps, the TLC
configurations that check them on small instances, and TLAPS proofs of the
properties that matter most for every instance.

## 1. Inventory of the system

| part | source (under `src/XSB/emu` unless said) | state it keeps | operations | what is hard |
|---|---|---|---|---|
| SLG evaluation, local scheduling | `slginsts_xsb_i.h`, `complete_local.h`, `complete_xsb_i.h`, `schedrev_xsb_i.h`, `macro_xsb.h` | call table, completion stack with levels, answer lists, consumer choice points | tabletry, answer return, new answer, check complete | order of answers and consumers, SCC merging, completing too early or never |
| well-founded negation | `slgdelay.c`, `bineg_xsb_i.h`, `complete_local.h`, `syslib/tables.P` (batched: `wfs_xsb_i.h`, `scc_xsb.c`) | delay lists of answers, lists of the delay elements of a literal, answer list or its tag, deferred failures | delay, make an answer conditional, simplify, complete answers | functions that call each other over lists they change, literals settled before or after a delay list is made |
| tries | `tries.c`, `trie_lookup.c`, `tst_*.c`, `tr_code_xsb_i.h` | call and answer tries | check/insert, walk, delete | walking while another thread inserts |
| trie read/write lock | `rw_lock.c`, `rw_lock.h` | `havelock`, `writers`, waiters | read/write lock and unlock | exclusion, lost wake-ups, starvation |
| table management | `tr_utils.c` | deleted-table frames, visitors | abolish, table garbage collection | reclaiming what is in use |
| incremental tabling | `call_graph_xsb.c`, `incr_xsb.c` | call graph, `falsecount`, affected lists | add edge, invalidate, propagate no change, delete | counters that must agree with a graph over long call sequences |
| threads | `thread_xsb.c`, `thread_defs_xsb.h` | thread table, free list, incarnations | create, exit, join, detach, cancel | id reuse, table full, races |
| message queues | `thread_xsb.c` | message queues, waiters | send, get, peek, destroy | bounded buffers, lost wake-ups, destruction under waiters |
| user mutexes | `thread_xsb.c` | owner, recursion count | lock, trylock, unlock, unlock all | counts and owners |
| shared completed tables | `usurp.h`, `deadlock.c`, `complete_local.h` | owner of each table, wait-for edges | wait, usurp, reset | distributed deadlock, lost work |
| concurrent completion | `conc_compl.c` | dependency lists | wait, check SCC, complete | termination detection |

The remaining parts are the WAM emulator loop and its builtins, heap garbage
collection, dynamic code, findall and interning, symbol tables and loader, I/O,
sockets and timers, the C, Java and database interfaces, the compiler and the
Prolog libraries, and the packages. `PROJECT.json` lists all of them under
`components`, with the reason why each is left out; what this code is exposed to
that a test would hardly reach is under `hazards`, each at its line.

How the parts interact:

* the tabling instructions call the tries to look calls and answers up and, in the
  multi-threaded engine, guard every walk and every change of a shared trie by
  `TRIE_R_LOCK` / `TRIE_W_LOCK` (the **trie lock**);
* every thread has a slot of `th_vec` (the **thread table**). Its id is the slot and
  an incarnation number, and the slot also numbers the private **message queue** and
  signal queue of the thread;
* `lib/mutex_xsb.P` builds `thread_send_message`, `thread_get_message` and
  `thread_peek_message` from several requests of `thread_xsb.c`. The mutex of the
  queue is held *between* these requests, while the emulator runs Prolog code and may
  be interrupted;
* incremental tabling and shared tables change what a call to a tabled predicate does
  (recompute what it depends on first, wait for another thread), on top of local
  evaluation. **CallGraph** and **SharedTables** take from `LocalEval` the order of
  evaluation (completion stack, levels, topmost SCC first) and leave its answers out:
  a goal of `CallGraph` has one possible answer, a table of `SharedTables` none;
* negation changes what an SCC does when its consumers are satisfied: it delays the negative
  literals that are not settled, and completion simplifies the answers that depended on them.
  **WellFounded** models this with a simpler scheduler than `LocalEval` (a set of continuations
  that run in any order), since delaying does not depend on the order of answers.

## 2. Modules

| module | models | role |
|---|---|---|
| `RWLock` | `rw_lock.c` and the macros of `rw_lock.h` | the trie lock |
| `LocalEval`, `MCLocalEval` | SLG instructions and completion, sequential engine, local scheduling, definite programs | tabled evaluation against the least model |
| `ThreadTable`, `MCThreadTable` | `th_new`, `th_delete`, `th_get` and the requests that create, exit, join and detach threads | slots, ids and lists |
| `MessageQueue`, `MCMessageQueue` | one slot of `mq_table` with all requests on it, interrupts | waiting, waking up, destroying |
| `TableViews` | what incremental tabling promises | abstract specification: materialised views of a changing set of facts |
| `CallGraph`, `MCCallGraph` | `call_graph_xsb.c`, `incr_xsb.c`, the incremental parts of `tables.c`, `slginsts_xsb_i.h`, `tries.c`, and `syslib/increval.P` | incremental tabling, shown to implement `TableViews` |
| `WellFounded`, `MCWellFounded` | `slgdelay.c`, its callers in `slginsts_xsb_i.h`, `bineg_xsb_i.h`, `complete_local.h`, and answer completion in `syslib/tables.P` | negation: delaying, simplification and answer completion against the well-founded model |
| `SharedTables`, `MCSharedTables` | `usurp.h`, `deadlock.c`, the end of `complete_local.h` | shared tables, deadlock between threads and its resolution |
| `RWLockProofs`, `LocalEvalProofs`, `ThreadTableProofs`, `MessageQueueProofs`, `CallGraphProofs`, `SharedTablesProofs`, `WellFoundedProofs` | | the inductive invariants of the modules they extend, and the theorems |
| `Induction` | | lemmas about numbers, recursive functions and folds |

A name that exists in the source is kept (`th_delete`, `sched_answers`,
`wait_on_queue` ...). Definitions whose comment begins with *Mutant* are slightly wrong
versions of the definition below them, used to check that each property notices a
plausible mistake in the code; no specification uses them.

### RWLock

`havelock` and `writers` are the fields of the lock and `trie_locked` the flag of each
thread that keeps read locks from nesting. The mutex of the lock is not a variable: an
action is one critical section. A wait splits its function in two: the first part ends
asleep, the second (`RetryRead`, `RetryWrite`) tests the loop again. Spurious wake-ups
of `pthread_cond_wait` are an action of their own.

### LocalEval

A program is a constant: a subgoal has clauses, a clause has calls and a function from
the answers of its calls to its own answer. The state is the one of the abstract
machine: the register `breg`, the choice point stack `cps` with its chains
(`prev` for `nlcp_prevbreg`, `lookup` for `nlcp_prevlookup`, the answer a consumer has
got to), the completion stack with its levels, and the subgoal frames with their answer
list, consumer list and completion status. One action is one instruction, or one way
through it: `NewProducer`, `NewConsumer`, `CallCompleted` (tabletry), `NextClause`
(tableretry, tabletrust), `NewAnswer` (new_answer_dealloc with early completion of
ground subgoals), `answer_return`, `NextFromTrie` (backtracking into a completed
table) and `check_complete` (schedule the consumers of the leader, of the SCC, complete
the SCC, or turn a generator into a consumer). Terms, environments and tries are
abstracted: an answer is a value.

### ThreadTable

`th_vec` has the fields `next`, `prev`, `incarn`, `valid`, `detached`, `exited`, `tid` and
`ctxt`; `th_first_free`, `th_last_free` and `th_first_thread` are the list heads.
`thr` is what the pthread library knows of a thread, and `req` the request a thread is in
the middle of. Every stretch of code under `th_mutex`, every access without it (`valid`
set by the creator) and every pthread call is one action. `th_delete` is part of such a
stretch where its caller holds `th_mutex`; a creator whose `pthread_create` fails
(`PthreadCreateFails`) calls it without the mutex, after it has set `valid`, and there it is one step per
statement (`DeleteBegins`, `DeleteGoesOn`). `JoinCall` follows the error codes of `pthread_join` the way the code does: EINVAL
and ESRCH end the request, EDEADLK (`Deadlocks`: threads that join each other, or themselves) is taken for success,
and the slot of a running thread is freed.

The history variable `disturbed` says that the table has been used in a way the code does not guard
against: `th_new` or `th_delete` run while another thread is in a `th_delete` without `th_mutex`, EDEADLK was
ignored, or a thread was detached while another one joins it. The actions go on after that, but
all properties but the types speak of the time before. The count of threads in
`flags[NUM_THREADS]` is left out. With the constant `Past` a behaviour starts after one
thread has come and gone, so that a slot is used again early. `pthread_join`, `pthread_detach`
and thread ends follow POSIX and are marked external.

### MessageQueue

`q` is the queue (messages, `n_threads`, `deleted` and the incarnation `id` of the slot),
`free` whether the slot is on the list of free queues, `mq_mutex` the holder of the mutex,
`mutex_owner` the field of that name, `marked` the threads with a pending interrupt, and
`th` the request each thread is in. A message remembers the id it was sent to. A request
is split where the code unlocks, waits or broadcasts: broadcasts come *after* the unlock
and are actions of their own. `HandleInterrupt` stands for the emulator, which finds the
mark between two requests and runs the goals of the signal queue. To take a goal from that queue it makes requests
like any other, which overwrite `current_mq_cell` of the thread: a thread that was looking through
a queue goes on with a cell that is not in it (`AfterGoals`), unless all its goals were run at an earlier interrupt. With `Public = FALSE`
the module models the private queue of the threads that own one slot in turn.

### CallGraph and TableViews

A tabled goal has a call node (`table[g]`), and while it is computed again also a previous
node (`prev_call`); both use one hash table of out-edges, so `out` is kept per goal. `call`
holds the fields of the nodes: `falsecount` (modulo `FalseMod`, 2^14 in the code), `deleted`,
`changed`, `no_of_answers`, `direct` for `recomputable = COMPUTE_DIRECTLY`, and `outedges`,
false once the shared hash table has been freed. Evaluation is sequential: `stack` is the
completion stack, `completing` the tables of an SCC that are completed one after the other,
`lazy` the lists of goals that the handlers of `lazy_reeval_trap` still have to call.

Operations are actions of their own: `incr_assert`, `incr_retract`, `incr_retractall`,
`RetryRetract` (backtracking into `incr_retract`), `incr_invalidate_call`,
`abolish_table_call`, `Query`, the calls of a goal (`CallFact`, `CallGoal`, `CallQuery`), the
handler (`RunHandler`), the errors of `dfs_inedges` (`LazyError`: the tables it has visited before it
meets an incomplete one keep `COMPUTE_DIRECTLY`), `NewAnswer`, `CompleteScc`, `CompleteTable` (with
`propagate_no_change` and `deallocate_previous_call`) and `Abort`. Searches over the graph
(`dfs_outedges`, `dfs_inedges`, `propagate_no_change`) are one step each in the code, as nothing
else runs; they are least fixed points here (`Visited`, `Reaches`, `Cleared`), and where
the result depends on the order of a hash table (the order of the list to recompute, the
edges crossed before an error) every order is possible.

Three history variables say what may disturb a table: `cut` (an invalidation ended by an
error half way, or a clause removed by backtracking into `incr_retract`), `overlapped` (an
invalidation reached the previous node of a table that was being computed again) and
`crashed` (a freed hash table was traversed).

`TableViews` knows facts and views. A step changes at most one fact, and every view that is
there after the step is right for the facts after it (least model of the program). The refinement
mapping takes as the view of a goal the answer of its table if the table is completed and
`falsecount` is 0, and no view otherwise, and no view at all once something has disturbed the tables.

### SharedTables

`sf` has the state, owner (`subg_tid`) and `grabbed` flag of each subgoal frame, `stack` the
completion stack of each thread with the leader of each frame and the next call of its goal,
and the fields of the thread contexts (`waiting_for_tid`, `waiting_for_subgoal`,
`is_deadlock_leader`, `reset_thread`, `tmp_next`) keep their names. `completing_mut` is a
variable, since what matters is which steps are made without it: a leader cuts the
stack of one thread per step (`ResetThread`) after it has released the mutex, and
completion marks the tables of the SCC one by one, the leader's first (`MarkCompleted`), before it takes the mutex to wake the threads
that wait for them (`WakeWaiters`). Condition variables may wake up a thread at any time.

The code leaves its own protocol in two ways, which are steps that set a history variable. `astray`: a leader
takes a table that another one has usurped (`UseGrabbed`), or a thread calls a table it has usurped after it has ceased
to be a leader, and consumes it although nobody evaluates it (`ConsumeUsurped`). `crashed`: `reset_thread` works on the stacks of a
thread that does not wait, or through pointers into the stack of another thread, or there is no thread to follow
(`ResetRunning`); what happens then is undefined, and the model stops.

### WellFounded

An answer is `<<subgoal, n>>`, with `n = 0` for the escape node of a ground subgoal, and a clause is one
instance of a program clause. `ans` says what the leaf of an answer is: absent, conditional,
unconditional, deleted, or `marked` (its delay lists are gone and its simplification is on the way).
`answers` is `subg_answers`, a list until it is reclaimed at completion and then a tag; `rootless` holds
the subgoals whose answer trie was forgotten by `mark_subgoal_failed`. A delay list (`dl`) is a number
that is used again, like an address, with its answer and its elements; `pnde` has for every
literal the delay lists that hold it (`pdes` of a delay info, `subg_nde_list` of a subgoal), in order.

The scheduler is abstract: `conts` is a set of environments that have come to some literal, each
with the literals delayed so far, and any of them may go on. `sccs` is the completion stack by
SCCs. What the code does is `SlgNot` (`bineg_xsb_i.h`), `DelayAll` (the negative literals an SCC
waits for are delayed when nothing else can be done in it), the ways through
`do_delay_stuff` (`RejectAnswer`, `ConditionalAnswer`, `UnconditionalAnswer`,
`BecomesUnconditional`), the completion of a frame with the check for a failed
subgoal, and the five simplification functions. These call each other recursively while the
lists they walk change: `calls` is the C stack with the rest of each caller's list,
and one iteration of the innermost loop is one step. `simplify_neg_fails` inside itself only
defers its subgoal (`deferred`). `AnswerCompletion`, `ForceFalse`, `MarkSubgoalFailed` and
`EndAnswerCompletion` are answer completion; its order over answers is any order. The well-founded
model (`WFTrue`, `WFPossible`) is computed by alternating fixpoints and kept in `wfm` for the properties.

## 3. Runs

| run | result | question and instance |
|---|---|---|
| `rwlock` | passes | 4 threads read and write in any order, with spurious wake-ups: types, exact counters, exclusion, no lost wake-up, and writers are not starved as a group |
| `localeval` | passes (50 710 states) | every program of three families of up to 2 clauses per subgoal over 3 subgoals and 2 answers: completed tables hold exactly the least model, the query gets each solution once, consumers stay reachable from their tables (hence every pending consumer is served before completion), levels cover dependencies, evaluation ends |
| `localeval_unchaining` | violated | one program with 3 clauses, see finding 1 |
| `threadtable` | passes (995 603 states) | main, a thread that has come and gone, and 3 threads, 4 slots, detaching and failing creations allowed, one slot always free; the slot of the past thread is used again. Up to the first disturbance every slot is on one list, running threads keep theirs, exited ones wait for their join, detached ones are freed, ids are not confused |
| `threadtable_full` | violated | main and 4 threads, 3 slots that may all be used, see finding 2 |
| `messagequeue` | passes (2.9 million states) | 3 threads send, get, peek, destroy and are interrupted twice, with 2 kinds of messages, a queue of size 1 and one re-creation: no wake-up for messages or room is missed, a destroyed queue stays with its waiters, messages stay where they were sent to; up to the first interrupt the mutex is held while a queue is looked through and the last waiter reclaims a destroyed queue |
| `callgraph` | passes (296 318 states) | 3 goals over one fact with an SCC, 2 updates and one exception at any time, also during evaluation: the two directions of the edges agree, `falsecount` covers all invalid callees, the tables implement `TableViews`, and queries end |
| `callgraph_abort` | violated | the same with one exception, no update inside, see finding 3 |
| `sharedtables` | passes (88 116 states) | 3 threads, each with one query, over 4 tables that call each other and 2 that are completed by themselves: one producer per table, threads never sleep in a ring, the search for a cycle ends, no table is completed before what it calls, no wake-up is lost, every query is answered; the second but last until a table has gone astray, the last also until a leader has crashed, and both happen |
| `sharedtables_leaders` | violated | 3 threads with 2 queries each over two cycles of tables, see finding 4 |
| `wellfounded` | passes (282 541 states) | 1802 programs with negation in every order of evaluation: unconditional answers are true and missing ones false in the well-founded model, what stays conditional is undefined, no delay list keeps a settled literal, the lists of delay elements agree with the delay lists, nothing freed is found again, and the query is answered |
| `wellfounded_ac` | violated | one program whose query removes an answer by answer completion, see finding 5 |

Why the bounds are enough:

* **RWLock** has no bound besides the number of threads, and its safety is proved for
  every finite set of threads. Four are enough for two readers and two writers.
* **LocalEval**: three subgoals form all shapes of SCCs the completion code tells apart
  (self-recursion, a cycle of two or of three, two nested ones, a merge of levels when
  an inner subgoal calls an outer one). Two answers are enough for an answer that
  arrives after a consumer has run dry. The families are built so that early
  completion, pending consumers of completed subgoals and generators turned into
  consumers occur. Three clauses in one subgoal are needed for the finding; that
  program has a run of its own.
* **ThreadTable**: the run follows no behaviour beyond the first disturbance (`CONSTRAINT Undisturbed`), of which the properties say nothing. Each thread is created once, so the number of incarnations reached is
  below `Incarnations = 4`; wrap-around of the 10-bit incarnation number is not reached (section 5 states
  the condition, `FewThreads`, under which ids are unambiguous for any number of uses).
  `MaxInUse` is one less than `MaxThreads` in the passing run, because a table that has
  once been full is damaged by finding 2; `threadtable_full` has `MaxInUse = MaxThreads`.
  Free slots are used in turn, so 3 threads on 3 free slots would never meet a used one:
  `Past` leaves behind an id and a slot that the third thread takes.
* **MessageQueue**: `MaxOps = 2` requests for each of 3 threads are enough for a waiting
  sender, a waiting receiver and a third thread that destroys, re-creates or wakes.
  A queue of size 1 is full and empty alternately. `MaxCreates = 1` reuses the slot once.
  Spurious wake-ups are not modelled here: a wake-up for another thread's message,
  which the broadcasts produce anyway, has the same effect.
* **CallGraph**: `SccBelow` has a cycle, a goal above it that reaches it along two paths (a
  `falsecount` above 1) and literals that are called only while a fact or another goal has an answer, so
  that re-evaluation adds and drops edges, and a completed table can be found to depend on one that is being
  evaluated again (`LazyError` after other tables were visited). Facts have 0 to 2 clauses: the second changes no
  answer, which is when an invalidation is taken back. Two updates are enough for one that
  meets the effects of another; `FalseMod = 16` is out of reach of them.
  `MaxNode = 2` allows three nodes of one goal: the present one, the previous one and one that an
  exception left behind. A goal whose nodes are all in use is not called (`Unused`); no call of the run is held up by that.
* **SharedTables**: three threads over four tables of one SCC (`SixTables`) have cycles of two and of three
  threads, a deadlock while another one is being broken, and a leader that is itself
  usurped. Two more tables call nothing. `gp` is completed while a thread that waited for it has not run again, so that
  a search follows a stale `waiting_for_tid` and a leader comes to a thread that does not wait; `gm` is
  waited for by a leader before it has come to all the tables it has usurped. Every action and both flags occur. A second query of a thread lets a leader meet
  another deadlock, which is the finding; hence one query in the passing run.

* **WellFounded**: all programs contain `k :- tnot(y). y :- p, fail. main :- p.`, which puts a subgoal that is
  delayed and fails into the SCC of `p`, so that simplification really starts. Around it, `p` has up to
  two clauses and `q` and `r` one, with every positive or negative literal: negative and positive
  loops, literals that are settled before and after the delay list that holds them, an answer with two delay
  lists, simplification that calls itself through an answer and through a failed subgoal. The second family has
  a subgoal with two answers. `MaxDL = 8` is never reached. Answer completion is on where the
  well-founded model is two-valued; with undefined answers it goes wrong in a known way
  (see the observations), and on subgoals with two answers it is finding 5. `Exact` is asked of
  programs without positive loops or with answer completion: elsewhere the residual program
  keeps positive loops by design.

`CHECK_DEADLOCK FALSE` appears where a program may really stop: threads that wait for a
message nobody sends, that join each other, or that have used up their bounded
requests, updates or queries, and a query (`WellFounded`) that has been answered. `RWLock` and `LocalEval` are checked for deadlock.

The runs do not assume that programs make their requests in a sensible order. Where the code does not guard
against something (threads that join each other, a thread joined and detached at the same time, a former leader that
calls a usurped table), the model does what the code does and a history variable (`disturbed`, `astray`, `crashed`, `cut`,
`overlapped`) says that it has happened; each property names those it depends on.

## 4. Fairness

* `RWLock`: weak fairness of `Retry` (a woken thread gets the mutex) and of `Unlock` (a
  thread inside the lock leaves it; the code between lock and unlock has no
  wait). Nobody is obliged to ask for the lock. `WritersServed` says that *some* writer
  is served; a single writer may be overtaken by others for ever, and readers starve while
  there is always a writer, which is what the code does.
* `LocalEval` and `WellFounded`: weak fairness of `Next`, the emulator executing instructions until the
  query is answered.
* `ThreadTable` and `MessageQueue` state no fairness: a program may stop making requests.
* `CallGraph`: weak fairness of `Evaluate`, the emulator executing what a query needs.
  Queries, updates and exceptions are not fair.
* `SharedTables`: weak fairness of each thread's own steps and strong fairness of the steps
  that take `completing_mut` (a mutex that is free again and again is obtained). Spurious
  wake-ups and queries are not fair: that every query is answered does not rest on them.

## 5. Proofs

TLAPS checks the theorems below for every value of the constants that the assumptions allow.
All safety invariants follow the same pattern: an inductive invariant `IInv`, a conjunction of
named parts; one lemma for the initial states; one lemma per action, with a step for each part
the action can disturb; and lemmas about the operators of the model where several steps need them.

| theorem | states | holds for |
|---|---|---|
| `RWLockProofs!TypeCorrect`, `CountersCorrect`, `Exclusion`, `NoLostWakeup` | `TypeOK`, `CountersExact`, `WriterExclusion`, `SleepersHaveReason` | finite sets of threads |
| `LocalEvalProofs!TypeCorrect`, `LevelsSound` | `TypeOK`, `LevelsCoverCalls` | every set of programs, of any size |
| `LocalEvalProofs!Soundness` | no table holds and the query never gets an answer outside the least model; no table holds an answer twice | same |
| `LocalEvalProofs!ListsAcyclic` | the `nlcp_prevlookup` fields lead through consumers of one subgoal and come to an end | same |
| `ThreadTableProofs!TypeCorrect` | `TypeOK` | every set of threads, every length of the table, also full or disturbed |
| `ThreadTableProofs!ListsKeepSlots`, `SlotsKept`, `ExitedWait` | `SlotsOnOneList`, `LiveThreadsKeepSlot`, `JoinableWaits` (until `disturbed`) | `SpareSlot` |
| `ThreadTableProofs!DetachedFreed`, `IdsFind` | `DetachedReclaimed`, `IdsNotConfused` (until `disturbed`) | `SpareSlot` and `FewThreads` |
| `MessageQueueProofs!TypeCorrect`, `ScannerOwns`, `NoLostWakeup`, `WaitersKept`, `Delivered` | `TypeOK`, `ScannerOwnsQueue`, `NoMissedWakeup`, `WaitersKeepQueue`, `DeliveredToAddressee` | public queues |
| `SharedTablesProofs!TypeCorrect`, `CompletionSound`, `WakeupKept` | `TypeOK`, `CompletedWithCallees` (until `astray`), `NoLostWakeup` | every set of threads and tables |
| `WellFoundedProofs!TypeCorrect`, `IndexesKept` | `TypeOK`, `IndexesAgree` | every set of programs, of any size |
| `WellFoundedProofs!WhatIsSettledStays` | no step takes an unconditional answer that callers find, or a completed subgoal, away, but `mark_subgoal_failed`, which takes all answers of its subgoal (finding 5) | same |
| `WellFoundedProofs!ReclaimedTablesAreDone` | between two steps of clause resolution, a table that is reclaimed, forgotten or to be answer completed is completed, and no environment evaluates it | same |
| `WellFoundedProofs!NothingIsLeftToSimplify` | `Simplified`, while `rootless = {}` | same |
| `CallGraphProofs!TypeCorrect`, `EdgesAgree` | `TypeOK`, `EdgesMatch` | finite sets of goals and facts, all clauses |
| `CallGraphProofs!TraversalsSafe` | `NoDanglingTraversal`, while `aborts = 0` | same |
| `CallGraphProofs!CompletedAnswersKept` | no step changes the answers of a table that is and stays completed | same |
| `CallGraphProofs!InvalidSourcesCounted` | `CountsInvalidSources` | same, and `NoWrap` |
| `CallGraphProofs!ViewsImplemented` | `ImplementsViews`: the refinement of `TableViews` | same, and `NoWrap` |

`Induction` holds what other proofs need and the libraries do not have: least and greatest
elements of sets of numbers, functions defined by recursion over a rank, and folds over
finite sets.

### The arguments

**RWLock.** Only the counters are inductive together with the types; the types need them,
because a counter that is decremented must be at least 1. Exclusion needs the exact
counters: a reader is admitted because `writers = 0`, which excludes a writer inside only when
`writers` counts it. The sleepers' reason needs both: a broadcast is made only when `havelock`
drops to 0, so a reader's reason `writers > 0` can end only at the unlock of a writer, and that
writer must have been alone inside for `havelock` to drop to 0 at the same time.

**LocalEval.** `IInv` has six parts. `Types`: what the fields hold. `Evaluation`: a
continuation stands for the clause it came from and for answers of the least model that match its first
calls, so the answer at its end is in the least model, which is closed under the clauses. `Frames`:
the frames of the completion stack, their generators and their levels grow together, and each incomplete
subgoal, generator and consumer has its frame. `Levels`: between the frame of a subgoal and a consumer of it
no leader lies, that is, all frames between them have one level. `Chains`: backtracking passes
no generator that has clauses left or has still to check for completion; without this a frame could be
popped under a running clause, and `adjust_level` would be applied to the wrong frames.
`ListsOK`: the lookup fields lead to consumers of the same subgoal along a falling rank. The rank makes
the loops of `sched_answers` and `find_fixpoint` end, which is what their lemmas need: the model's
recursive functions over these fields have the value of a finite list (`ListIs` and the lemmas after it).

**ThreadTable.** `Holds(c)` says when thread `c` has not given back its slot yet: it is alive, or ended
and joinable, or between the two halves of a join or a detach. `Owners`: the slots of such threads are on the
list of threads, differ, and carry the incarnation of the id. `Requests`: what a join or detach that has
released `th_mutex` still knows of its thread, which is that nobody else may free the slot. `Ends` and `Tids`: `exited` and
`tid` agree with what the threads have done. `Lists`: the two lists that share `next_entry` have no slot in common, hold
all slots, and `prev_entry`, `th_first_free` and `th_last_free` fit; `ListFrom` is shown to compute the list that a chain of
`next_entry` describes (`ListIs`), and `th_new` and `th_delete` to insert and move one slot (`ListsNew`,
`ListsDelete`). An action that calls neither changes little, which the predicate `Later` states once for all of them.
A `th_delete` without `th_mutex` leaves the lists in states that are neither those before it nor those after. So `Lists` speaks of
`View`: the links as they will be when the statements still to come (`Rest`) have been executed. The first statement of such a `th_delete` moves
the slot in the view, and no later one changes it; the view is the links themselves when nobody is in a `th_delete`, which
is the case whenever `th_new` or another `th_delete` begins before the table is disturbed. `Base` holds always, disturbed or not: the
types, that the creator's request names a thread that is set up, and that live threads have a slot; it implies `TypeOK`. All the rest is
proved as `~disturbed => IInv` (`Undisturbed`), and a disturbed table stays so (`StaysDisturbed`).
`Incarns`, for the two properties of ids that have outlived their slot: an id names the last user of its slot or an older one.

**MessageQueue.** Who may touch the queue depends on who may reclaim its slot, which depends on the count of
waiters; so the properties hold only together. `Fits`: a thread between locking and unlocking has
`mq_mutex`, one that looks through the queue is in the queue it asked for, and the messages before
`current_mq_cell` are not for it. `WaitersCounted`: `n_threads` is the number of waiters. `SlotReclaimed`: a slot that is free, or on its way
to be, or being set up again has no waiters and is in one of these states only.

**SharedTables.** The completion stacks carry the argument (`Stack`): SCCs are segments, and a call
that is over is a call of a completed table or of one in the same SCC of the same stack. `ResetThread`
cuts a stack only below an SCC, and completion takes the topmost SCC. Since its tables are marked one by one, a
table that is completed may have called one that is about to be (`Marking`), and the stack of the marking thread does not
change until it wakes the others (`Ends`, `Woken`). Once a table has gone astray a call of it is over
although it is not completed, so nothing is known of what is over (`Settled`); stacks and wake-ups stay in order all the same.
The second layer (`Callings`, `Registers`) is what the types need: a thread that waits or is reset
has a call to go back to.

**CallGraph.** `Graph(out, outcount, inedges)` says that both directions and the counts describe one graph. It is a property of three functions
rather than of the state, so that each loop of the code over edges (adding an edge, freeing the out-edges of a node, deleting a node) is one
lemma about them (`EdgeAdded`, `GraphDetached`, `GraphForgets`).

The second invariant of `CallGraph`, `SInv`, is about freed nodes. `old_call_gl` leaves the previous node of a
re-evaluated table in the graph and `deallocate_previous_call` frees its hash table of out-edges, so what matters is that the node is
out of all hash tables by then: `Unlinked` says so for every freed node, and that it is valid, hence never the node that
`propagate_no_change` continues with. It is kept because only the node of an incomplete table has a previous node
(`Previous`), and because invalidation, validation and completion change neither the links of a node nor the
answers of tables that stay completed, which the lemmas say once for all of them (`Alike`, `InvalidationKeeps`, `Validated`). An exception
does break it: `remove_incomplete_tries` forgets the table and leaves the previous node behind. Hence the condition
`aborts = 0`, and finding 3 shows that one exception is enough.

The third, `KInv`, is about `falsecount`. What always holds is `LInv`: a node in a hash table is that of a table or its
previous node (`NodeLinks`), the frames of an SCC are adjacent (`Blocks`), and a count is at most the number of
updates times the most that one update adds (`Bounded`), so under `NoWrap` it never comes back to zero. Up to
the first disturbance `Marks` holds as well. `CountsInvalidSources` alone is not inductive: it says nothing of
incomplete tables, nor of the moment when a table is completed and its count starts to matter. `Waits(n)` are the tables that `n` depends on and
that are invalid or being computed again. `Counted`: the count of a completed table covers them, and once it is zero only
tables of the SCC that is being completed are left among them. `Unmarked`: incomplete tables are valid.
`Above`: what an incomplete table waits for is on the completion stack at its leader or above, or in the SCC that is being completed
(`Within`), so nothing is left to wait for when its SCC is. The three loops are shown to keep this together. An
invalidation marks a set of tables of which it counts every out-edge once (`Spread`, `MarksSpread`); that it does not meet a previous
node is the absence of an overlap. Completion takes back the edges of unchanged tables, which are among
those counted (`ClearedHit`, `HitsWaited`, `TakenBack`). All other steps only remove (`MarksShrink`).

**CallGraph implements TableViews.** A view is the answers of a valid table, and a step of `TableViews` may leave only views that are the
least model of the facts. So the theorem needs an invariant that says what answers mean, `Meaning`, up to the
first disturbance or crash. It has seven parts.
`Right` is about completed tables. A valid one agrees with what it has read: each answer has a clause whose literals are read and hold, and where there is no
answer each clause has a literal that is read and does not hold (`Agrees`). An invalid one did so before the evaluations under
way (`Held` has the old answer of a goal that is computed again), unless more edges are counted on it than it waits for tables (`Untainted`). This is
what makes it sound to take back an invalidation: a table on which only edges of tables under re-evaluation are counted becomes valid when
all of these have come out unchanged, and then `Held` and `Holding` agree on what it has read. `Compared` says that
"unchanged" means what it should: answers that are not derived again are still counted at the previous node, new ones set `changed`.
`Backed` says the same of incomplete tables: their answers have a clause from the start, and at completion nothing is missing, since every goal of the SCC
is exhausted (`ExhaustedBlocked`). `CalledRead`, `Once` and `Follows` tie calls, edges and stacks together: what has been called has been read, a goal is incomplete
once, and a table that depends on an incomplete goal is not below its leader.
These parts do not exclude that two answers support each other. `Derived` does, and it does so without an order of derivations,
which would have to be a variable: every set of goals that is closed under what the tables have read contains all that is answered (`Closing`). A new answer is
derived from answers that are in every such set already; an SCC that is unwound or abolished takes no table with it that can be read; and a table that
is validated brings only answers that it had when it was valid last, with the same tables below it.
Soundness of the views is then `AnswersFollow`: the least model is closed. Completeness is `UnansweredClosed`: the goals that have an answer or may still get one are
closed under the clauses, because a table that is valid or being completed without an answer has a literal in each clause that fails in the same way.

**WellFounded.** `Indexes` says `IndexesAgree` in terms of lists without repetitions. It is not inductive with
the types alone: `force_answer_false` forgets the answer trie of a subgoal (`rootless`), and `new_answer_dealloc` would then find no
answer where there is a delay list, and make an unconditional answer that has one. This does not happen because of the order of completion. `Environments` and
`Dependencies`: an environment waits for, and a delay list holds, literals of subgoals of its own SCC, of
a later one, or of one that has left the stack (`NotBelow`). `Tables` follows from it: only of a subgoal that has left
the stack, or is in the SCC that is being completed (`Settled`), are the tags set and answers forgotten; a subgoal that is completed earlier has an
unconditional answer. `CallsOK` says the same of the arguments of the calls under way, and that completion and answer completion
are the outermost call, so that whatever simplification does inside them it does to settled tables.
The set that answer completion makes false is found by reachability (`EvaluatedIs`): it starts from a table that is
used, hence settled, and follows delay lists, which lead from there only to settled tables. The lemmas over
single operations (`Freed`, `Shortened`, `Added`) keep the two indexes in step; `FilteredIs` and
`FlattenIs` are what the recursive functions of the model compute.

`Simplified` needs a second invariant, `JInv`, on top of `IInv`. Simplification passes by once, when a literal is
settled; so each literal of a delay list that is settled must have a call that will remove it (`Pending`, `AllPending`), and
none may be settled while no call is under way. The first holds of each step of the five functions (`PendingStays`: a call that
is popped has left no list, or has put what it found on the stack or among the deferred subgoals). The second is the
difficult part: while the clauses of an SCC are resolved new unconditional answers come, and `UnconditionalAnswer` calls only
`simplify_neg_succeeds` and early completion, not `simplify_pos_unconditional`. That nothing is missed rests on the order in which literals are delayed. They are
delayed when the SCC can do nothing else, so from then on there is a set `X` of subgoals of which no answer without delays can come
(`Undecided`): every delay list and every environment of a subgoal of `X` has a literal that is firm (`Firm`), either a
conditional answer of a table that is done or a literal on `X` in the same SCC, and each negative literal that has been delayed is firm.
`DelayAllSimplifies` finds `X`: the subgoals of the SCC that are not completed yet. A new literal on a subgoal outside `X` is
conditional already or is looked at by `was_simplifiable` when the answer is made. With the completion of
the SCC `X` loses its members, and the literals on a completed subgoal that fails are called for by `CompleteFrame`. `Nearby`
(literals are of the SCC of their answer or of tables that are done) keeps SCCs apart, and `Tags` says what is found of a
reclaimed table.
Answer completion breaks the invariant on purpose: `force_answer_false` makes answers false that are not settled. It always forgets
an answer trie when it does, hence the condition `rootless = {}`, which also holds with answer completion switched
on (its default) as long as it has found nothing to remove (`Paused`, `ForcedStays`).

### What the theorems assume

* `RWLock`: `IsFiniteSet(Thread)` (`ThreadAssumption`), since the counters count threads. `MessageQueue`: the
  same, and that there is a kind of message; the theorems have the hypothesis `Public`, because a private queue
  is used by several threads in turn and `DeliveredToAddressee` fails there (see the observations).
* `LocalEval`: only that programs are well formed (`ProgramAssumption`).
* `ThreadTable`: nothing for the types. `SpareSlot` is `MaxInUse < MaxThreads`, the bound of the passing run, without which finding 2 strikes.
  `FewThreads` says that there are at most `Incarnations + 1` threads, so that no slot is given to more threads
  than there are incarnations: with 10 bits an id is valid again after 1024 uses of its slot, and both
  properties are false then. The run satisfies both.
* `SharedTables`: only what the constants are (`Nil` is no thread and no table; calls and goals are tables).
* `WellFounded`: a finite set of answers, a ground subgoal has one answer, clauses are made of answers and
  their negations, and only ground literals are negated (`WellFoundedAssumption`). `MaxDL` bounds the
  delay lists in use: an answer that would need one more is not added. In the run the bound is not reached.
* `CallGraph`: goals and facts are finite sets, literals are goals or facts (`CallGraphAssumption`). A
  new call node is one that no pointer holds (`Unused`); with `MaxNode` the model has a bounded number of nodes per goal, and a call
  that finds none does not happen. `NoWrap` says that `MaxUpdates`
  times one more than the number of goals and facts is below `FalseMod` (10 < 16 in the run), without which `CountsInvalidSources` and `ImplementsViews` are false: the
  code counts in 14 bits and checks for nothing.

### What is only model-checked

* `NoSleepingRing`, that no deadlock is overlooked: it depends on the shape of all wait-for chains.
* Liveness: `WritersServed`, `Terminates`, `QueryEnds`, `QueriesAnswered`, and `SearchTerminates`, which is a
  safety property here but depends on the shape of all wait-for chains.
* What is false in some program or some instance: `OneProducer` (finding 4); `CompletedIsModel`, `QueryGetsSolutionsOnce` and
  `ConsumersReachable` (finding 1: there are programs whose tables are completed without all answers). Of these, soundness is proved. That
  a completed table has *every* answer, where finding 1 does not strike, is an induction over derivations.
* What `WellFounded` says of the well-founded model (`Sound`, `Exact`), which is a fixpoint of fixpoints, and
  `Simplified` after answer completion has made an answer false.

## 6. Findings

1. **A consumer is unchained by mistake** (`schedrev_xsb_i.h`, `sched_answers`). When a
   pending consumer belongs to a completed subgoal it is taken out of the list through the
   *successor* of the previous one, and consumers in between go with it. The leader can then
   complete an SCC with answers missing. `UnchainingProgram` in `MCLocalEval` is such a
   program; the sequential engine, compiled from this source, completes `p` with the answers
   2 and 3 and misses 4.
2. **A full thread table is damaged by the next join** (`th_delete`). The engine gives a
   new thread the slot of a running one.
3. **A freed hash table is traversed** (`tr_utils.c`, `call_graph_xsb.c`). An exception that ends a
   re-evaluation frees the out-edges that the previous node shares; the previous node stays
   in the tables it had called, and `propagate_no_change` comes to it. The sequential engine
   reports a memory violation.
4. **Two threads evaluate one table** (`usurp.h`). `is_deadlock_leader` outlives the deadlock it was
   set for, and a leader may take any usurped table, whoever usurped it.
5. **Answer completion loses other answers** (`slgdelay.c`, `force_answer_false`). It removes one
   answer and then treats the whole subgoal as failed. In the program `TwoAnswers` of `MCWellFounded` the
   fact `n(2)` is gone after the query `main`; the sequential engine does the same.

`PROJECT.json` quotes the line of the repository each finding contradicts.

Observations that follow from the models and have no run of their own:

* *Negation.* `eval_subgoal_in_residual` (`syslib/tables.P:1983`) takes a subgoal that needs no answer
  completion for true even when its answer is undefined, so a `tnot` of it fails and answers that depend
  on it become false. With `u :- tnot(v). v :- tnot(u). r :- tnot(u), k. k :- tnot(y). y :- r, fail.` the
  engine answers `no` to `r`, which is undefined.
* *Incremental tabling.* `falsecount` (`tries.h:665`) counts every update that reaches a table, also one that is
  invalid already, in 14 bits: after 16384 updates without a query the table counts as valid, and the sequential
  engine returns the stale answers. With `FalseMod = 4` and `MaxUpdates = 4` the model violates `ImplementsViews`. Further: (a) An update that reaches the previous node of a table while the
  table is computed again counts on it, and a later unchanged table counts it down and goes on
  over the shared out-edges, which takes back an invalidation of callers that the new node still
  stands for: a table is valid and stale (`overlapped`; the sequential engine does it). The comment at
  `slginsts_xsb_i.h:346` says of the reset of the old node "this will stop propagation of
  unmarking". (b) An invalidation that reaches an incomplete table throws, and tables
  marked until then count as visited, so later updates do not go beyond them (`cut`; the engine
  does it when the program catches the error). (c) Backtracking into `incr_retract` removes
  clauses without invalidating (`cut`; the engine does it). (d) `incr_trie_intern` changes the trie
  before it invalidates, the other way round than `incr_assert`.
* *Threads.* The list of threads is not kept in table order (`thread_xsb.c:447`, whose loop
  compares the wrong way round). `XSB_THREAD_EXIT` decrements `flags[NUM_THREADS]` without
  `th_mutex` (`thread_xsb.c:1132`) while creation increments it with it, so one of two updates can
  be lost, and a count of 1 lets the collectors of clauses, tables and strings sweep while two
  threads run.
  What sets `disturbed` goes wrong, in the model without the constraint and with a slot to spare. A creator whose `pthread_create` fails gives its slot back
  by `th_delete` without `th_mutex` (`thread_xsb.c:649`, `:656`): together with another `th_delete`, or with `th_new`, it loses slots or mixes the two
  lists. Two threads that join each other: `pthread_join` returns EDEADLK to the second, `thread_xsb.c:1163` looks
  at EINVAL and ESRCH only, and line 1178 frees the slot of a thread that is running. A thread detached while it is joined has its slot freed twice.
  `XSB_RECLAIM_THREAD_SETUP` (`thread_xsb.c:1722`, an alias that is taken; not modelled) calls `th_delete` without the mutex and with the
  thread id, of which the incarnation is a part, in place of the slot.
* *Shared tables.* A thread that is woken because its table is completed keeps `waiting_for_tid` until it runs
  again (`usurp.h:40`). `would_deadlock` (`deadlock.c:23`) follows this link, which is stale, and can find a cycle that does not
  exist: `reset_thread` then cuts the stacks of a thread that leaves its wait, or follows `waiting_for_subgoal` to a frame on the stack of
  a third thread (`ResetRunning`, `crashed`). It takes two threads and three tables, `m` that calls `p` and then `g`, `g` that
  calls `p`, and `p` that calls nothing: the owner of `p`, which another thread waits for below `g`, completes `p`
  and then calls `g` before that thread has run. A leader that waits for a table in between (`usurp.h:35` resets `is_deadlock_leader`) is none any
  more when it comes to the rest of what it has usurped. `usurp.h:15` lets it pass, since the table is its own, and
  `slginsts_xsb_i.h:546` makes it a consumer of a table that nobody evaluates and with a completion frame that is on no stack (`ConsumeUsurped`, `astray`):
  its caller is completed without the answers. Both happen in the run `sharedtables`, whose properties name the flags.
* *Message queues.* An interrupt between the call of `wait_on_queue` and `pthread_cond_wait` is lost
  (a thread in `marked` sleeps). A receiver that is signalled with a goal while it waits goes on to
  accept a message it does not have, without the mutex, which is why `ScannerOwnsQueue` is stated up to the first interrupt;
  the engine ends with a memory violation. A message sent to a thread that
  exits is put into the queue of the next thread with the same slot: `DeliveredToAddressee` is
  violated with `Public = FALSE`. A thread that is cancelled while it looks through a queue
  leaves `mq_mutex` locked. A destroyed queue stays off the list of free queues when its last
  waiter is interrupted, hence the condition in the last part of `WaitersKeepQueue`.

## 7. Not modelled

In the modelled parts: negation (which is in `WellFounded`), subsumptive tables, batched
scheduling, and answer tries (`LocalEval`); delay tries and variables in delayed answers, subsumed
consumers, shared tables, `undefined/0` and truth values forced by the user (`WellFounded`); aliases and the two requests that
`thread_create/3` makes instead of one when it has an alias, cancellation and signals, thread setup from C, wrap-around of incarnations in the run,
thread contexts and their memory, the count of threads (`ThreadTable`); aliases, the list of free
queues as a list, enabling and disabling of cancellation (`MessageQueue`); incremental tries, conditional
answers, call abstraction, choice points into a table that is to be recomputed (visitors) and
exceptions that end only some of the incomplete tables (`CallGraph`); `tnot` with `reset_leader`,
threads that exit or fail while they own incomplete tables, and abolishing (`SharedTables`). The other
parts are left out for the reasons given in `PROJECT.json`.

Most of the repository is not of the kind a model checker helps with: the emulator, builtins, tries and
heap collector work on raw cells one instruction at a time, and the compiler, libraries and packages
are Prolog programs on top of the engine. The models cover the parts with an order of steps to
get wrong.

## 8. Plan

Next:

1. `LocalEval`: completeness for programs without ground subgoals, where finding 1 cannot strike.

Parts that would be modelled after that: `conc_compl.c` (termination detection of the build with
concurrent completion), user mutexes, the Prolog side of threads (exit balls and aliases in
`syslib/thread.P`) on top of `ThreadTable`, and negative literals in the scheduler of `LocalEval`.
