----------------------------- MODULE LocalEval ------------------------------
(***************************************************************************)
(* Tabled (SLG) evaluation of definite programs under local scheduling:    *)
(* the instructions tabletry, tableretry, tabletrust, new_answer_dealloc,  *)
(* answer_return and check_complete of slginsts_xsb_i.h and                *)
(* complete_xsb_i.h, with the scheduling of schedrev_xsb_i.h and the       *)
(* completion of complete_local.h (LOCAL_EVAL, sequential engine).         *)
(*                                                                         *)
(* A call is a subgoal and an answer a value: argument registers, answer   *)
(* tries and environments are not represented.  What remains is the        *)
(* control: the choice points and their chains, the completion stack, the  *)
(* answer lists and the consumer lists.  One action is one instruction.    *)
(***************************************************************************)
EXTENDS Integers, Sequences, SequencesExt, FiniteSets

CONSTANTS
  Subgoal,    \* the calls that can be tabled
  Query,      \* the root of the query, which is not tabled
  Calls,      \* the body of each clause: a sequence of subgoals
  Derive,     \* the head of each clause: a partial function from the answers
              \* its calls returned to the answer of the subgoal
  Programs    \* the programs that are evaluated, one per initial state

\* A program gives each subgoal (and the query) its clauses.  A ground subgoal
\* is one with an empty answer template.
ASSUME ProgramAssumption ==
  /\ Query \notin Subgoal
  /\ \A c \in DOMAIN Calls : Calls[c] \in Seq(Subgoal)
  /\ DOMAIN Derive = DOMAIN Calls
  /\ \A p \in Programs :
       /\ p.ground \subseteq Subgoal
       /\ DOMAIN p.clauses = Subgoal \cup {Query}
       /\ \A s \in DOMAIN p.clauses :
            p.clauses[s] # <<>> /\ p.clauses[s] \in Seq(DOMAIN Calls)

VARIABLES
  prog,       \* the program being run
  mode,       \* "run" a continuation, "fail" (Fail1), or "halt": the query is done
  cont,       \* the continuation registers: [root, clause, ans]
  breg,       \* the choice point to backtrack to, 0 for none
  cps,        \* the choice point stack
  complstk,   \* the completion stack, oldest frame first
  level_num,  \* the last level given to a completion frame
  table,      \* the subgoal frames
  returned    \* the answers of the query, in the order it got them

vars == <<prog, mode, cont, breg, cps, complstk, level_num, table, returned>>

NoFrame == [status |-> "new", answers |-> <<>>, pos_cons |-> 0, cp_ptr |-> 0]

Init ==
  /\ prog \in Programs
  /\ mode = "run"
  /\ cont = [root |-> Query, clause |-> 1, ans |-> <<>>]
  /\ breg = 0
  /\ cps = <<>>
  /\ complstk = <<>>
  /\ level_num = 0
  /\ table = [s \in Subgoal |-> NoFrame]
  /\ returned = <<>>

-----------------------------------------------------------------------------
(* The program. *)

Clause(k) == prog.clauses[k.root][k.clause]
IsCall(k) == Len(k.ans) < Len(Calls[Clause(k)])
Callee(k) == Calls[Clause(k)][Len(k.ans) + 1]
With(k, a) == [k EXCEPT !.ans = Append(@, a)]

(* Frames. *)

is_completed(s) == table[s].status = "complete"

\* The next choice of a generator after clause i: tabletry and tableretry leave
\* it at the next clause, tabletrust at check_complete.
AfterClause(s, i) == IF i = Len(prog.clauses[s]) THEN "check_complete" ELSE "clause"

\* A generator or consumer choice point: pc is what backtracking into it runs,
\* cont the continuation of the call, prev the chain of choice points, ret the
\* number of answers consumed, lookup the chain of consumers (nlcp_prevlookup).
TabledCP(pc, s) ==
  [pc |-> pc, sg |-> s, next |-> 2, cont |-> cont, prev |-> breg,
   ret |-> 0, lookup |-> 0, todo |-> {}]

FrameOf(s) == CHOOSE i \in DOMAIN complstk : complstk[i].sg = s

\* A leader has no frame of its own level below it.
is_leader(i) == i > 1 => complstk[i - 1].level < complstk[i].level

\* Mutant: a call to an incomplete subgoal leaves the levels alone.
KeepLevels(i) == complstk

\* Frames from that of a called incomplete subgoal up to the youngest one join
\* its level: they may depend on one another.
adjust_level(i) ==
  LET l == complstk[i].level
  IN IF l < Last(complstk).level
       THEN [j \in DOMAIN complstk |->
               IF j >= i THEN [complstk[j] EXCEPT !.level = l] ELSE complstk[j]]
       ELSE complstk

-----------------------------------------------------------------------------
(* tabletry *)

\* The first call to a subgoal: a generator and a completion frame.
NewProducer ==
  /\ mode = "run" /\ IsCall(cont)
  /\ LET s == Callee(cont) IN
     /\ table[s].status = "new"
     /\ cps' = Append(cps, TabledCP(AfterClause(s, 1), s))
     /\ breg' = Len(cps')
     /\ level_num' = level_num + 1
     /\ complstk' = Append(complstk, [sg |-> s, level |-> level_num'])
     /\ table' = [table EXCEPT ![s].status = "incomplete", ![s].cp_ptr = breg']
     /\ cont' = [root |-> s, clause |-> 1, ans |-> <<>>]
  /\ UNCHANGED <<prog, mode, returned>>

\* Mutant: the trie's choice point returns its first answer again.
FirstAgain(answers, a) == answers

RestOfTrie(answers, a) == answers \ {a}

\* Answers of a completed table come from its trie, in an order of the trie's
\* own.  The trie's choice point is put on stk and goes away with the last answer.
EnterTrie(stk, answers, k, prev) ==
  \E a \in answers :
     /\ mode' = "run"
     /\ cont' = With(k, a)
     /\ IF answers = {a}
          THEN cps' = stk /\ breg' = prev
          ELSE /\ cps' = Append(stk, [TabledCP("trie", k.root) EXCEPT
                                         !.cont = k, !.prev = prev, !.todo = RestOfTrie(answers, a)])
               /\ breg' = Len(cps')

CallCompleted ==
  /\ mode = "run" /\ IsCall(cont)
  /\ is_completed(Callee(cont))
  /\ LET answers == Range(table[Callee(cont)].answers) IN
     \/ EnterTrie(cps, answers, cont, breg)
     \/ /\ answers = {}
        /\ mode' = "fail"
        /\ UNCHANGED <<cont, breg, cps>>
  /\ UNCHANGED <<prog, complstk, level_num, table, returned>>

\* Mutant: a consumer does not lead to the ones before it.
ConsumerAlone(s) == TabledCP("answer_return", s)

ConsumerCP(s) == [TabledCP("answer_return", s) EXCEPT !.lookup = table[s].pos_cons]

\* A call to an incomplete table: a consumer, which takes the first answer or
\* suspends.
NewConsumer ==
  /\ mode = "run" /\ IsCall(cont)
  /\ LET s == Callee(cont)
         c == ConsumerCP(s)
     IN
     /\ table[s].status = "incomplete"
     /\ complstk' = adjust_level(FrameOf(s))
     /\ table' = [table EXCEPT ![s].pos_cons = Len(cps) + 1]
     /\ \/ /\ table[s].answers # <<>>
           /\ cps' = Append(cps, [c EXCEPT !.ret = 1])
           /\ breg' = Len(cps')
           /\ cont' = With(cont, table[s].answers[1])
           /\ UNCHANGED mode
        \/ /\ table[s].answers = <<>>
           /\ cps' = Append(cps, c)
           /\ mode' = "fail"
           /\ UNCHANGED <<breg, cont>>
  /\ UNCHANGED <<prog, level_num, returned>>

-----------------------------------------------------------------------------
(* new_answer_dealloc, and the end of the query *)

Derives(k) == k.ans \in DOMAIN Derive[Clause(k)]

\* Mutant: any answer completes its subgoal.
AlwaysEarly(s) == TRUE

\* template_size == 0
CompletesEarly(s) == s \in prog.ground

\* An unconditional answer of a ground subgoal completes it early: if its
\* generator has not become a consumer, the remaining clauses are dropped...
MarkEarly(g) ==
  cps' = IF cps[g].pc # "answer_return" THEN [cps EXCEPT ![g].pc = "check_complete"] ELSE cps

\* ... and so are the choice points above it.
PruneToGenerator(g) == breg' = IF cps[g].pc # "answer_return" THEN g ELSE breg

\* A completed subgoal takes no more answers, and an answer is entered once.
NewAnswer ==
  /\ mode = "run" /\ ~IsCall(cont)
  /\ cont.root \in Subgoal /\ Derives(cont)
  /\ mode' = "fail"
  /\ LET s == cont.root
         a == Derive[Clause(cont)][cont.ans]
         isNewAnswer == ~is_completed(s) /\ a \notin Range(table[s].answers)
     IN
     \/ /\ isNewAnswer
        /\ table' = [table EXCEPT ![s].answers = Append(@, a),
                                  ![s].status = IF CompletesEarly(s) THEN "complete" ELSE @]
        /\ \/ CompletesEarly(s) /\ MarkEarly(table[s].cp_ptr) /\ PruneToGenerator(table[s].cp_ptr)
           \/ ~CompletesEarly(s) /\ UNCHANGED <<cps, breg>>
     \/ ~isNewAnswer /\ UNCHANGED <<table, cps, breg>>
  /\ UNCHANGED <<prog, cont, complstk, level_num, returned>>

QuerySolution ==
  /\ mode = "run" /\ ~IsCall(cont)
  /\ cont.root = Query /\ Derives(cont)
  /\ returned' = Append(returned, cont.ans)
  /\ mode' = "fail"
  /\ UNCHANGED <<prog, cont, breg, cps, complstk, level_num, table>>

ClauseFails ==
  /\ mode = "run" /\ ~IsCall(cont) /\ ~Derives(cont)
  /\ mode' = "fail"
  /\ UNCHANGED <<prog, cont, breg, cps, complstk, level_num, table, returned>>

-----------------------------------------------------------------------------
(* Backtracking: Fail1 runs the alternative of the choice point at breg. *)

Backtrack(pc) == mode = "fail" /\ breg # 0 /\ cps[breg].pc = pc

\* tableretry and tabletrust
NextClause ==
  /\ Backtrack("clause")
  /\ LET g == cps[breg] IN
     /\ cont' = [root |-> g.sg, clause |-> g.next, ans |-> <<>>]
     /\ cps' = [cps EXCEPT ![breg].pc = AfterClause(g.sg, g.next),
                           ![breg].next = @ + 1]
  /\ mode' = "run"
  /\ UNCHANGED <<prog, breg, complstk, level_num, table, returned>>

NextFromTrie ==
  /\ Backtrack("trie")
  /\ LET t == cps[breg] IN
     \E a \in t.todo :
        /\ cont' = With(t.cont, a)
        /\ cps' = [cps EXCEPT ![breg].todo = @ \ {a}]
        /\ breg' = IF t.todo = {a} THEN t.prev ELSE breg
  /\ mode' = "run"
  /\ UNCHANGED <<prog, complstk, level_num, table, returned>>

answer_return ==
  /\ Backtrack("answer_return")
  /\ LET c == cps[breg]
         answers == table[c.sg].answers
     IN
     \/ /\ c.ret < Len(answers)
        /\ cont' = With(c.cont, answers[c.ret + 1])
        /\ cps' = [cps EXCEPT ![breg].ret = @ + 1]
        /\ mode' = "run"
        /\ UNCHANGED breg
     \/ /\ c.ret = Len(answers)
        /\ breg' = c.prev
        /\ UNCHANGED <<cont, cps, mode>>
  /\ UNCHANGED <<prog, complstk, level_num, table, returned>>

Halt ==
  /\ mode = "fail" /\ breg = 0
  /\ mode' = "halt"
  /\ UNCHANGED <<prog, cont, breg, cps, complstk, level_num, table, returned>>

-----------------------------------------------------------------------------
(* Scheduling (schedrev_xsb_i.h) *)

\* The consumers of a subgoal, youngest first, as nlcp_prevlookup links them.
ConsumerList(s) ==
  LET L[c \in 0..Len(cps)] == IF c = 0 THEN <<>> ELSE <<c>> \o L[cps[c].lookup]
  IN L[table[s].pos_cons]

Pending(c) == cps[c].ret < Len(table[cps[c].sg].answers)

\* The subgoal that made the call of consumer c (nlcp_ptcp) is completed, so
\* nobody needs c any more.
RootCompleted(c) == cps[c].cont.root \in Subgoal /\ is_completed(cps[c].cont.root)

\* One turn of the loop of sched_answers.  acc.last is last_perm_cpf, which
\* starts as the address of subg_pos_cons (here -1).
SchedConsumer(acc, c) ==
  CASE ~Pending(c) -> acc
    [] Pending(c) /\ RootCompleted(c) /\ acc.last = -1 ->
         [acc EXCEPT !.last = acc.lookup[c]]
    [] Pending(c) /\ RootCompleted(c) /\ acc.last # -1 ->
         [acc EXCEPT !.lookup[acc.last] = acc.lookup[c]]
    [] OTHER ->
         [acc EXCEPT !.last = acc.lookup[c], !.chain = Append(@, c)]

\* The consumers sched_answers(s) schedules, in order, and the lookup chain it
\* leaves behind.
sched_answers(s, lookup) ==
  FoldLeft(SchedConsumer, [last |-> -1, lookup |-> lookup, chain |-> <<>>],
           ConsumerList(s))

Lookups == [c \in DOMAIN cps |-> cps[c].lookup]

\* The frames above the leader's, youngest first.
FramesAbove(leader) == [j \in 1..(Len(complstk) - leader) |-> Len(complstk) + 1 - j]

\* One turn of the loop of find_fixpoint: the consumers of one more frame.
SchedFrame(acc, i) ==
  LET r == sched_answers(complstk[i].sg, acc.lookup)
  IN [lookup |-> r.lookup, chain |-> acc.chain \o r.chain]

find_fixpoint(leader, lookup) ==
  FoldLeft(SchedFrame, [lookup |-> lookup, chain |-> <<>>], FramesAbove(leader))

\* Mutant: the last consumer leads back to the first one.
LinkedInACycle(chain, lookup, retarget) ==
  [c \in DOMAIN cps |->
     IF c \in Range(chain)
       THEN LET j == CHOOSE n \in DOMAIN chain : chain[n] = c
            IN [cps[c] EXCEPT !.prev = chain[(j % Len(chain)) + 1]]
       ELSE cps[c]]

\* Links the chain through the prev fields; its last consumer leads back to the
\* choice point that runs check_complete.
Linked(chain, lookup, retarget) ==
  [c \in DOMAIN cps |->
     [cps[c] EXCEPT !.lookup = lookup[c],
                    !.prev = IF c \in Range(chain)
                               THEN LET j == CHOOSE n \in DOMAIN chain : chain[n] = c
                                    IN IF j = Len(chain) THEN breg ELSE chain[j + 1]
                               ELSE IF c \in retarget THEN breg ELSE @]]

\* A completed subgoal whose consumers have been scheduled needs its list no more.
DropConsumers(subgoals) ==
  [s \in Subgoal |-> IF s \in subgoals /\ is_completed(s) /\ table[s].answers # <<>>
                       THEN [table[s] EXCEPT !.pos_cons = 0]
                       ELSE table[s]]

-----------------------------------------------------------------------------
(* check_complete *)

\* Whatever the subgoal's place in its SCC, its own consumers are resumed first.
ScheduleOwn(s) ==
  LET r == sched_answers(s, Lookups) IN
  /\ r.chain # <<>>
  /\ breg' = Head(r.chain)
  /\ cps' = Linked(r.chain, r.lookup, {})
  /\ table' = DropConsumers({s})
  /\ UNCHANGED <<mode, cont, complstk, level_num>>

Above(i) == {complstk[j].sg : j \in (i + 1)..Len(complstk)}

\* Mutant: only the leader is marked as completed.
LeaderAlone(i) == {complstk[i].sg}

CompletedBy(i) == {complstk[j].sg : j \in i..Len(complstk)}

\* A leader resumes the consumers of the other subgoals of its SCC.
ScheduleSCC(i) ==
  LET own == sched_answers(complstk[i].sg, Lookups)
      r == find_fixpoint(i, own.lookup)
  IN
  /\ own.chain = <<>>
  /\ is_leader(i)
  /\ r.chain # <<>>
  /\ breg' = Head(r.chain)
  /\ cps' = Linked(r.chain, r.lookup, {table[t].pos_cons : t \in Above(i)})
  /\ table' = DropConsumers({complstk[i].sg} \cup Above(i))
  /\ UNCHANGED <<mode, cont, complstk, level_num>>

\* The stacks of the SCC are freed and the leader's answers are returned from
\* the trie, whose choice point takes the place of the generator.
ReturnFromLeader(answers) ==
  EnterTrie(SubSeq(cps, 1, breg - 1), answers, cps[breg].cont, cps[breg].prev)

\* No consumer in the SCC has an answer left to take: the leader completes it.
CompleteSCC(i) ==
  LET s == complstk[i].sg
      own == sched_answers(s, Lookups)
      answers == Range(table[s].answers)
  IN
  /\ own.chain = <<>>
  /\ is_leader(i)
  /\ find_fixpoint(i, own.lookup).chain = <<>>
  /\ table' = [t \in Subgoal |-> IF t \in CompletedBy(i)
                                   THEN [table[t] EXCEPT !.status = "complete", !.pos_cons = 0]
                                   ELSE table[t]]
  /\ complstk' = SubSeq(complstk, 1, i - 1)
  /\ level_num' = IF i = 1 THEN 0 ELSE level_num
  /\ \/ ReturnFromLeader(answers)
     \/ /\ answers = {}
        /\ breg' = cps[breg].prev
        /\ cps' = SubSeq(cps, 1, breg - 1)
        /\ UNCHANGED <<cont, mode>>

\* A subgoal that is not a leader waits for its leader as one more consumer.
makeConsumerFromGenerator(i) ==
  LET s == complstk[i].sg
      own == sched_answers(s, Lookups)
  IN
  /\ own.chain = <<>>
  /\ ~is_leader(i)
  /\ LET dropped == DropConsumers({s}) IN
     /\ cps' = [Linked(<<>>, own.lookup, {}) EXCEPT
                  ![breg].pc = "answer_return", ![breg].ret = 0,
                  ![breg].lookup = dropped[s].pos_cons]
     /\ table' = [dropped EXCEPT ![s].pos_cons = breg]
  /\ breg' = cps[breg].prev
  /\ UNCHANGED <<mode, cont, complstk, level_num>>

check_complete ==
  /\ Backtrack("check_complete")
  /\ LET s == cps[breg].sg IN
     \/ ScheduleOwn(s)
     \/ ScheduleSCC(FrameOf(s))
     \/ CompleteSCC(FrameOf(s))
     \/ makeConsumerFromGenerator(FrameOf(s))
  /\ UNCHANGED <<prog, returned>>

-----------------------------------------------------------------------------
Next ==
  \/ NewProducer \/ CallCompleted \/ NewConsumer
  \/ NewAnswer \/ QuerySolution \/ ClauseFails
  \/ NextClause \/ NextFromTrie \/ answer_return
  \/ check_complete \/ Halt
  \/ mode = "halt" /\ UNCHANGED vars

\* The emulator executes one instruction after another until the query is done.
Spec == Init /\ [][Next]_vars /\ WF_vars(Next)

-----------------------------------------------------------------------------
(* The meaning of a program: its least model, the intersection of the sets   *)
(* of atoms <<subgoal, answer>> that are closed under its clauses.           *)

BodyHolds(c, t, M) == \A j \in DOMAIN t : <<Calls[c][j], t[j]>> \in M

LeastModel(p) ==
  LET heads == UNION {UNION {{<<s, Derive[c][t]>> : t \in DOMAIN Derive[c]} :
                               c \in Range(p.clauses[s])} : s \in Subgoal}
      models == {M \in SUBSET heads :
                   \A s \in Subgoal : \A c \in Range(p.clauses[s]) :
                     \A t \in DOMAIN Derive[c] :
                       BodyHolds(c, t, M) => <<s, Derive[c][t]>> \in M}
  IN {a \in heads : \A M \in models : a \in M}

Models == [p \in Programs |-> LeastModel(p)]

AnswersOf(s) == {a[2] : a \in {b \in Models[prog] : b[1] = s}}

Solutions ==
  LET c == prog.clauses[Query][1]
  IN {t \in DOMAIN Derive[c] : BodyHolds(c, t, Models[prog])}

-----------------------------------------------------------------------------
TypeOK ==
  /\ mode \in {"run", "fail", "halt"}
  /\ cont.root \in Subgoal \cup {Query}
  /\ breg \in 0..Len(cps)
  /\ \A c \in DOMAIN cps :
       /\ cps[c].pc \in {"clause", "check_complete", "answer_return", "trie"}
       /\ cps[c].prev \in 0..Len(cps)
       /\ cps[c].lookup \in 0..Len(cps)
  /\ \A i \in DOMAIN complstk : complstk[i].sg \in Subgoal
  /\ \A s \in Subgoal :
       /\ table[s].status \in {"new", "incomplete", "complete"}
       /\ table[s].pos_cons \in 0..Len(cps)
       /\ table[s].status = "incomplete" => \E i \in DOMAIN complstk : complstk[i].sg = s

\* check_complete and early completion mark a table completed only when it holds
\* exactly the answers the program gives to the subgoal, each once.
CompletedIsModel ==
  \A s \in Subgoal : is_completed(s) =>
     /\ Range(table[s].answers) = AnswersOf(s)
     /\ Len(table[s].answers) = Cardinality(AnswersOf(s))

\* Backtracking through generators, consumers and completed tries brings the
\* query every solution exactly once: no suspended branch is lost or run twice.
QueryGetsSolutionsOnce ==
  mode = "halt" =>
     /\ Range(returned) = Solutions
     /\ Len(returned) = Cardinality(Solutions)

\* sched_answers "schedules all consumers for a given subgoal": when neither it
\* nor find_fixpoint returns a consumer, so that the leader is about to complete
\* its SCC, no consumer that is still needed has an answer left to take.
CompletionServesConsumers ==
  Backtrack("check_complete") =>
    LET i == FrameOf(cps[breg].sg)
        scc == {cps[breg].sg} \cup Above(i)
    IN (/\ is_leader(i)
        /\ sched_answers(cps[breg].sg, Lookups).chain = <<>>
        /\ find_fixpoint(i, Lookups).chain = <<>>)
       => \A c \in DOMAIN cps :
            cps[c].pc = "answer_return" /\ cps[c].sg \in scc /\ Pending(c)
              => RootCompleted(c)

\* A consumer whose calling subgoal still needs answers can be resumed: it is on
\* its producer's list, where sched_answers will find it when an answer arrives.
ConsumersReachable ==
  \A c \in DOMAIN cps :
    cps[c].pc = "answer_return" /\ table[cps[c].sg].status = "incomplete" /\ ~RootCompleted(c)
      => c \in Range(ConsumerList(cps[c].sg))

\* Levels approximate the SCCs from above: a subgoal that waits for an answer of an
\* older one is in the older one's SCC, so it is not completed before it.
LevelsCoverCalls ==
  \A c \in DOMAIN cps : cps[c].pc = "answer_return" =>
    \A i, j \in DOMAIN complstk :
      complstk[i].sg = cps[c].sg /\ complstk[j].sg = cps[c].cont.root /\ i < j
        => complstk[i].level = complstk[j].level

\* Every evaluation ends: no cycle of calls is evaluated for ever.
Terminates == <>(mode = "halt")
=============================================================================
