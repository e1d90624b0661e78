----------------------------- MODULE WellFounded -----------------------------
(***************************************************************************)
(* Tabled evaluation with negation under local scheduling: the literals of  *)
(* an SCC that are not settled are delayed, answers become conditional on   *)
(* them, and simplification settles them when what they depend on is known  *)
(* (emu/slgdelay.c, with its callers in slginsts_xsb_i.h, bineg_xsb_i.h and *)
(* complete_local.h).  Answer completion (syslib/tables.P) then removes the *)
(* answers that only support each other.                                    *)
(*                                                                          *)
(* An answer is <<subgoal, n>>; n = 0 is the escape node of a ground        *)
(* subgoal.  A literal is an answer and a sign; negative ones are ground.   *)
(* A clause [head, body] is one instance of a program clause, and a         *)
(* continuation is an environment that has come to literal `at' of one.     *)
(* Delay lists are named by numbers that are used again, like addresses.    *)
(* The simplification functions call each other: `calls' is the C stack,    *)
(* and an iteration of the loop of the innermost call is one step.          *)
(***************************************************************************)
EXTENDS Naturals, FiniteSets, Sequences, SequencesExt

CONSTANTS
  Atom,       \* the answers that the programs can have
  Programs,   \* records [clauses, query, ac, exact]: a set of clauses, the subgoal
              \* that is called first, flags[ANSWER_COMPLETION], and whether the
              \* evaluation should decide all that the model decides (see Exact)
  MaxDL       \* bound on the number of delay lists in use at once

VARIABLES
  prog,       \* the program that runs
  wfm,        \* its well-founded model, for the properties
  status,     \* of a subgoal: "new", "incomplete" or "complete"
  sccs,       \* the completion stack: the frames of each SCC, oldest first
  conts,      \* continuations that are not exhausted
  ans,        \* of an answer: "none", "cond", "marked", "uncond" or "deleted"
  rootless,   \* subgoals whose answer trie has been forgotten
  answers,    \* subg_answers: "list", or "no", "cond", "uncond" once reclaimed
  dl,         \* delay lists: the answer each belongs to and its delay elements
  pnde,       \* of a literal: the delay lists that hold it, latest first
  needsAC,    \* subgoals that are to be answer completed
  deferred,   \* dyn_simplify_neg_fails_stack
  calls       \* simplification calls under way, innermost first

tables == <<ans, rootless, answers, dl, pnde, needsAC, deferred>>
vars == <<prog, wfm, status, sccs, conts, tables, calls>>

Subgoal == {a[1] : a \in Atom}
Not(s)  == [neg |-> TRUE, of |-> <<s, 0>>]
Is(a)   == [neg |-> FALSE, of |-> a]
Literal == [neg : BOOLEAN, of : Atom]
Of(s)   == {a \in Atom : a[1] = s}

\* A ground subgoal has no other answer than its escape node.
ASSUME WellFoundedAssumption ==
  /\ IsFiniteSet(Atom) /\ MaxDL \in Nat
  /\ \A a \in Atom : a = <<a[1], a[2]>> /\ (<<a[1], 0>> \in Atom => a[2] = 0)
  /\ \A p \in Programs :
       /\ p.query \in Subgoal /\ p.ac \in BOOLEAN
       /\ \A c \in p.clauses :
            /\ c.head \in Atom /\ c.body \in Seq(Literal)
            /\ \A l \in Range(c.body) : l.neg => l.of[2] = 0

-----------------------------------------------------------------------------
(* The well-founded model of a set of rules [head, pos, neg], by alternating *)
(* fixpoints.                                                                *)

\* F(e), and the n-th iterate of F from {}; e, a set, is evaluated once.
With(e, F(_)) == UNION {F(x) : x \in {e}}
Iterate(F(_), n) ==
  LET f[i \in 0 .. n] == IF i = 0 THEN {} ELSE With(f[i - 1], F) IN f[n]

\* What follows from the rules once the negative literals on I are false.
Consequences(R, I) ==
  Iterate(LAMBDA m : {r.head : r \in {x \in R : x.pos \subseteq m /\ x.neg \cap I = {}}},
          Cardinality(R))

\* The atoms that are true, and the ones that are not false.
WFTrue(R) ==
  Iterate(LAMBDA m : With(Consequences(R, m), LAMBDA i : Consequences(R, i)), Cardinality(R))
WFPossible(R) == With(WFTrue(R), LAMBDA i : Consequences(R, i))

Rule(h, lits) == [head |-> h, pos |-> {l.of : l \in {x \in lits : ~x.neg}},
                              neg |-> {l.of : l \in {x \in lits : x.neg}}]
RulesOf(p) == {Rule(c.head, Range(c.body)) : c \in p.clauses}

-----------------------------------------------------------------------------
(* What the code asks of a table.                                            *)

Completed(s) == status[s] = "complete"

\* has_answer_code and subgoal_fails: the answer trie has a leaf.
Has(a)           == ans[a] \in {"cond", "marked", "uncond"} /\ a[1] \notin rootless
SubgoalFails(s)  == \A a \in Of(s) : ~Has(a)
Unconditional(a) == ans[a] \in {"marked", "uncond"}

\* has_no_answers and varsf_has_unconditional_answers, which look at the list of
\* answers until it is reclaimed and at its tag afterwards.  A deleted answer stays
\* on the list.
HasNoAnswers(s) ==
  \/ answers[s] = "no"
  \/ answers[s] = "list" /\ \A a \in Of(s) : ans[a] = "none"
HasUnconditional(s) ==
  \/ answers[s] = "uncond"
  \/ answers[s] = "list" /\ \E a \in Of(s) : Unconditional(a)

\* subg_nde_list.
NDEs(s) == IF <<s, 0>> \in Atom THEN pnde[Not(s)] ELSE <<>>

DLsOf(a) == {d \in DOMAIN dl : dl[d].asl = a}

\* Mutant: the elements of released lists stay where they are.
Unlinked_not(D) == pnde

\* The elements of s that are not in X.
Filtered(s, X) ==
  LET f[i \in 0 .. Len(s)] ==
        IF i = 0 THEN <<>> ELSE IF s[i] \in X THEN f[i - 1] ELSE Append(f[i - 1], s[i])
  IN  f[Len(s)]

\* The lists of delay lists without those of D, whose elements are released.
Unlinked(D) == [l \in Literal |-> Filtered(pnde[l], {d \in D : l \in dl[d].des})]
Without(D) == [d \in DOMAIN dl \ D |-> dl[d]]

Call(op, x) == [op |-> op, on |-> x]
Top         == Head(calls)
In(op)      == calls # <<>> /\ Top.op = op

-----------------------------------------------------------------------------
(* Clause resolution.                                                        *)

Start(s) == [c : {c \in prog.clauses : c.head[1] = s}, at : {1}, delays : {{}},
             st : {"run"}]

Root(k)    == k.c.head[1]
AtEnd(k)   == k.at > Len(k.c.body)
Lit(k)     == k.c.body[k.at]
Callee(k)  == Lit(k).of[1]
Next1(k, D) == [k EXCEPT !.at = @ + 1, !.delays = @ \cup D, !.st = "run"]
Becomes(k, new) == conts' = (conts \ {k}) \cup new

InTop(s) == sccs # <<>> /\ s \in Range(Last(sccs))

\* Only the topmost SCC is evaluated, and nothing while simplification goes on.
Active(k) == calls = <<>> /\ InTop(Root(k))

\* A completed table that has answers is answer completed before it is used.
ToAnswerComplete(s) ==
  Completed(s) /\ prog.ac /\ s \in needsAC /\ ~SubgoalFails(s)
Usable(s) == Completed(s) /\ ~ToAnswerComplete(s)

\* tabletry of a new subgoal, also from tnot: it becomes an SCC of its own.
CallNew(k) ==
  /\ Active(k) /\ ~AtEnd(k) /\ status[Callee(k)] = "new"
  /\ status' = [status EXCEPT ![Callee(k)] = "incomplete"]
  /\ sccs' = Append(sccs, <<Callee(k)>>)
  /\ Becomes(k, {[k EXCEPT !.st = "wait"]} \cup Start(Callee(k)))
  /\ UNCHANGED <<prog, wfm, tables, calls>>

\* Mutant: the SCC of the subgoal itself is left out.
Merged_above(n) == FlattenSeq(SubSeq(sccs, n + 1, Len(sccs)))

\* adjust_level: the frames from SCC n upwards.
Merged(n) == FlattenSeq(SubSeq(sccs, n, Len(sccs)))

\* A consumer, or a completion suspension, of an incomplete subgoal: adjust_level
\* makes one SCC of everything above the subgoal.  A ground subgoal that calls
\* itself does not consume a conditional answer it has already.
CallIncomplete(k) ==
  /\ Active(k) /\ ~AtEnd(k) /\ k.st = "run" /\ status[Callee(k)] = "incomplete"
  /\ LET n == CHOOSE i \in DOMAIN sccs : Callee(k) \in Range(sccs[i])
     IN  sccs' = Append(SubSeq(sccs, 1, n - 1), Merged(n))
  /\ LET direct == Lit(k) = Is(<<Root(k), 0>>) /\ ans[<<Root(k), 0>>] = "cond"
     IN  Becomes(k, IF direct THEN {} ELSE {[k EXCEPT !.st = "wait"]})
  /\ UNCHANGED <<prog, wfm, status, tables, calls>>

\* An answer is returned to a consumer of an incomplete table, or by the trie code
\* of a completed one; a conditional answer is delayed.
Return(k) ==
  /\ Active(k) /\ ~AtEnd(k) /\ ~Lit(k).neg
  /\ \/ status[Callee(k)] = "incomplete" /\ k.st = "wait"
     \/ Usable(Callee(k))
  /\ Has(Lit(k).of)
  /\ Becomes(k, {Next1(k, IF Unconditional(Lit(k).of) THEN {} ELSE {Lit(k)})})
  /\ UNCHANGED <<prog, wfm, status, sccs, tables, calls>>

\* A completed table does not have the answer.
Exhausted(k) ==
  /\ Active(k) /\ ~AtEnd(k) /\ ~Lit(k).neg
  /\ Usable(Callee(k)) /\ ~Has(Lit(k).of)
  /\ Becomes(k, {})
  /\ UNCHANGED <<prog, wfm, status, sccs, tables, calls>>

\* is_incomplete finds a completed table, or a completion suspension is resumed with
\* neg_delay; then slg_not.
SlgNot(k) ==
  /\ Active(k) /\ ~AtEnd(k) /\ Lit(k).neg
  /\ Usable(Callee(k)) \/ k.st = "resumed"
  /\ LET s == Callee(k)
     IN  Becomes(k, IF HasNoAnswers(s) /\ Completed(s) THEN {Next1(k, {})}
                    ELSE IF HasUnconditional(s) THEN {}
                    ELSE {Next1(k, {Lit(k)})})
  /\ UNCHANGED <<prog, wfm, status, sccs, tables, calls>>

-----------------------------------------------------------------------------
(* Answers.                                                                  *)

\* is_failing_delay_element and was_simplifiable.  (A positive element fails if its
\* answer is deleted; by Simplified it is not.)
Failing(l) ==
  l.neg /\ Completed(l.of[1]) /\ Has(l.of) /\ Unconditional(l.of)

\* Mutant: a positive element is not looked at again.
WasSimplifiable_negative(l) == l.neg /\ Completed(l.of[1]) /\ SubgoalFails(l.of[1])

WasSimplifiable(l) ==
  IF l.neg THEN Completed(l.of[1]) /\ SubgoalFails(l.of[1])
           ELSE Unconditional(l.of)

\* A delay list D for answer a: intern_delay_list, mark_conditional_answer and
\* record_de_usage.
AddDL(a, D) ==
  LET d == CHOOSE n \in 1 .. MaxDL :
             n \notin DOMAIN dl /\ \A m \in 1 .. n - 1 : m \in DOMAIN dl
  IN  /\ dl' = [e \in DOMAIN dl \cup {d} |->
                  IF e = d THEN [asl |-> a, des |-> D] ELSE dl[e]]
      /\ pnde' = [l \in Literal |-> IF l \in D THEN <<d>> \o pnde[l] ELSE pnde[l]]

\* release_all_dls and unmark_conditional_answer, before the loop of
\* simplify_pos_unconditional.
Mark(a) ==
  /\ ans' = [ans EXCEPT ![a] = "marked"]
  /\ pnde' = Unlinked(DLsOf(a))
  /\ dl' = Without(DLsOf(a))

\* new_answer_dealloc, with table_answer_search and do_delay_stuff: what it does not
\* add.
Rejected(k) == Completed(Root(k)) \/ \E l \in k.delays : Failing(l)
Left(k)     == {l \in k.delays : ~WasSimplifiable(l)}

RejectAnswer(k) ==
  /\ Active(k) /\ AtEnd(k) /\ Rejected(k)
  /\ Becomes(k, {})
  /\ UNCHANGED <<prog, wfm, status, sccs, tables, calls>>

\* An answer with delays adds a delay list, unless the answer is unconditional.
ConditionalAnswer(k) ==
  LET a == k.c.head
  IN  /\ Active(k) /\ AtEnd(k) /\ ~Rejected(k)
      /\ Left(k) # {} /\ ~(Has(a) /\ Unconditional(a))
      /\ ~(1 .. MaxDL \subseteq DOMAIN dl)
      /\ Becomes(k, {})
      /\ ans' = [ans EXCEPT ![a] = "cond"]
      /\ AddDL(a, Left(k))
      /\ UNCHANGED <<prog, wfm, status, sccs, rootless, answers, needsAC, deferred, calls>>

\* A new unconditional answer, or one more derivation of an unconditional one.  The
\* new one completes a ground subgoal early.
UnconditionalAnswer(k) ==
  LET a == k.c.head
      s == Root(k)
  IN  /\ Active(k) /\ AtEnd(k) /\ ~Rejected(k)
      /\ IF Has(a) THEN Unconditional(a) ELSE Left(k) = {}
      /\ Becomes(k, {})
      /\ ans' = [ans EXCEPT ![a] = "uncond"]
      /\ calls' = (IF NDEs(s) = <<>> THEN <<>> ELSE <<Call("neg_succeeds", s)>>) \o
                  (IF a[2] = 0 /\ ~Has(a) THEN <<Call("early", s)>> ELSE <<>>)
      /\ UNCHANGED <<prog, wfm, status, sccs, rootless, answers, dl, pnde, needsAC, deferred>>

\* A conditional answer is derived without delays.  This does not complete a subgoal
\* early, the answer is not new.
BecomesUnconditional(k) ==
  LET a == k.c.head
      s == Root(k)
  IN  /\ Active(k) /\ AtEnd(k) /\ ~Rejected(k)
      /\ Left(k) = {} /\ Has(a) /\ ~Unconditional(a)
      /\ Becomes(k, {})
      /\ Mark(a)
      /\ calls' = <<Call("pos_unconditional", a), Call("neg_succeeds", s)>>
      /\ UNCHANGED <<prog, wfm, status, sccs, rootless, answers, needsAC, deferred>>

-----------------------------------------------------------------------------
(* Simplification.                                                           *)

\* The loop of simplify_pos_unconditional and of simplify_neg_fails: literal l holds
\* and is removed from a delay list (remove_de_from_dl).  The answer of a list that
\* becomes empty is unconditional (handle_empty_dl_creation).
RemoveDE(l) ==
  LET d == Head(pnde[l])
      b == dl[d].asl
  IN  /\ pnde[l] # <<>>
      /\ IF dl[d].des # {l}
         THEN /\ dl' = [dl EXCEPT ![d].des = @ \ {l}]
              /\ pnde' = [pnde EXCEPT ![l] = Tail(@)]
              /\ UNCHANGED <<ans, calls>>
         ELSE /\ Mark(b)
              /\ calls' = <<Call("pos_unconditional", b), Call("early", b[1]),
                            Call("neg_succeeds", b[1])>> \o calls
      /\ UNCHANGED <<prog, wfm, status, sccs, conts, rootless, answers, needsAC, deferred>>

\* The loop of simplify_neg_succeeds and of simplify_pos_unsupported: literal l does
\* not hold and a delay list with it is released.  The answer that loses its last
\* list is deleted (handle_unsupported_answer_subst).
RemoveDL(l) ==
  LET d == Head(pnde[l])
      b == dl[d].asl
  IN  /\ pnde[l] # <<>>
      /\ dl' = Without({d})
      /\ pnde' = Unlinked({d})
      /\ IF DLsOf(b) # {d}
         THEN UNCHANGED <<ans, calls>>
         ELSE /\ ans' = [ans EXCEPT ![b] = "deleted"]
              /\ calls' = <<Call("pos_unsupported", b), Call("unsupported", b)>> \o calls
      /\ UNCHANGED <<prog, wfm, status, sccs, conts, rootless, answers, needsAC, deferred>>

PosUnconditional == In("pos_unconditional") /\ RemoveDE(Is(Top.on))
PosUnsupported   == In("pos_unsupported") /\ RemoveDL(Is(Top.on))
NegSucceeds      == In("neg_succeeds") /\ NDEs(Top.on) # <<>> /\ RemoveDL(Not(Top.on))
NegFails         == In("neg_fails_loop") /\ NDEs(Top.on) # <<>> /\ RemoveDE(Not(Top.on))

\* The end of simplify_pos_unconditional.  The first answer of a reclaimed table that
\* becomes unconditional counts for the whole subgoal.
EndPosUnconditional ==
  LET s == Top.on[1]
  IN  /\ In("pos_unconditional") /\ pnde[Is(Top.on)] = <<>>
      /\ ans' = [ans EXCEPT ![Top.on] = "uncond"]
      /\ IF answers[s] = "cond"
         THEN answers' = [answers EXCEPT ![s] = "uncond"] /\ needsAC' = needsAC \ {s}
         ELSE UNCHANGED <<answers, needsAC>>
      /\ calls' = Tail(calls)
      /\ UNCHANGED <<prog, wfm, status, sccs, conts, rootless, dl, pnde, deferred>>

\* perform_early_completion, of a ground subgoal only.
EarlyCompletion ==
  /\ In("early")
  /\ status' = IF <<Top.on, 0>> \in Atom THEN [status EXCEPT ![Top.on] = "complete"]
                                         ELSE status
  /\ calls' = Tail(calls)
  /\ UNCHANGED <<prog, wfm, sccs, conts, tables>>

\* The end of simplify_neg_succeeds.  (answer_complete_subg is called at its start; the
\* flag is not looked at in between.)
EndNegSucceeds ==
  /\ In("neg_succeeds") /\ NDEs(Top.on) = <<>>
  /\ needsAC' = needsAC \ {Top.on}
  /\ calls' = Tail(calls)
  /\ UNCHANGED <<prog, wfm, status, sccs, conts, ans, rootless, answers, dl, pnde, deferred>>

\* The end of simplify_pos_unsupported, and of handle_unsupported_answer_subst: a
\* completed subgoal that has lost its last answer fails.
EndPosUnsupported ==
  /\ In("pos_unsupported") /\ pnde[Is(Top.on)] = <<>>
  /\ calls' = Tail(calls)
  /\ UNCHANGED <<prog, wfm, status, sccs, conts, tables>>

Unsupported ==
  LET s == Top.on[1]
  IN  /\ In("unsupported")
      /\ calls' = (IF Completed(s) /\ SubgoalFails(s) THEN <<Call("neg_fails", s)>>
                   ELSE <<>>) \o Tail(calls)
      /\ UNCHANGED <<prog, wfm, status, sccs, conts, tables>>

\* simplify_neg_fails inside simplify_neg_fails only puts the subgoal on a stack.
StartNegFails ==
  LET s == Top.on
  IN  /\ In("neg_fails")
      /\ IF \E i \in DOMAIN calls : calls[i].op = "neg_fails_loop"
         THEN /\ deferred' = Append(deferred, s)
              /\ calls' = Tail(calls)
              /\ UNCHANGED <<answers, needsAC>>
         ELSE /\ answers' = [answers EXCEPT ![s] = "no"]
              /\ needsAC' = needsAC \ {s}
              /\ calls' = <<Call("neg_fails_loop", s)>> \o Tail(calls)
              /\ UNCHANGED deferred
      /\ UNCHANGED <<prog, wfm, status, sccs, conts, ans, rootless, dl, pnde>>

\* Mutant: the subgoal stays on the stack.
EndNegFails_kept ==
  /\ In("neg_fails_loop") /\ NDEs(Top.on) = <<>>
  /\ calls' = IF deferred = <<>> THEN Tail(calls)
              ELSE <<Call("neg_fails_loop", Last(deferred))>> \o Tail(calls)
  /\ UNCHANGED <<prog, wfm, status, sccs, conts, tables>>

EndNegFails ==
  /\ In("neg_fails_loop") /\ NDEs(Top.on) = <<>>
  /\ IF deferred = <<>>
     THEN calls' = Tail(calls) /\ UNCHANGED deferred
     ELSE /\ calls' = <<Call("neg_fails_loop", Last(deferred))>> \o Tail(calls)
          /\ deferred' = Front(deferred)
  /\ UNCHANGED <<prog, wfm, status, sccs, conts, ans, rootless, answers, dl, pnde, needsAC>>

-----------------------------------------------------------------------------
(* Completion.                                                               *)

\* check_complete of the leader at a fixpoint: every continuation of the SCC waits
\* for an answer or is a completion suspension.
Waiting(k) ==
  /\ ~AtEnd(k) /\ k.st = "wait" /\ status[Callee(k)] = "incomplete"
  /\ Lit(k).neg \/ ~Has(Lit(k).of)
Fixpoint ==
  /\ calls = <<>> /\ sccs # <<>>
  /\ \A k \in conts : InTop(Root(k)) => Waiting(k)
Suspended == {k \in conts : InTop(Root(k)) /\ Lit(k).neg}

\* ProcessSuspensionFrames: all are resumed and delayed, except those whose own
\* subgoal is completed.
DelayAll ==
  LET live == {k \in Suspended : ~Completed(Root(k))}
  IN  /\ Fixpoint /\ live # {}
      /\ conts' = (conts \ Suspended) \cup {[k EXCEPT !.st = "resumed"] : k \in live}
      /\ UNCHANGED <<prog, wfm, status, sccs, tables, calls>>

\* Mutant: also a subgoal with answers.
NegSimplifPossible_any(s) == NDEs(s) # <<>>

NegSimplifPossible(s) == SubgoalFails(s) /\ NDEs(s) # <<>>

\* CompleteSimplifyAndReclaim.  If anything is to be simplified, the subgoals that
\* have answers and are not completed yet are to be answer completed.
StartCompletion ==
  LET scc == Range(Last(sccs))
  IN  /\ Fixpoint /\ \A k \in Suspended : Completed(Root(k))
      /\ needsAC' = IF \E s \in scc : NegSimplifPossible(s)
                    THEN needsAC \cup {s \in scc : ~Completed(s) /\ ~SubgoalFails(s)}
                    ELSE needsAC
      /\ calls' = <<Call("complete", Last(sccs))>>
      /\ UNCHANGED <<prog, wfm, status, sccs, conts, ans, rootless, answers, dl, pnde, deferred>>

\* The frames are marked from the leader upwards, each before the next.
CompleteFrame ==
  /\ In("complete") /\ Top.on # <<>>
  /\ LET s == Head(Top.on)
     IN  /\ status' = [status EXCEPT ![s] = "complete"]
         /\ calls' = (IF NegSimplifPossible(s) THEN <<Call("neg_fails", s)>> ELSE <<>>)
                       \o <<Call("complete", Tail(Top.on))>> \o Tail(calls)
  /\ UNCHANGED <<prog, wfm, sccs, conts, tables>>

\* reclaim_incomplete_table_structs leaves a tag in the place of the answer list,
\* and the SCC is popped.  The leaf of a deleted answer is looked at after it was
\* freed, and is found as conditional or not.
Tag(s, freed) ==
  IF SubgoalFails(s) THEN "no"
  ELSE IF \E a \in Of(s) : ans[a] = "cond" THEN "cond"
  ELSE IF \E a \in Of(s) : ans[a] = "deleted" THEN freed ELSE "uncond"
EndCompletion ==
  /\ In("complete") /\ Top.on = <<>>
  /\ \E freed \in {"cond", "uncond"} :
       answers' = [s \in Subgoal |-> IF InTop(s) THEN Tag(s, freed) ELSE answers[s]]
  /\ sccs' = Front(sccs)
  /\ conts' = {k \in conts : ~InTop(Root(k))}
  /\ calls' = Tail(calls)
  /\ UNCHANGED <<prog, wfm, status, ans, rootless, dl, pnde, needsAC, deferred>>

-----------------------------------------------------------------------------
(* Answer completion.                                                        *)

\* Mutant: the subgoals that need be answer completed are taken for true.
Residual_marked ==
  {Rule(dl[d].asl, dl[d].des) : d \in DOMAIN dl}
    \cup {Rule(a, {}) : a \in {b \in Atom : Unconditional(b) \/ b[1] \in needsAC}}

\* The residual program: eval_subgoal_in_residual takes a subgoal that need not be
\* answer completed for true.
Residual ==
  {Rule(dl[d].asl, dl[d].des) : d \in DOMAIN dl}
    \cup {Rule(a, {}) : a \in {b \in Atom : Unconditional(b) \/ b[1] \notin needsAC}}

\* The calls of eval_subgoal_in_residual that evaluating the answers A leads to.
Depends(A) ==
  {l.of : l \in UNION {dl[d].des : d \in {e \in DOMAIN dl :
            dl[e].asl \in A /\ dl[e].asl[1] \in needsAC}}}
Evaluated(A) ==
  LET reach[n \in 0 .. Cardinality(Atom)] ==
        IF n = 0 THEN Depends(A) ELSE LET r == reach[n - 1] IN r \cup Depends(r)
  IN  reach[Cardinality(Atom)]

\* The answers that are false in the residual program.
Unfounded == Atom \ With(Residual, WFPossible)

\* delete_answers_for_failing_calls: the answers of the calls that fail in the residual
\* program are to be made false, in the order in which the calls are found.
AnswersToComplete(s) ==
  LET A == {a \in Of(s) : Has(a)}
  IN  [sgs   |-> {s} \cup {a[1] : a \in Evaluated(A)},
       false |-> {a \in Unfounded : a \in Evaluated(A) \/ (A \subseteq Unfounded /\ a \in A)}]

\* answer_completion, before the answers of a completed table are used.
AnswerCompletion(k) ==
  /\ Active(k) /\ ~AtEnd(k)
  /\ ToAnswerComplete(Callee(k))
  /\ calls' = <<Call("ac", AnswersToComplete(Callee(k)))>>
  /\ UNCHANGED <<prog, wfm, status, sccs, conts, tables>>

\* force_answer_false.
ForceFalse(a) ==
  /\ In("ac") /\ a \in Top.on.false
  /\ Has(a) /\ ~Unconditional(a)
  /\ ans' = [ans EXCEPT ![a] = "deleted"]
  /\ pnde' = Unlinked(DLsOf(a))
  /\ dl' = Without(DLsOf(a))
  /\ calls' = <<Call("pos_unsupported", a), Call("failed", a[1]),
                Call("neg_fails", a[1])>> \o calls
  /\ UNCHANGED <<prog, wfm, status, sccs, conts, rootless, answers, needsAC, deferred>>

\* mark_subgoal_failed.
MarkSubgoalFailed ==
  /\ In("failed")
  /\ rootless' = rootless \cup {Top.on}
  /\ calls' = Tail(calls)
  /\ UNCHANGED <<prog, wfm, status, sccs, conts, ans, answers, dl, pnde, needsAC, deferred>>

\* The end of ac_loop, mark_succeeding_calls_as_answer_completed_and_fail.  (The loop
\* goes round again if the evaluation of the residual program was simplified itself,
\* which finds nothing new: the answers that were removed are false in its model.)
EndAnswerCompletion ==
  /\ In("ac") /\ \A a \in Top.on.false : ~Has(a) \/ Unconditional(a)
  /\ needsAC' = needsAC \ {s \in Top.on.sgs : ~SubgoalFails(s)}
  /\ calls' = Tail(calls)
  /\ UNCHANGED <<prog, wfm, status, sccs, conts, ans, rootless, answers, dl, pnde, deferred>>

-----------------------------------------------------------------------------
Init ==
  /\ prog \in Programs
  /\ wfm = LET R == RulesOf(prog) IN [true |-> WFTrue(R), possible |-> WFPossible(R)]
  /\ status = [s \in Subgoal |-> IF s = prog.query THEN "incomplete" ELSE "new"]
  /\ sccs = <<<<prog.query>>>>
  /\ conts = Start(prog.query)
  /\ ans = [a \in Atom |-> "none"]
  /\ rootless = {}
  /\ answers = [s \in Subgoal |-> "list"]
  /\ dl = <<>>
  /\ pnde = [l \in Literal |-> <<>>]
  /\ needsAC = {}
  /\ deferred = <<>>
  /\ calls = <<>>

Next ==
  \/ \E k \in conts : CallNew(k)
  \/ \E k \in conts : CallIncomplete(k)
  \/ \E k \in conts : Return(k)
  \/ \E k \in conts : Exhausted(k)
  \/ \E k \in conts : SlgNot(k)
  \/ \E k \in conts : RejectAnswer(k)
  \/ \E k \in conts : ConditionalAnswer(k)
  \/ \E k \in conts : UnconditionalAnswer(k)
  \/ \E k \in conts : BecomesUnconditional(k)
  \/ \E k \in conts : AnswerCompletion(k)
  \/ DelayAll \/ StartCompletion \/ CompleteFrame \/ EndCompletion
  \/ PosUnconditional \/ EndPosUnconditional \/ EarlyCompletion
  \/ NegSucceeds \/ EndNegSucceeds
  \/ PosUnsupported \/ EndPosUnsupported \/ Unsupported
  \/ StartNegFails \/ NegFails \/ EndNegFails
  \/ \E a \in Atom : ForceFalse(a)
  \/ MarkSubgoalFailed \/ EndAnswerCompletion

\* The engine is one thread that runs until the query is answered.
Spec == Init /\ [][Next]_vars /\ WF_vars(Next)

-----------------------------------------------------------------------------
(* Properties.                                                               *)

TypeOK ==
  /\ status \in [Subgoal -> {"new", "incomplete", "complete"}]
  /\ \A i \in DOMAIN sccs : sccs[i] # <<>> /\ Range(sccs[i]) \subseteq Subgoal
  /\ \A k \in conts : k.st \in {"run", "wait", "resumed"} /\ k.delays \subseteq Literal
  /\ ans \in [Atom -> {"none", "cond", "marked", "uncond", "deleted"}]
  /\ rootless \subseteq Subgoal
  /\ answers \in [Subgoal -> {"list", "no", "cond", "uncond"}]
  /\ \A d \in DOMAIN dl : dl[d].asl \in Atom /\ dl[d].des \subseteq Literal
  /\ \A l \in Literal : Range(pnde[l]) \subseteq 1 .. MaxDL
  /\ needsAC \subseteq Subgoal
  /\ Range(deferred) \subseteq Subgoal

\* Between two steps of clause resolution an unconditional answer is true in the
\* well-founded model of the program, and what a completed table does not have is
\* false in it.
Sound ==
  calls = <<>> => \A a \in Atom :
     /\ Has(a) /\ Unconditional(a) => a \in wfm.true
     /\ Completed(a[1]) /\ ~Has(a) => a \notin wfm.possible

\* An answer that is still conditional when its completed table is used is undefined
\* in the well-founded model: simplification decides all that is decided if there are
\* no positive loops, and together with answer completion also if there are.
Exact ==
  calls = <<>> /\ prog.exact => \A a \in Atom :
     Usable(a[1]) /\ Has(a) /\ ~Unconditional(a) =>
        a \in wfm.possible \ wfm.true

\* No delay list keeps a literal that is settled, whoever settled it and whenever the
\* list was made.  Nothing that is freed is found again, once simplification is over,
\* through a list of answers or the delays of an environment.
Simplified ==
  calls = <<>> =>
     /\ \A d \in DOMAIN dl : \A l \in dl[d].des :
          IF l.neg THEN ~HasUnconditional(l.of[1])
                        /\ ~(Completed(l.of[1]) /\ SubgoalFails(l.of[1]))
                   ELSE ans[l.of] = "cond"
     /\ \A a \in Atom : answers[a[1]] = "list" => ans[a] # "deleted"
     /\ \A k \in conts : \A l \in k.delays : l.neg \/ ans[l.of] \in {"cond", "uncond"}

\* An answer is conditional if and only if a delay list belongs to it.  A delay list
\* has elements, and its elements are the ones that know of it, once: nothing that is
\* freed is found again through the lists of delay elements.
IndexesAgree ==
  /\ \A d \in DOMAIN dl : dl[d].des # {}
  /\ \A a \in Atom : ans[a] = "cond" <=> DLsOf(a) # {}
  /\ \A l \in Literal :
       /\ Range(pnde[l]) = {d \in DOMAIN dl : l \in dl[d].des}
       /\ Len(pnde[l]) = Cardinality(Range(pnde[l]))

\* The query is answered.
Terminates == <>(sccs = <<>>)
=============================================================================
