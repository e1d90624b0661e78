---------------------------- MODULE MCLocalEval -----------------------------
(***************************************************************************)
(* Small programs for LocalEval over the subgoals sq, sp and sr, written q,  *)
(* p and r in clauses.  The query calls q; the answers are 1..MaxAnswer.    *)
(***************************************************************************)
EXTENDS TLC, LocalEval

CONSTANTS sq, sp, sr, query, MaxAnswer

Ans == 1..MaxAnswer

\* The kinds of clauses, by what they do with the answers of their calls,
\* followed by these calls.
ClauseNames ==
  {<<"fact">>} \cup ({"copy", "succ", "one", "last", "none"} \X Subgoal)
               \cup ({"both", "equal", "none"} \X Subgoal \X Subgoal)

MCCalls == [c \in ClauseNames |-> Tail(c)]

MCDerive ==
  [c \in ClauseNames |->
     CASE c[1] = "fact" -> (<<>> :> 1)                                  \* s(1).
       [] c[1] = "copy" -> [t \in {<<a>> : a \in Ans} |-> t[1]]         \* s(X) :- c(X).
       [] c[1] = "succ" -> [t \in {<<a>> : a \in Ans \ {MaxAnswer}} |-> t[1] + 1]
       [] c[1] = "one"  -> (<<1>> :> 1)                                 \* s :- c(1).
       [] c[1] = "last" -> (<<MaxAnswer>> :> 1)
       [] c[1] = "both" -> [t \in Ans \X Ans |-> t[2]]                  \* s(X) :- c(_), d(X).
       [] c[1] = "equal" -> [t \in {<<a, a>> : a \in Ans} |-> 1]
       [] c[1] = "none" -> <<>>]                                        \* s(_) :- c(_), fail.

UpTo(n, pool) == UNION {[1..k -> pool] : k \in 1..n}

Make(ground, qs, ps, rs) ==
  {[ground |-> ground,
    clauses |-> (query :> <<<<"copy", sq>>>>) @@ (sq :> a) @@ (sp :> b) @@ (sr :> c)] :
     a \in qs, b \in ps, c \in rs}

\* Mutually recursive subgoals, none of them ground.
Recursive ==
  Make({}, UpTo(2, {<<"copy", sp>>, <<"both", sr, sp>>, <<"succ", sq>>}),
           UpTo(2, {<<"fact">>, <<"copy", sr>>, <<"copy", sq>>}),
           UpTo(2, {<<"succ", sq>>, <<"copy", sp>>}))

\* q is ground, so its first answer completes it early.
EarlyCompletion ==
  Make({sq}, UpTo(2, {<<"one", sp>>, <<"one", sr>>, <<"last", sp>>}),
            UpTo(2, {<<"fact">>, <<"copy", sr>>, <<"both", sq, sp>>}),
            UpTo(2, {<<"succ", sp>>, <<"both", sq, sp>>}))

\* An inner subgoal is ground.
InnerGround ==
  Make({sp}, UpTo(2, {<<"copy", sr>>, <<"equal", sp, sr>>}),
            UpTo(2, {<<"last", sr>>, <<"equal", sq, sr>>, <<"one", sq>>}),
            UpTo(2, {<<"fact">>, <<"both", sp, sq>>, <<"succ", sr>>}))

SmallPrograms == Recursive \cup EarlyCompletion \cup InnerGround

\*   q :- r(1).             p(Y) :- r(X), Y is X + 1.
\*   q :- p(_), fail.       r(1).
\*   q :- r(_), r(_), fail. r(X) :- q, p(X).
UnchainingProgram ==
  Make({sq}, {<<<<"one", sr>>, <<"none", sp>>, <<"none", sr, sr>>>>},
            {<<<<"succ", sr>>>>},
            {<<<<"fact">>, <<"both", sq, sp>>>>})

=============================================================================
