---------------------------- MODULE MCWellFounded ----------------------------
(***************************************************************************)
(* Families of small programs for WellFounded.  In all of them the query    *)
(* leads to k, which depends negatively on y, which depends on p or n:      *)
(*                                                                          *)
(*    main :- p.      k :- tnot(y).      y :- p, fail.                      *)
(*                                                                          *)
(* so that y is in one SCC with what is called through k, is delayed, and   *)
(* fails when that SCC is completed: simplification then begins.            *)
(***************************************************************************)
EXTENDS WellFounded

\* p, q, r, k, y, fail and main are ground; n(X) has the answers n(1) and n(2).
Atoms == ({"p", "q", "r", "k", "y", "fail", "main"} \X {0}) \cup {<<"n", 1>>, <<"n", 2>>}

Lits(A)      == {Is(a) : a \in A} \cup {Not(a[1]) : a \in {b \in A : b[2] = 0}}
Bodies(A)    == {<<>>} \cup {<<l>> : l \in Lits(A)}
Clause(h, b) == [head |-> h, body |-> b]

\* The definitions of h by at most n of the bodies B.
Defs(h, B, n) == {{Clause(h, b) : b \in X} : X \in {Y \in SUBSET B : Cardinality(Y) <= n}}

Skeleton(A) ==
  {Clause(<<"k", 0>>, <<Not("y")>>)}
    \cup {Clause(<<"main", 0>>, <<Is(a)>>) : a \in A}
    \cup {Clause(<<"y", 0>>, <<Is(a), Is(<<"fail", 0>>)>>) : a \in A}

\* No answer depends on itself through positive literals.
NoPositiveLoop(P) ==
  LET layer[i \in 0 .. Cardinality(Atoms)] ==
        IF i = 0 THEN {}
        ELSE LET m == layer[i - 1] IN
             {a \in Atoms : \A c \in P : c.head = a =>
                \A l \in Range(c.body) : l.neg \/ l.of \in m}
  IN  layer[Cardinality(Atoms)] = Atoms

Program(P, ac) ==
  [clauses |-> P, query |-> "main", ac |-> ac, exact |-> ac \/ NoPositiveLoop(P)]

\* No answer is undefined in the well-founded model.
TwoValued(P) == LET R == RulesOf([clauses |-> P]) IN WFTrue(R) = WFPossible(R)

Core == {"p", "q", "r", "k"} \X {0}

\* At most two clauses for p and one each for q and r.  Answer completion is on where
\* the model is two-valued.
GroundPrograms ==
  {Program(P, TwoValued(P)) : P \in
     {Skeleton({<<"p", 0>>}) \cup X \cup Y \cup Z :
        X \in Defs(<<"p", 0>>, Bodies(Core), 2),
        Y \in Defs(<<"q", 0>>, Bodies({"p", "r", "k"} \X {0}), 1),
        Z \in Defs(<<"r", 0>>, Bodies({<<"r", 0>>}), 1)}}

\* The same with n(X) in the place of p, without answer completion.
NAnswers == {<<"n", 1>>, <<"n", 2>>}
NPrograms ==
  {Program(Skeleton(NAnswers) \cup X \cup Y \cup Z, FALSE) :
     X \in Defs(<<"n", 1>>, Bodies({<<"n", 2>>, <<"k", 0>>, <<"r", 0>>}), 2),
     Y \in Defs(<<"n", 2>>, Bodies({<<"n", 1>>}), 1),
     Z \in Defs(<<"r", 0>>, Bodies({<<"n", 1>>, <<"r", 0>>}), 1)}

AllPrograms == GroundPrograms \cup NPrograms

\* n(1) :- r.   n(1) :- tnot(k).   n(2).   r :- n(1).   k :- tnot(y).
\* y :- n(X), fail.   main :- r.
TwoAnswers ==
  {Program({Clause(<<"n", 1>>, <<Is(<<"r", 0>>)>>), Clause(<<"n", 1>>, <<Not("k")>>),
            Clause(<<"n", 2>>, <<>>), Clause(<<"r", 0>>, <<Is(<<"n", 1>>)>>),
            Clause(<<"main", 0>>, <<Is(<<"r", 0>>)>>)}
             \cup {c \in Skeleton(NAnswers) : c.head # <<"main", 0>>}, TRUE)}
=============================================================================
