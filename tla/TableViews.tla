----------------------------- MODULE TableViews -----------------------------
(***************************************************************************)
(* What incremental tabling promises, without saying how: the tables that  *)
(* a program may read without recomputing anything are materialised views  *)
(* of its dynamic facts.  A view is absent, or it is what evaluating the   *)
(* goal on the facts of this moment would give.                            *)
(***************************************************************************)
EXTENDS Integers, Sequences

CONSTANTS Facts,      \* dynamic incremental goals, the leaves of the program
          Goals,      \* incrementally tabled goals
          Clauses,    \* goal -> sequence of clauses, each a sequence of literals
          Absent      \* no view: no table, or one that must be recomputed first

VARIABLES db,         \* number of clauses of each dynamic goal
          view        \* the view of each tabled goal

viewVars == <<db, view>>

\* M (a set of goals) holds every goal that has a clause whose body the facts T
\* and M make true.
Closed(T, M) ==
    \A g \in Goals :
        (\E k \in DOMAIN Clauses[g] : \A i \in DOMAIN Clauses[g][k] : Clauses[g][k][i] \in T \cup M)
            => g \in M

\* The least model of the program for each set of facts that hold.
Models == [T \in SUBSET Facts |-> {g \in Goals : \A M \in SUBSET Goals : Closed(T, M) => g \in M}]

\* The goals that have an answer when the facts have d clauses.
LeastModel(d) == Models[{f \in Facts : d[f] > 0}]

ViewInit ==
    /\ db \in [Facts -> Nat]
    /\ view = [g \in Goals |-> Absent]

\* At most one dynamic goal gains or loses a clause, or loses all, and whatever view is left
\* after the step is right for the facts after the step.
ViewNext ==
    /\ \/ db' = db
       \/ \E f \in Facts : \E v \in {db[f] + 1, db[f] - 1, 0} : db' = [db EXCEPT ![f] = v]
    /\ LET model == LeastModel(db')
       IN  \A g \in Goals : view'[g] \in {Absent, (g \in model)}

ViewSpec == ViewInit /\ [][ViewNext]_viewVars
=============================================================================
